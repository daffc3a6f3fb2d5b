--------------------------- MODULE MCEventDelivery ---------------------------
(***************************************************************************)
(* Outbox rows on their way to a group with one reader.  shape, chosen in  *)
(* the initial state, is what a behaviour is about: in "reclaims" one event *)
(* meets every fault, two relays and two overlapping reclaims; in "batch"   *)
(* two events share the batches of two relays that fail or roll back; in    *)
(* "group" two events wait in the stream, for a reader and a reclaim that   *)
(* take both.  The liveness is that of "reclaims": in the other two some    *)
(* processes never run, so that few of their behaviours are fair.           *)
(***************************************************************************)
EXTENDS EventDelivery

CONSTANTS r1, t1

VARIABLE shape

OutboxNext ==
  \/ \E e \in Events : Add(e)
  \/ \E r \in Relays : RelayStep(r) \/ PublishFails(r) \/ RollbackBatch(r)

GroupNext ==
  \/ \E w \in Readers \cup {t1} : WorkerStep(w) \/ AckFails(w) \/ Crash(w)
  \/ \E i \in Entries : TurnsIdle(i)

DeliveryInit == Init /\ shape \in {"reclaims", "batch", "group"}

DeliveryNext ==
  /\ UNCHANGED shape
  /\ \/ shape = "reclaims" /\ Next /\ \A e \in Events \ {1} : row'[e] = "absent"
     \/ shape = "batch" /\ (OutboxNext \/ \E c \in Readers : Read(c) \/ Handle(c) \/ Ack(c))
     \/ shape = "group" /\ IF Len(stream) < Cardinality(Events) \/ batch[r1] # {}
                           THEN RelayStep(r1) \/ \E e \in Events : Add(e)
                           ELSE GroupNext

DeliverySpec == DeliveryInit /\ [][DeliveryNext]_<<shape, vars>> /\ Fairness
=============================================================================
