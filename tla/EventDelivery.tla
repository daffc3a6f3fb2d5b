---------------------------- MODULE EventDelivery ----------------------------
(***************************************************************************)
(* Domain events from the transactional outbox to one consumer group of    *)
(* the Redis Streams bus.  Relays publish committed outbox rows; readers   *)
(* run the group's read loop; reclaimers run reclaim(), which a timer      *)
(* starts whether or not the previous call has returned.  One action is    *)
(* one SQL statement, one Redis command, or one run of the handlers.       *)
(*                                                                         *)
(* The group exists and is subscribed throughout, and the stream is not    *)
(* trimmed (maxLen is 100000).                                             *)
(***************************************************************************)
EXTENDS Naturals, Sequences, FiniteSets

CONSTANTS
  Events,          \* event ids, in the order of their rows' created_at
  Relays,          \* OutboxRelay instances
  Readers,         \* GroupReader loops, one per process
  Reclaimers,      \* concurrent calls of reclaim(), in any process
  MaxDeliveries,
  MaxFaults        \* bound on crashes and failed commands in a behaviour

ASSUME DeliveryAssumption ==
  /\ Events \subseteq Nat
  /\ Readers \cap Reclaimers = {}
  /\ MaxDeliveries \in Nat \ {0}
  /\ MaxFaults \in Nat

Workers == Readers \cup Reclaimers

VARIABLES
  row,           \* the outbox: [Events -> {"absent", "pending", "published"}]
  batch,         \* rows each relay's transaction holds FOR UPDATE
  untried,       \* those of its batch it has not published yet
  marked,        \* those its transaction marks as published
  stream,        \* the stream: an entry's id is its index
  last,          \* the group's last-delivered-id
  pending,       \* the group's pending entries
  deliveries,    \* the delivery counter of each entry
  idle,          \* pending entries idle for claimIdleMs
  dead,          \* entries written to the dead-letter stream
  wpc,           \* what each worker does next
  queue,         \* entries it holds: [id, seen], seen being the counter it read
  handled,       \* entries whose handlers all returned
  acked,         \* entries acknowledged after their handlers returned
  faults

outboxVars == <<row, batch, untried, marked>>
groupVars == <<last, pending, deliveries, idle>>
workerVars == <<wpc, queue>>
vars == <<outboxVars, stream, groupVars, dead, workerVars, handled, acked, faults>>

WorkerSteps == {"wait", "claim", "handle", "ack", "buried"}

Entries == 1..Len(stream)

Init ==
  /\ row = [e \in Events |-> "absent"]
  /\ batch = [r \in Relays |-> {}]
  /\ untried = [r \in Relays |-> {}]
  /\ marked = [r \in Relays |-> {}]
  /\ stream = <<>>
  /\ last = 0
  /\ pending = {}
  /\ deliveries = <<>>
  /\ idle = {}
  /\ dead = {}
  /\ wpc = [w \in Workers |-> "wait"]
  /\ queue = [w \in Workers |-> <<>>]
  /\ handled = {}
  /\ acked = {}
  /\ faults = 0

Fault ==
  /\ faults < MaxFaults
  /\ faults' = faults + 1

-----------------------------------------------------------------------------
(* The outbox. *)

\* Outbox.add, in a business transaction that commits.
Add(e) ==
  /\ row[e] = "absent"
  /\ row' = [row EXCEPT ![e] = "pending"]
  /\ UNCHANGED <<batch, untried, marked, stream, groupVars, dead, workerVars, handled, acked, faults>>

\* select ... where published_at is null for update skip locked
SelectRows(r) ==
  LET rows == {e \in Events : row[e] = "pending" /\ \A q \in Relays : e \notin batch[q]}
  IN  /\ batch[r] = {}
      /\ rows # {}
      /\ batch' = [batch EXCEPT ![r] = rows]
      /\ untried' = [untried EXCEPT ![r] = rows]
      /\ UNCHANGED <<row, marked, stream, groupVars, dead, workerVars, handled, acked, faults>>

\* The oldest row of the batch is next.
NextRow(r, e) == e \in untried[r] /\ \A d \in untried[r] : e <= d

Publish(r) ==
  \E e \in untried[r] :
    /\ NextRow(r, e)
    /\ stream' = Append(stream, e)
    /\ deliveries' = Append(deliveries, 0)
    /\ untried' = [untried EXCEPT ![r] = @ \ {e}]
    /\ marked' = [marked EXCEPT ![r] = @ \cup {e}]
    /\ UNCHANGED <<row, batch, last, pending, idle, dead, workerVars, handled, acked, faults>>

\* XADD rejects, though Redis may have added the entry: the row keeps its
\* place in the table for a later batch.
PublishFails(r) ==
  \E e \in untried[r] :
    /\ NextRow(r, e)
    /\ Fault
    /\ \/ UNCHANGED <<stream, deliveries>>
       \/ stream' = Append(stream, e) /\ deliveries' = Append(deliveries, 0)
    /\ untried' = [untried EXCEPT ![r] = @ \ {e}]
    /\ UNCHANGED <<row, batch, marked, last, pending, idle, dead, workerVars, handled, acked>>

EndBatch(r) ==
  /\ batch' = [batch EXCEPT ![r] = {}]
  /\ untried' = [untried EXCEPT ![r] = {}]
  /\ marked' = [marked EXCEPT ![r] = {}]

\* Mutant: one UPDATE marks the whole batch, failed rows included.
CommitWholeBatch(r) ==
  /\ batch[r] # {}
  /\ untried[r] = {}
  /\ row' = [e \in Events |-> IF e \in batch[r] THEN "published" ELSE row[e]]
  /\ EndBatch(r)
  /\ UNCHANGED <<stream, groupVars, dead, workerVars, handled, acked, faults>>

CommitBatch(r) ==
  /\ batch[r] # {}
  /\ untried[r] = {}
  /\ row' = [e \in Events |-> IF e \in marked[r] THEN "published" ELSE row[e]]
  /\ EndBatch(r)
  /\ UNCHANGED <<stream, groupVars, dead, workerVars, handled, acked, faults>>

\* The relay dies or its transaction fails: the marks are undone, not the XADDs.
RollbackBatch(r) ==
  /\ batch[r] # {}
  /\ Fault
  /\ EndBatch(r)
  /\ UNCHANGED <<row, stream, groupVars, dead, workerVars, handled, acked>>

-----------------------------------------------------------------------------
(* The consumer group. *)

Item(w) == Head(queue[w])

Goto(w, step) == wpc' = [wpc EXCEPT ![w] = step] /\ UNCHANGED queue

\* On to the worker's next entry, or out of its loop.
Continue(w, step) ==
  /\ queue' = [queue EXCEPT ![w] = Tail(@)]
  /\ wpc' = [wpc EXCEPT ![w] = IF Tail(queue[w]) = <<>> THEN "wait" ELSE step]

NextStep(w) == IF w \in Readers THEN "handle" ELSE "claim"

\* XREADGROUP ... '>': every entry not delivered yet, up to COUNT.
Read(c) ==
  /\ wpc[c] = "wait"
  /\ last < Len(stream)
  /\ LET new == last + 1 .. Len(stream)
     IN  /\ pending' = pending \cup new
         /\ deliveries' = [i \in Entries |-> IF i \in new THEN 1 ELSE deliveries[i]]
         /\ queue' = [queue EXCEPT ![c] = [n \in 1..(Len(stream) - last) |-> [id |-> last + n, seen |-> 1]]]
  /\ last' = Len(stream)
  /\ wpc' = [wpc EXCEPT ![c] = "handle"]
  /\ UNCHANGED <<outboxVars, stream, idle, dead, handled, acked, faults>>

\* An entry's consumer died, or its handlers take longer than claimIdleMs.
TurnsIdle(i) ==
  /\ i \in pending \ idle
  /\ idle' = idle \cup {i}
  /\ UNCHANGED <<outboxVars, stream, last, pending, deliveries, dead, workerVars, handled, acked, faults>>

\* The members of S in increasing order.
Ascending(S) ==
  {ids \in [1..Cardinality(S) -> S] : \A m, n \in 1..Cardinality(S) : m < n => ids[m] < ids[n]}

\* XPENDING ... IDLE: entries in the order of the stream, with their counters.
Snapshot(t, S) ==
  /\ wpc[t] = "wait"
  /\ S # {}
  /\ \E ids \in Ascending(S) :
       queue' = [queue EXCEPT ![t] = [n \in 1..Cardinality(S) |-> [id |-> ids[n], seen |-> deliveries[ids[n]]]]]
  /\ wpc' = [wpc EXCEPT ![t] = "claim"]
  /\ UNCHANGED <<outboxVars, stream, groupVars, dead, handled, acked, faults>>

\* Mutant: entries with a spent counter are left out.
ListUnspent(t) == Snapshot(t, {i \in idle : deliveries[i] < MaxDeliveries})

ListIdle(t) == Snapshot(t, idle)

\* XCLAIM with min-idle-time: it has no effect on an entry acknowledged or
\* claimed in the meantime.
Claim(t) ==
  /\ wpc[t] = "claim"
  /\ Item(t).seen < MaxDeliveries
  /\ LET i == Item(t).id
     IN  \/ /\ i \in idle
            /\ idle' = idle \ {i}
            /\ deliveries' = [deliveries EXCEPT ![i] = @ + 1]
            /\ Goto(t, "handle")
         \/ /\ i \notin idle
            /\ Continue(t, "claim")
            /\ UNCHANGED <<idle, deliveries>>
  /\ UNCHANGED <<outboxVars, stream, last, pending, dead, handled, acked, faults>>

\* The counter in the snapshot is spent: XADD to the dead-letter stream.
DeadLetter(t) ==
  /\ wpc[t] = "claim"
  /\ Item(t).seen >= MaxDeliveries
  /\ dead' = dead \cup {Item(t).id}
  /\ Goto(t, "buried")
  /\ UNCHANGED <<outboxVars, stream, groupVars, handled, acked, faults>>

\* XACK
Acknowledge(i) ==
  /\ pending' = pending \ {i}
  /\ idle' = idle \ {i}
  /\ UNCHANGED <<last, deliveries>>

AckDead(t) ==
  /\ wpc[t] = "buried"
  /\ Acknowledge(Item(t).id)
  /\ Continue(t, "claim")
  /\ UNCHANGED <<outboxVars, stream, dead, handled, acked, faults>>

\* process(): the handlers return, or one of them throws.
Handle(w) ==
  /\ wpc[w] = "handle"
  /\ handled' = handled \cup {Item(w).id}
  /\ Goto(w, "ack")
  /\ UNCHANGED <<outboxVars, stream, groupVars, dead, acked, faults>>

\* Mutant: the entry is acknowledged whatever the handlers did.
AckAnyway(w) ==
  /\ wpc[w] = "handle"
  /\ Goto(w, "ack")
  /\ UNCHANGED <<outboxVars, stream, groupVars, dead, handled, acked, faults>>

HandlerFails(w) ==
  /\ wpc[w] = "handle"
  /\ Continue(w, NextStep(w))
  /\ UNCHANGED <<outboxVars, stream, groupVars, dead, handled, acked, faults>>

Ack(w) ==
  /\ wpc[w] = "ack"
  /\ Acknowledge(Item(w).id)
  /\ acked' = acked \cup ({Item(w).id} \cap pending)
  /\ Continue(w, NextStep(w))
  /\ UNCHANGED <<outboxVars, stream, dead, handled, faults>>

\* process() catches the error of its XACK too.
AckFails(w) ==
  /\ wpc[w] = "ack"
  /\ Fault
  /\ Continue(w, NextStep(w))
  /\ UNCHANGED <<outboxVars, stream, groupVars, dead, handled, acked>>

\* The worker's process dies, or a command of reclaim() rejects.
Crash(w) ==
  /\ wpc[w] # "wait"
  /\ Fault
  /\ wpc' = [wpc EXCEPT ![w] = "wait"]
  /\ queue' = [queue EXCEPT ![w] = <<>>]
  /\ UNCHANGED <<outboxVars, stream, groupVars, dead, handled, acked>>

-----------------------------------------------------------------------------
RelayStep(r) == SelectRows(r) \/ Publish(r) \/ CommitBatch(r)

WorkerStep(w) ==
  \/ w \in Readers /\ Read(w)
  \/ w \in Reclaimers /\ (ListIdle(w) \/ Claim(w) \/ DeadLetter(w) \/ AckDead(w))
  \/ Handle(w) \/ HandlerFails(w) \/ Ack(w)

Next ==
  \/ \E e \in Events : Add(e)
  \/ \E r \in Relays : RelayStep(r) \/ PublishFails(r) \/ RollbackBatch(r)
  \/ \E w \in Workers : WorkerStep(w) \/ AckFails(w) \/ Crash(w)
  \/ \E i \in Entries : TurnsIdle(i)

Spec == Init /\ [][Next]_vars

\* Relays keep polling, readers keep reading, the timer keeps reclaiming, and
\* entries nobody acknowledges grow old.  Handlers may fail every time.
Fairness ==
  /\ \A r \in Relays : WF_vars(RelayStep(r))
  /\ \A w \in Workers : WF_vars(WorkerStep(w))
  /\ WF_vars(\E i \in Entries : TurnsIdle(i))

-----------------------------------------------------------------------------
OutboxTypes ==
  /\ row \in [Events -> {"absent", "pending", "published"}]
  /\ {batch, untried, marked} \subseteq [Relays -> SUBSET Events]
  /\ \A r \in Relays : untried[r] \cup marked[r] \subseteq batch[r]
  /\ stream \in Seq(Events)

GroupTypes ==
  /\ last \in 0..Len(stream)
  /\ deliveries \in Seq(Nat) /\ Len(deliveries) = Len(stream)
  /\ idle \subseteq pending /\ pending \subseteq 1..last
  /\ handled \cup acked \cup dead \subseteq 1..last

WorkerTypes ==
  /\ wpc \in [Workers -> WorkerSteps]
  /\ queue \in [Workers -> Seq([id : 1..last, seen : Nat])]
  /\ \A w \in Workers : wpc[w] = "wait" <=> queue[w] = <<>>

\* Types of the outbox, the group and the workers: a worker holds entries the
\* group was given, and only those were handled or buried.
TypeOK == OutboxTypes /\ GroupTypes /\ WorkerTypes /\ faults \in Nat

\* A row is relayed by one instance at a time: "rows are claimed with FOR
\* UPDATE SKIP LOCKED", and a published row is in the stream.
PublishedIsInStream ==
  /\ \A q, r \in Relays : q # r => batch[q] \cap batch[r] = {}
  /\ \A e \in Events : row[e] = "published" => \E i \in Entries : stream[i] = e

Settled(i) == i \in handled \cup dead

\* "At-least-once delivery that survives restarts": an entry leaves the group
\* only once its handlers returned or the dead-letter stream has it.
NothingDropped == \A i \in 1..last : i \notin pending => Settled(i)

\* A committed outbox row is handled or dead-lettered in the end, through
\* crashes of relays, readers and reclaimers and whatever the handlers do.
EventsSettle ==
  \A e \in Events :
    row[e] = "pending" ~> \E i \in Entries : stream[i] = e /\ Settled(i)

\* "Unacknowledged entries are reclaimed ... and after maxDeliveries they move
\* to the dead-letter stream": one that was acknowledged does not.  The code
\* breaks this.
DeadLettersUnacknowledged == dead \cap acked = {}
=============================================================================
