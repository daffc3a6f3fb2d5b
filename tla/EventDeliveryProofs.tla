-------------------------- MODULE EventDeliveryProofs --------------------------
(***************************************************************************)
(* The outbox relays and the consumer group of EventDelivery, for any      *)
(* events, relays, readers and reclaimers: types, that a published row is  *)
(* in the stream, and that an entry leaves the group only when it was      *)
(* handled or is in the dead-letter stream.                                *)
(***************************************************************************)
EXTENDS EventDelivery, TLAPS, FiniteSetTheorems, SequenceTheorems

InStream(e) == \E i \in Entries : stream[i] = e

\* What PublishedIsInStream needs: a relay marks a row after its XADD.
MarkedInStream == \A r \in Relays : \A e \in marked[r] : InStream(e)

RelayInv == PublishedIsInStream /\ MarkedInStream

\* What NothingDropped needs: a worker acknowledges an entry after its
\* handlers returned or after it was written to the dead-letter stream.
AcksFollow ==
  \A w \in Workers :
    /\ wpc[w] = "ack" => Item(w).id \in handled
    /\ wpc[w] = "buried" => Item(w).id \in dead

GroupInv == NothingDropped /\ AcksFollow /\ acked \subseteq handled

Items == [id : 1..last, seen : Nat]

-----------------------------------------------------------------------------
LEMMA LastInStream ==
  ASSUME TypeOK
  PROVE  last \in Nat /\ Len(stream) \in Nat /\ last <= Len(stream)
<1>1. Len(stream) \in Nat
  BY LenProperties DEF TypeOK, OutboxTypes
<1> QED
  BY <1>1 DEF TypeOK, GroupTypes

\* Type correctness.  The first entry of a worker that is not waiting was
\* delivered to the group, and what follows it is a queue again.
LEMMA HeldEntries ==
  ASSUME TypeOK, NEW w \in Workers, wpc[w] # "wait"
  PROVE  /\ Item(w) \in Items
         /\ Item(w).id \in 1..last /\ Item(w).id \in Entries /\ Item(w).seen \in Nat
         /\ Tail(queue[w]) \in Seq(Items)
<1>1. queue[w] \in Seq(Items) /\ queue[w] # <<>>
  BY DEF TypeOK, WorkerTypes, Items
<1>3. last \in Nat /\ Len(stream) \in Nat /\ last <= Len(stream)
  BY LastInStream
<1>2. Item(w) \in Items /\ Tail(queue[w]) \in Seq(Items)
  BY <1>1, HeadTailProperties DEF Item
<1> QED
  BY <1>1, <1>2, <1>3 DEF Items, Entries

\* Queues stay well typed while the group is given more entries.
LEMMA QueuesGrow ==
  ASSUME NEW w \in Workers, WorkerTypes, last \in Nat, last' \in Nat, last <= last',
         NEW q \in Seq(Items'), NEW p \in WorkerSteps, p = "wait" <=> q = <<>>,
         wpc' = [wpc EXCEPT ![w] = p],
         queue' = [queue EXCEPT ![w] = q]
  PROVE  WorkerTypes'
<1>1. Items \subseteq Items'
  BY DEF Items
<1>2. ASSUME NEW v \in Workers PROVE queue[v] \in Seq(Items')
  <2>1. queue[v] \in Seq(Items)
    BY DEF WorkerTypes, Items
  <2> QED
    BY <1>1, <2>1, SeqMonotonic
<1>3. wpc' \in [Workers -> WorkerSteps] /\ queue' \in [Workers -> Seq(Items')]
  BY <1>2 DEF WorkerTypes
<1>4. ASSUME NEW v \in Workers PROVE (wpc[v] = "wait" <=> queue[v] = <<>>)'
  BY DEF WorkerTypes
<1> QED
  BY <1>3, <1>4 DEF WorkerTypes, Items

\* The two ways a worker leaves an entry: to its next step on it, or to the
\* next entry of its queue.
LEMMA WorkerGoesOn ==
  ASSUME TypeOK, NEW w \in Workers, wpc[w] # "wait", UNCHANGED last,
         NEW p \in WorkerSteps \ {"wait"},
         Goto(w, p) \/ Continue(w, p)
  PROVE  WorkerTypes'
<1>1. last \in Nat /\ Items' = Items
  BY LastInStream DEF Items
<1>2. CASE Goto(w, p)
  BY <1>2 DEF TypeOK, WorkerTypes, Goto
<1>3. CASE Continue(w, p)
  <2>1. Tail(queue[w]) \in Seq(Items)
    BY HeldEntries
  <2> DEFINE step == IF Tail(queue[w]) = <<>> THEN "wait" ELSE p
  <2>2. step \in WorkerSteps /\ (step = "wait" <=> Tail(queue[w]) = <<>>)
    BY DEF WorkerSteps
  <2>3. wpc' = [wpc EXCEPT ![w] = step] /\ queue' = [queue EXCEPT ![w] = Tail(queue[w])]
    BY <1>3 DEF Continue
  <2>4. Tail(queue[w]) \in Seq(Items') /\ last' \in Nat /\ last <= last' /\ WorkerTypes
    BY <1>1, <2>1 DEF TypeOK
  <2> HIDE DEF step
  <2> QED
    BY <1>1, <2>2, <2>3, <2>4, QueuesGrow
<1> QED
  BY <1>2, <1>3

LEMMA TypeInit == Init => TypeOK
<1> SUFFICES ASSUME Init PROVE TypeOK
  OBVIOUS
<1>1. <<>> \in Seq(Events) /\ <<>> \in Seq(Nat) /\ Len(<<>>) = 0 /\ <<>> \in Seq([id : 1..0, seen : Nat])
  BY EmptySeq
<1>2. OutboxTypes
  BY <1>1 DEF Init, OutboxTypes
<1>3. GroupTypes
  BY <1>1 DEF Init, GroupTypes
<1>4. WorkerTypes
  BY <1>1 DEF Init, WorkerTypes, WorkerSteps
<1> QED
  BY <1>2, <1>3, <1>4 DEF TypeOK, Init

\* The steps of the relays.
LEMMA RelayTypes ==
  ASSUME TypeOK, NEW r \in Relays,
         RelayStep(r) \/ PublishFails(r) \/ RollbackBatch(r)
  PROVE  TypeOK'
<1> USE DEF TypeOK
<1>1. ASSUME UNCHANGED <<stream, groupVars, dead, workerVars, handled, acked>>
      PROVE  GroupTypes' /\ WorkerTypes'
  BY <1>1 DEF groupVars, workerVars, GroupTypes, WorkerTypes
<1>2. CASE SelectRows(r)
  <2>1. OutboxTypes'
    BY <1>2 DEF SelectRows, OutboxTypes
  <2> QED
    BY <1>1, <1>2, <2>1 DEF SelectRows
<1>3. CASE Publish(r) \/ PublishFails(r)
  <2>1. PICK e \in untried[r] : NextRow(r, e) /\ (Publish(r) \/ PublishFails(r))
    BY <1>3 DEF Publish, PublishFails
  <2>2. e \in Events
    BY <2>1 DEF OutboxTypes
  <2>3. \/ UNCHANGED <<stream, deliveries>>
        \/ \E d \in Events : stream' = Append(stream, d) /\ deliveries' = Append(deliveries, 0)
    BY <1>3 DEF Publish, PublishFails, OutboxTypes
  <2>4. /\ stream' \in Seq(Events) /\ deliveries' \in Seq(Nat)
        /\ Len(stream) \in Nat /\ Len(deliveries') = Len(stream')
        /\ Len(stream') \in {Len(stream), Len(stream) + 1}
    <3>1. /\ stream \in Seq(Events) /\ deliveries \in Seq(Nat)
          /\ Len(stream) \in Nat /\ Len(deliveries) = Len(stream)
      BY LenProperties DEF OutboxTypes, GroupTypes
    <3>2. ASSUME NEW d \in Events, stream' = Append(stream, d), deliveries' = Append(deliveries, 0)
          PROVE  /\ stream' \in Seq(Events) /\ Len(stream') = Len(stream) + 1
                 /\ deliveries' \in Seq(Nat) /\ Len(deliveries') = Len(stream) + 1
      <4>1. stream' \in Seq(Events) /\ Len(stream') = Len(stream) + 1
        BY <3>1, <3>2, AppendProperties
      <4>2. deliveries' \in Seq(Nat) /\ Len(deliveries') = Len(deliveries) + 1
        BY <3>1, <3>2, 0 \in Nat, AppendProperties
      <4> QED
        BY <3>1, <4>1, <4>2
    <3> QED
      BY <2>3, <3>1, <3>2
  <2>5. OutboxTypes'
    <3>1. UNCHANGED <<row, batch>>
      BY <1>3 DEF Publish, PublishFails
    <3>2. PICK d \in untried[r] :
            /\ untried' = [untried EXCEPT ![r] = @ \ {d}]
            /\ (marked' = marked \/ marked' = [marked EXCEPT ![r] = @ \cup {d}])
      BY <1>3 DEF Publish, PublishFails
    <3>3. d \in Events /\ d \in batch[r]
      BY <3>2 DEF OutboxTypes
    <3>4. untried' \in [Relays -> SUBSET Events] /\ marked' \in [Relays -> SUBSET Events]
      BY <3>2, <3>3 DEF OutboxTypes
    <3>5. ASSUME NEW p \in Relays PROVE untried'[p] \cup marked'[p] \subseteq batch[p]
      BY <3>2, <3>3 DEF OutboxTypes
    <3> QED
      BY <2>4, <3>1, <3>4, <3>5 DEF OutboxTypes
  <2>6. UNCHANGED <<last, pending, idle, dead, workerVars, handled, acked>>
    BY <1>3 DEF Publish, PublishFails
  <2>7. GroupTypes'
    BY <2>4, <2>6 DEF GroupTypes
  <2>8. WorkerTypes'
    BY <2>6 DEF WorkerTypes, workerVars
  <2>9. faults' \in Nat
    BY <1>3 DEF Publish, PublishFails, Fault
  <2> QED
    BY <2>5, <2>7, <2>8, <2>9
<1>4. CASE CommitBatch(r)
  <2>1. OutboxTypes'
    BY <1>4 DEF CommitBatch, EndBatch, OutboxTypes
  <2> QED
    BY <1>1, <1>4, <2>1 DEF CommitBatch
<1>5. CASE RollbackBatch(r)
  <2>1. OutboxTypes'
    BY <1>5 DEF RollbackBatch, EndBatch, OutboxTypes
  <2> QED
    BY <1>1, <1>5, <2>1 DEF RollbackBatch, Fault
<1> QED
  BY <1>2, <1>3, <1>4, <1>5 DEF RelayStep

\* The readers' reads and the reclaimers' lists fill a waiting worker's queue.
LEMMA ReadTypes ==
  ASSUME TypeOK, NEW c \in Workers, Read(c)
  PROVE  TypeOK'
<1> USE DEF TypeOK
<1> DEFINE q == [n \in 1..(Len(stream) - last) |-> [id |-> last + n, seen |-> 1]]
<1>1. last \in Nat /\ Len(stream) \in Nat /\ last < Len(stream) /\ last' = Len(stream)
  BY LastInStream DEF Read
<1>2. q \in Seq(Items') /\ q # <<>>
  <2>1. \A n \in 1..(Len(stream) - last) : [id |-> last + n, seen |-> 1] \in Items'
    BY <1>1 DEF Items
  <2>2. q \in Seq(Items')
    BY <1>1, <2>1
  <2>3. Len(q) = Len(stream) - last
    BY <1>1
  <2> HIDE DEF q
  <2> QED
    BY <1>1, <2>2, <2>3, EmptySeq
<1>3. OutboxTypes'
  BY DEF Read, OutboxTypes, outboxVars
<1>4. GroupTypes'
  <2>1. deliveries' = [i \in Entries |-> IF i \in last + 1 .. Len(stream) THEN 1 ELSE deliveries[i]]
    BY DEF Read
  <2>2. \A i \in Entries : deliveries[i] \in Nat
    BY ElementOfSeq DEF GroupTypes, Entries
  <2>3. deliveries' \in Seq(Nat) /\ Len(deliveries') = Len(stream)
    BY <1>1, <2>1, <2>2 DEF Entries
  <2>4. pending' = pending \cup last + 1 .. Len(stream) /\ UNCHANGED <<stream, idle, dead, handled, acked>>
    BY DEF Read
  <2>5. 1..last \subseteq 1..Len(stream) /\ last + 1 .. Len(stream) \subseteq 1..Len(stream)
    BY <1>1
  <2>6. /\ idle' \subseteq pending' /\ pending' \subseteq 1..last'
        /\ handled' \cup acked' \cup dead' \subseteq 1..last'
    BY <1>1, <2>4, <2>5 DEF GroupTypes
  <2> QED
    BY <1>1, <2>3, <2>4, <2>6 DEF GroupTypes
<1>5. WorkerTypes'
  <2>1. wpc' = [wpc EXCEPT ![c] = "handle"] /\ queue' = [queue EXCEPT ![c] = q]
    BY DEF Read
  <2> HIDE DEF q
  <2>2. "handle" \in WorkerSteps /\ ("handle" = "wait" <=> q = <<>>)
    BY <1>2 DEF WorkerSteps
  <2>3. last' \in Nat /\ last <= last'
    BY <1>1
  <2> QED
    BY <1>1, <1>2, <2>1, <2>2, <2>3, QueuesGrow
<1> QED
  BY <1>3, <1>4, <1>5 DEF Read

LEMMA ListTypes ==
  ASSUME TypeOK, NEW t \in Workers, ListIdle(t)
  PROVE  TypeOK'
<1> USE DEF TypeOK
<1> DEFINE n == Cardinality(idle)
<1>1. last \in Nat /\ Len(stream) \in Nat /\ last <= Len(stream)
  BY LastInStream
<1> idle \subseteq 1..last /\ 1..last \subseteq 1..Len(deliveries)
  BY <1>1 DEF GroupTypes
<1>2. n \in Nat /\ n # 0
  <2>1. IsFiniteSet(idle)
    BY <1>1, FS_Interval, FS_Subset, 1 \in Int, last \in Int
  <2> QED
    BY <2>1, FS_CardinalityType, FS_EmptySet DEF ListIdle, Snapshot
<1>3. PICK ids \in Ascending(idle) :
        queue' = [queue EXCEPT ![t] = [k \in 1..n |-> [id |-> ids[k], seen |-> deliveries[ids[k]]]]]
  BY DEF ListIdle, Snapshot
<1> DEFINE q == [k \in 1..n |-> [id |-> ids[k], seen |-> deliveries[ids[k]]]]
<1>4. q \in Seq(Items') /\ q # <<>>
  <2>1. last' = last
    BY DEF ListIdle, Snapshot, groupVars
  <2>2. ASSUME NEW k \in 1..n PROVE q[k] \in Items'
    <3>1. ids[k] \in idle
      BY DEF Ascending
    <3>2. ids[k] \in 1..last /\ ids[k] \in 1..Len(deliveries)
      BY <3>1
    <3>3. deliveries[ids[k]] \in Nat
      BY <3>2, ElementOfSeq DEF GroupTypes
    <3> QED
      BY <2>1, <3>2, <3>3 DEF Items
  <2> HIDE DEF n
  <2>3. q \in Seq(Items') /\ Len(q) = n
    BY <1>2, <2>2
  <2> QED
    BY <1>2, <2>3, EmptySeq
<1>5. OutboxTypes' /\ GroupTypes'
  BY DEF ListIdle, Snapshot, OutboxTypes, GroupTypes, outboxVars, groupVars
<1>6. WorkerTypes'
  <2>1. wpc' = [wpc EXCEPT ![t] = "claim"] /\ queue' = [queue EXCEPT ![t] = q] /\ last' = last
    BY <1>3 DEF ListIdle, Snapshot, groupVars
  <2> HIDE DEF q, n
  <2>2. "claim" \in WorkerSteps /\ ("claim" = "wait" <=> q = <<>>)
    BY <1>4 DEF WorkerSteps
  <2>3. last' \in Nat /\ last <= last'
    BY <1>1, <2>1
  <2> QED
    BY <1>1, <1>4, <2>1, <2>2, <2>3, QueuesGrow
<1> QED
  BY <1>5, <1>6 DEF ListIdle, Snapshot

\* The steps of a worker on the entry it holds.
LEMMA EntryTypes ==
  ASSUME TypeOK, NEW w \in Workers,
         \/ Claim(w) \/ DeadLetter(w) \/ AckDead(w) \/ Handle(w) \/ HandlerFails(w)
         \/ Ack(w) \/ AckFails(w)
  PROVE  TypeOK'
<1> USE DEF TypeOK
<1>1. wpc[w] # "wait"
  BY DEF Claim, DeadLetter, AckDead, Handle, HandlerFails, Ack, AckFails
<1>2. Item(w).id \in 1..last /\ Item(w).id \in Entries
  BY <1>1, HeldEntries
<1>3. OutboxTypes' /\ UNCHANGED <<stream, last>> /\ faults' \in Nat
  BY DEF Claim, DeadLetter, AckDead, Handle, HandlerFails, Ack, AckFails,
         Acknowledge, Fault, OutboxTypes, outboxVars, groupVars
<1>4. WorkerTypes'
  <2>1. \E p \in WorkerSteps \ {"wait"} : Goto(w, p) \/ Continue(w, p)
    BY DEF Claim, DeadLetter, AckDead, Handle, HandlerFails, Ack, AckFails, NextStep, WorkerSteps
  <2> QED
    BY <1>1, <1>3, <2>1, WorkerGoesOn
<1>5. GroupTypes'
  <2>1. CASE Claim(w)
    <3>1. CASE deliveries' = [deliveries EXCEPT ![Item(w).id] = @ + 1]
      <4>1. deliveries[Item(w).id] + 1 \in Nat /\ Item(w).id \in 1..Len(deliveries)
        BY <1>2, ElementOfSeq DEF GroupTypes, Entries
      <4>2. deliveries' \in Seq(Nat) /\ Len(deliveries') = Len(deliveries)
        BY <3>1, <4>1, ExceptSeq DEF GroupTypes
      <4> QED
        BY <1>3, <2>1, <4>2 DEF Claim, GroupTypes
    <3>2. CASE UNCHANGED <<idle, deliveries>>
      BY <1>3, <2>1, <3>2 DEF Claim, GroupTypes
    <3> QED
      BY <2>1, <3>1, <3>2 DEF Claim
  <2>2. CASE DeadLetter(w)
    BY <1>2, <1>3, <2>2 DEF DeadLetter, GroupTypes, groupVars
  <2>3. CASE AckDead(w)
    BY <1>3, <2>3 DEF AckDead, Acknowledge, GroupTypes
  <2>4. CASE Handle(w)
    BY <1>2, <1>3, <2>4 DEF Handle, GroupTypes, groupVars
  <2>5. CASE HandlerFails(w) \/ AckFails(w)
    BY <1>3, <2>5 DEF HandlerFails, AckFails, GroupTypes, groupVars
  <2>6. CASE Ack(w)
    BY <1>2, <1>3, <2>6 DEF Ack, Acknowledge, GroupTypes
  <2> QED
    BY <2>1, <2>2, <2>3, <2>4, <2>5, <2>6
<1> QED
  BY <1>3, <1>4, <1>5

LEMMA CrashTypes ==
  ASSUME TypeOK, NEW w \in Workers, Crash(w)
  PROVE  TypeOK'
<1>1. OutboxTypes' /\ GroupTypes' /\ faults' \in Nat
  BY DEF TypeOK, Crash, Fault, OutboxTypes, GroupTypes, outboxVars, groupVars
<1>2. <<>> \in Seq(Items') /\ "wait" \in WorkerSteps
  BY EmptySeq DEF WorkerSteps
<1>3. last \in Nat /\ last' \in Nat /\ last <= last'
  BY LastInStream DEF Crash, groupVars
<1>4. WorkerTypes'
  BY <1>2, <1>3, QueuesGrow DEF Crash, TypeOK
<1> QED
  BY <1>1, <1>4 DEF TypeOK

LEMMA TypeStep ==
  ASSUME TypeOK, [Next]_vars
  PROVE  TypeOK'
<1>1. ASSUME NEW e \in Events, Add(e) PROVE TypeOK'
  <2>1. OutboxTypes' /\ GroupTypes' /\ WorkerTypes' /\ faults' \in Nat
    BY <1>1 DEF TypeOK, Add, OutboxTypes, GroupTypes, WorkerTypes, groupVars, workerVars
  <2> QED
    BY <2>1 DEF TypeOK
<1>2. ASSUME NEW r \in Relays, RelayStep(r) \/ PublishFails(r) \/ RollbackBatch(r) PROVE TypeOK'
  BY <1>2, RelayTypes
<1>3. ASSUME NEW w \in Workers, WorkerStep(w) \/ AckFails(w) \/ Crash(w) PROVE TypeOK'
  BY <1>3, ReadTypes, ListTypes, EntryTypes, CrashTypes DEF WorkerStep
<1>4. ASSUME NEW i \in Entries, TurnsIdle(i) PROVE TypeOK'
  <2>1. OutboxTypes' /\ GroupTypes' /\ WorkerTypes' /\ faults' \in Nat
    BY <1>4 DEF TypeOK, TurnsIdle, OutboxTypes, GroupTypes, WorkerTypes, outboxVars, workerVars
  <2> QED
    BY <2>1 DEF TypeOK
<1>5. ASSUME UNCHANGED vars PROVE TypeOK'
  BY <1>5 DEF TypeOK, OutboxTypes, GroupTypes, WorkerTypes, vars, outboxVars, groupVars, workerVars
<1> QED
  BY <1>1, <1>2, <1>3, <1>4, <1>5 DEF Next

\* Every reachable state is well typed: in particular the group and its
\* workers only ever hold entries of the stream that were delivered to them,
\* and a counter exists for every entry.
THEOREM DeliveryTypeCorrect == Spec => []TypeOK
<1>1. TypeOK /\ [Next]_vars => TypeOK'
  BY TypeStep
<1> QED
  BY TypeInit, <1>1, PTL DEF Spec

-----------------------------------------------------------------------------
\* The outbox.  An entry stays where it is in a growing stream.
LEMMA StreamGrows ==
  ASSUME TypeOK, NEW e, InStream(e),
         stream' = stream \/ \E d \in Events : stream' = Append(stream, d)
  PROVE  InStream(e)'
<1>1. stream \in Seq(Events) /\ Len(stream) \in Nat
  BY LenProperties DEF TypeOK, OutboxTypes
<1>2. PICK i \in 1..Len(stream) : stream[i] = e
  BY DEF InStream, Entries
<1>3. CASE stream' = stream
  BY <1>3 DEF InStream, Entries
<1>4. ASSUME NEW d \in Events, stream' = Append(stream, d) PROVE InStream(e)'
  <2>1. Len(stream') = Len(stream) + 1 /\ stream'[i] = stream[i]
    BY <1>1, <1>2, <1>4, AppendProperties
  <2>2. i \in 1..Len(stream')
    BY <1>1, <2>1
  <2> QED
    BY <1>2, <2>1, <2>2 DEF InStream, Entries
<1> QED
  BY <1>3, <1>4

LEMMA RelayInvInit == Init => RelayInv
  BY DEF Init, RelayInv, PublishedIsInStream, MarkedInStream

LEMMA RelayInvStep ==
  ASSUME TypeOK, TypeOK', RelayInv, [Next]_vars
  PROVE  RelayInv'
<1>1. ASSUME UNCHANGED <<outboxVars, stream>> PROVE RelayInv'
  BY <1>1 DEF RelayInv, PublishedIsInStream, MarkedInStream, InStream, Entries, outboxVars
<1>2. ASSUME NEW e \in Events, Add(e) PROVE RelayInv'
  BY <1>2 DEF TypeOK, OutboxTypes, Add, RelayInv, PublishedIsInStream, MarkedInStream, InStream, Entries
<1>3. ASSUME NEW r \in Relays, SelectRows(r) PROVE RelayInv'
  BY <1>3 DEF TypeOK, OutboxTypes, SelectRows, RelayInv, PublishedIsInStream, MarkedInStream, InStream, Entries
<1>4. ASSUME NEW r \in Relays, Publish(r) \/ PublishFails(r) PROVE RelayInv'
  <2>1. PICK e \in untried[r] :
          /\ \/ stream' = stream
             \/ stream' = Append(stream, e)
          /\ \/ marked' = marked
             \/ stream' = Append(stream, e) /\ marked' = [marked EXCEPT ![r] = @ \cup {e}]
          /\ UNCHANGED <<row, batch>>
    BY <1>4 DEF Publish, PublishFails
  <2>2. e \in Events
    BY <2>1 DEF TypeOK, OutboxTypes
  <2>3. \A d \in Events : InStream(d) => InStream(d)'
    BY <2>1, <2>2, StreamGrows
  <2>4. stream' = Append(stream, e) => InStream(e)'
    <3>1. stream \in Seq(Events) /\ Len(stream) \in Nat
      BY LenProperties DEF TypeOK, OutboxTypes
    <3>2. ASSUME stream' = Append(stream, e)
          PROVE  Len(stream') = Len(stream) + 1 /\ stream'[Len(stream) + 1] = e
      BY <2>2, <3>1, <3>2, AppendProperties
    <3> QED
      BY <3>1, <3>2 DEF InStream, Entries
  <2>5. MarkedInStream'
    <3> SUFFICES ASSUME NEW q \in Relays, NEW d \in marked'[q] PROVE InStream(d)'
      BY DEF MarkedInStream
    <3>1. CASE d \in marked[q]
      BY <2>3, <3>1 DEF RelayInv, MarkedInStream, TypeOK, OutboxTypes
    <3>2. CASE d \notin marked[q]
      BY <2>1, <2>4, <3>2 DEF TypeOK, OutboxTypes
    <3> QED
      BY <3>1, <3>2
  <2>6. PublishedIsInStream'
    BY <2>1, <2>3 DEF RelayInv, PublishedIsInStream, InStream, Entries
  <2> QED
    BY <2>5, <2>6 DEF RelayInv
<1>5. ASSUME NEW r \in Relays, CommitBatch(r) PROVE RelayInv'
  <2>1. \A e \in Events : row'[e] = "published" => row[e] = "published" \/ e \in marked[r]
    BY <1>5 DEF CommitBatch
  <2>2. \A q \in Relays : batch'[q] \subseteq batch[q] /\ marked'[q] \subseteq marked[q]
    BY <1>5 DEF CommitBatch, EndBatch, TypeOK, OutboxTypes
  <2>3. \A e \in Events : InStream(e) => InStream(e)'
    BY <1>5 DEF CommitBatch, InStream, Entries
  <2>4. MarkedInStream'
    BY <2>2, <2>3 DEF RelayInv, MarkedInStream, TypeOK, OutboxTypes
  <2>5. \A e \in Events : row'[e] = "published" => InStream(e)'
    BY <2>1, <2>3 DEF RelayInv, PublishedIsInStream, MarkedInStream, InStream, Entries
  <2> QED
    BY <2>2, <2>4, <2>5 DEF RelayInv, PublishedIsInStream, InStream, Entries
<1>6. ASSUME NEW r \in Relays, RollbackBatch(r) PROVE RelayInv'
  BY <1>6 DEF RollbackBatch, EndBatch, TypeOK, OutboxTypes, RelayInv, PublishedIsInStream,
              MarkedInStream, InStream, Entries
<1>7. ASSUME NEW w \in Workers, WorkerStep(w) \/ AckFails(w) \/ Crash(w) PROVE RelayInv'
  BY <1>1, <1>7 DEF WorkerStep, Read, ListIdle, Snapshot, Claim, DeadLetter, AckDead, Handle,
                    HandlerFails, Ack, AckFails, Crash
<1>8. ASSUME NEW i \in Entries, TurnsIdle(i) PROVE RelayInv'
  BY <1>1, <1>8 DEF TurnsIdle
<1>9. CASE UNCHANGED vars
  BY <1>1, <1>9 DEF vars
<1> QED
  BY <1>2, <1>3, <1>4, <1>5, <1>6, <1>7, <1>8, <1>9 DEF Next, RelayStep

\* No two relays hold the same row, and a row marked as published was added
\* to the stream, whatever fails between XADD and the UPDATE that commits:
\* a failed row keeps its place, and a rollback only undoes marks.
THEOREM PublishedIsInStreamHolds == Spec => []PublishedIsInStream
<1>1. TypeOK /\ TypeOK' /\ RelayInv /\ [Next]_vars => RelayInv'
  BY RelayInvStep
<1>2. RelayInv => PublishedIsInStream
  BY DEF RelayInv
<1> QED
  BY RelayInvInit, DeliveryTypeCorrect, <1>1, <1>2, PTL DEF Spec

-----------------------------------------------------------------------------
\* The consumer group.
LEMMA GroupInvInit == Init => GroupInv
  BY DEF Init, GroupInv, NothingDropped, AcksFollow, Workers

\* Nothing drops when the worker w alone moves, no entry leaves the group
\* unsettled, and w's next step is on an entry it handled or buried.
LEMMA GroupInvKept ==
  ASSUME TypeOK, GroupInv, NEW w \in Workers,
         \A v \in Workers \ {w} : wpc'[v] = wpc[v] /\ queue'[v] = queue[v],
         handled \subseteq handled', dead \subseteq dead', acked' \subseteq handled',
         \A i \in 1..last' : i \notin pending' => (i \in 1..last /\ i \notin pending) \/ Settled(i)',
         wpc'[w] = "ack" => Item(w)'.id \in handled',
         wpc'[w] = "buried" => Item(w)'.id \in dead'
  PROVE  GroupInv'
<1>1. NothingDropped'
  BY DEF GroupInv, NothingDropped, Settled
<1>2. AcksFollow'
  <2> SUFFICES ASSUME NEW v \in Workers
               PROVE  /\ wpc'[v] = "ack" => Item(v)'.id \in handled'
                      /\ wpc'[v] = "buried" => Item(v)'.id \in dead'
    BY DEF AcksFollow
  <2> QED
    BY DEF GroupInv, AcksFollow, Item
<1> QED
  BY <1>1, <1>2 DEF GroupInv

LEMMA GroupInvStep ==
  ASSUME TypeOK, GroupInv, [Next]_vars
  PROVE  GroupInv'
<1>1. ASSUME UNCHANGED <<last, pending, dead, workerVars, handled, acked>> PROVE GroupInv'
  BY <1>1 DEF GroupInv, NothingDropped, Settled, AcksFollow, Item, workerVars
<1>2. ASSUME NEW w \in Workers, WorkerStep(w) \/ AckFails(w) \/ Crash(w) PROVE GroupInv'
  <2> USE DEF TypeOK, WorkerTypes
  <2>1. \A v \in Workers \ {w} : wpc'[v] = wpc[v] /\ queue'[v] = queue[v]
    BY <1>2 DEF WorkerStep, Read, ListIdle, Snapshot, Claim, DeadLetter, AckDead, Handle, HandlerFails,
                Ack, AckFails, Crash, Goto, Continue
  <2>2. handled \subseteq handled' /\ dead \subseteq dead'
    BY <1>2 DEF WorkerStep, Read, ListIdle, Snapshot, Claim, DeadLetter, AckDead, Handle, HandlerFails,
                Ack, AckFails, Crash
  <2>3. acked' \subseteq handled'
    BY <1>2 DEF WorkerStep, Read, ListIdle, Snapshot, Claim, DeadLetter, AckDead, Handle, HandlerFails,
                Ack, AckFails, Crash, GroupInv, AcksFollow
  <2>4. ASSUME NEW i \in 1..last', i \notin pending', ~(i \in 1..last /\ i \notin pending)
        PROVE  Settled(i)'
    <3>1. CASE Read(w)
      <4>1. last' = Len(stream) /\ pending' = pending \cup last + 1 .. Len(stream)
        BY <3>1 DEF Read
      <4>2. last \in Nat /\ Len(stream) \in Nat
        BY LastInStream
      <4> QED
        BY <2>4, <4>1, <4>2
    <3>2. CASE AckDead(w)
      BY <2>4, <3>2 DEF AckDead, Acknowledge, Settled, GroupInv, AcksFollow
    <3>3. CASE Ack(w)
      BY <2>4, <3>3 DEF Ack, Acknowledge, Settled, GroupInv, AcksFollow
    <3>4. CASE UNCHANGED <<last, pending>>
      BY <2>4, <3>4
    <3>5. Read(w) \/ AckDead(w) \/ Ack(w) \/ UNCHANGED <<last, pending>>
      BY <1>2 DEF WorkerStep, ListIdle, Snapshot, Claim, DeadLetter, Handle, HandlerFails, AckFails, Crash, groupVars
    <3> QED
      BY <3>1, <3>2, <3>3, <3>4, <3>5
  <2>5. wpc'[w] = "ack" => Item(w)'.id \in handled'
    BY <1>2 DEF WorkerStep, Read, ListIdle, Snapshot, Claim, DeadLetter, AckDead, Handle, HandlerFails,
                Ack, AckFails, Crash, Goto, Continue, NextStep, Item
  <2>6. wpc'[w] = "buried" => Item(w)'.id \in dead'
    BY <1>2 DEF WorkerStep, Read, ListIdle, Snapshot, Claim, DeadLetter, AckDead, Handle, HandlerFails,
                Ack, AckFails, Crash, Goto, Continue, NextStep, Item
  <2> HIDE DEF TypeOK, WorkerTypes
  <2> QED
    BY <2>1, <2>2, <2>3, <2>4, <2>5, <2>6, GroupInvKept
<1>3. ASSUME NEW e \in Events, Add(e) PROVE GroupInv'
  BY <1>1, <1>3 DEF Add, groupVars
<1>4. ASSUME NEW r \in Relays, RelayStep(r) \/ PublishFails(r) \/ RollbackBatch(r) PROVE GroupInv'
  BY <1>1, <1>4 DEF RelayStep, SelectRows, Publish, CommitBatch, PublishFails, RollbackBatch, groupVars
<1>5. ASSUME NEW i \in Entries, TurnsIdle(i) PROVE GroupInv'
  BY <1>1, <1>5 DEF TurnsIdle
<1>6. CASE UNCHANGED vars
  BY <1>1, <1>6 DEF vars, groupVars
<1> QED
  BY <1>2, <1>3, <1>4, <1>5, <1>6 DEF Next

\* An entry the group was given leaves it only after its handlers returned or
\* after it was written to the dead-letter stream, for any number of readers
\* and overlapping reclaims, and through crashes between a command and the next.
THEOREM NothingDroppedHolds == Spec => []NothingDropped
<1>1. TypeOK /\ GroupInv /\ [Next]_vars => GroupInv'
  BY GroupInvStep
<1>2. GroupInv => NothingDropped
  BY DEF GroupInv
<1> QED
  BY GroupInvInit, DeliveryTypeCorrect, <1>1, <1>2, PTL DEF Spec
===============================================================================
