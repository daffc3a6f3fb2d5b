------------------------ MODULE BillingWebhooksProofs ------------------------
(***************************************************************************)
(* The webhook handler uses runOnce as specified, so a claimed event is in *)
(* one worker's hands; and an event that counts as over has been handled   *)
(* or superseded, for any events, seconds and workers, through failures,   *)
(* crashes, replays and redeliveries.                                      *)
(***************************************************************************)
EXTENDS BillingWebhooks, RunOnceProofs

\* The handler's synced event was handled, or a later event won.
Over(e) == <<e, "synced">> \in handled \/ mirror.at > Second[e]

\* How the handler's steps and runOnce's go together.
InStep ==
  \A w \in Workers :
    /\ hpc[w] \in Running => wpc[w] \in {"idle", "run"}
    /\ hpc[w] = "once" => wpc[w] \in {"claim", "complete", "release"}
    /\ hpc[w] \in {"idle", "failed"} => wpc[w] = "idle"

\* What a worker that may conclude knows about its event.
Knows(w) ==
  /\ hpc[w] = "dispatch" =>
       \/ todo[w] \in {<<"synced">>, <<"synced", "canceled">>}
       \/ todo[w] = <<"canceled">> /\ Over(event[w])
  /\ hpc[w] \in {"finish", "ignore"} => Over(event[w])
  /\ wpc[w] = "complete" => Over(event[w])

Concluding == \A w \in Workers : Knows(w)

WebhookInv == WebhookTypeOK /\ InStep /\ Concluding /\ CompleteMeansHandled

-----------------------------------------------------------------------------
\* Every step of the handler is a step of runOnce or leaves its state alone.
LEMMA StepOfRunOnce ==
  ASSUME [WebhookNext]_vars
  PROVE  [OnceNext]_onceVars
<1>1. CASE UNCHANGED vars
  BY <1>1 DEF vars
<1>2. ASSUME NEW w \in Workers, NEW e \in Events, Deliver(w, e) \/ Replay(w, e)
      PROVE  [OnceNext]_onceVars
  BY <1>2 DEF Deliver, Replay, OnceNext, Events
<1>3. ASSUME NEW w \in Workers, WorkerStep(w)
      PROVE  OnceStep(w) \/ UNCHANGED onceVars
  <2>1. CASE Duplicate(w) \/ Start(w) \/ Processed(w) \/ CompletionFails(w) \/ Released(w)
    BY <2>1 DEF Duplicate, Start, Processed, CompletionFails, Released, OnceStep
  <2>2. CASE RecordProcessing(w) \/ ReadPrevious(w) \/ Stale(w) \/ Upsert(w) \/ Dispatch(w)
    BY <2>2 DEF RecordProcessing, ReadPrevious, Stale, Upsert, Dispatch
  <2>3. CASE RecordOutcome(w) \/ Fails(w) \/ RecordFailed(w)
    BY <2>3 DEF RecordOutcome, Fails, RecordFailed, OnceStep
  <2> QED BY <1>3, <2>1, <2>2, <2>3 DEF WorkerStep
<1>4. ASSUME NEW w \in Workers, Die(w) PROVE [OnceNext]_onceVars
  BY <1>4 DEF Die, OnceNext
<1>5. ASSUME NEW e \in Events, TimesOut(e) \/ ClaimExpires(e) PROVE [OnceNext]_onceVars
  BY <1>5 DEF TimesOut, ClaimExpires, OnceNext, Events
<1> QED BY <1>1, <1>2, <1>3, <1>4, <1>5 DEF WebhookNext, OnceNext

\* The billing webhook handler implements runOnce: it calls the store as
\* runOnce does, in every interleaving with replays, failures and crashes.
THEOREM WebhooksImplementRunOnce == WebhookSpec => OnceSpec
<1>1. WebhookInit => OnceInit
  BY DEF WebhookInit
<1>2. [WebhookNext]_vars => [OnceNext]_onceVars
  BY StepOfRunOnce
<1> QED BY <1>1, <1>2, PTL DEF WebhookSpec, OnceSpec

\* At most one worker at a time handles a claimed event.
THEOREM OneHandlerAtATime == WebhookSpec => []OneRunAtATime
BY WebhooksImplementRunOnce, OneRunAtATimeHolds, PTL

-----------------------------------------------------------------------------
\* What is left to dispatch after the first normalized event.
LEMMA Dispatching ==
  ASSUME WebhookTypeOK, Concluding, NEW w \in Workers, hpc[w] = "dispatch"
  PROVE  /\ Head(todo[w]) \in {"synced", "canceled"}
         /\ Tail(todo[w]) \in {<<>>, <<"canceled">>}
         /\ Head(todo[w]) = "canceled" => Over(event[w])
<1>1. CASE todo[w] = <<"synced">>
  BY <1>1
<1>2. CASE todo[w] = <<"synced", "canceled">>
  BY <1>2
<1>3. CASE todo[w] = <<"canceled">> /\ Over(event[w])
  BY <1>3
<1> QED BY <1>1, <1>2, <1>3 DEF Concluding, Knows

\* The handler's state keeps its types, and its steps go with runOnce's.
LEMMA WebhookTypeStep ==
  ASSUME WebhookTypeOK, InStep, Concluding, OnceTypeOK', [WebhookNext]_vars
  PROVE  WebhookTypeOK' /\ InStep'
<1> USE EventsAssumption, RunOnceAssumption
    DEF Events, Running, HandlerSteps, Statuses, WebhookTypeOK, InStep, Step
<1>1. CASE UNCHANGED vars
  BY <1>1 DEF vars, onceVars, handlerVars, storeVars, providerVars
<1>2. ASSUME NEW w \in Workers, NEW e \in Events, Deliver(w, e)
      PROVE  WebhookTypeOK' /\ InStep'
  BY <1>2 DEF Deliver, Begin, storeVars, OnceTypeOK
<1>3. ASSUME NEW w \in Workers, NEW e \in Events, Replay(w, e)
      PROVE  WebhookTypeOK' /\ InStep'
  BY <1>3 DEF Replay, onceVars, storeVars, providerVars
<1>4. ASSUME NEW w \in Workers, Duplicate(w) \/ Processed(w)
      PROVE  WebhookTypeOK' /\ InStep'
  <2>1. CASE Duplicate(w)
    BY <2>1 DEF Duplicate, NotClaimed, Leave, Answer, EndRequest, Hears, storeVars, OnceTypeOK
  <2>2. CASE Processed(w)
    BY <2>2 DEF Processed, Complete, Leave, Answer, EndRequest, Hears, storeVars, OnceTypeOK
  <2> QED BY <1>4, <2>1, <2>2
<1>5. ASSUME NEW w \in Workers, Start(w)
      PROVE  WebhookTypeOK' /\ InStep'
  BY <1>5 DEF Start, Claimed, Proceed, storeVars, providerVars, OnceTypeOK
<1>6. ASSUME NEW w \in Workers, RecordProcessing(w)
      PROVE  WebhookTypeOK' /\ InStep'
  <2>1. row' \in [Events -> Statuses]
    BY <1>6 DEF RecordProcessing, SetRow
  <2> QED BY <1>6, <2>1 DEF RecordProcessing, onceVars, providerVars
<1>7. ASSUME NEW w \in Workers, ReadPrevious(w) \/ Stale(w)
      PROVE  WebhookTypeOK' /\ InStep'
  <2>1. CASE ReadPrevious(w)
    BY <2>1 DEF ReadPrevious, onceVars, storeVars, providerVars
  <2>2. CASE Stale(w)
    BY <2>2 DEF Stale, onceVars, storeVars, providerVars
  <2> QED BY <1>7, <2>1, <2>2
<1>8. ASSUME NEW w \in Workers, Upsert(w)
      PROVE  WebhookTypeOK' /\ InStep'
  <2>1. event[w] \in Events
    BY <1>8 DEF Upsert
  <2>2. mirror' \in [of : Events \cup {NoWork}, at : Nat]
    BY <1>8, <2>1 DEF Upsert
  <2>3. todo' \in [Workers -> {<<>>, <<"canceled">>, <<"synced">>, <<"synced", "canceled">>}]
    BY <1>8 DEF Upsert, Announced
  <2> QED BY <1>8, <2>2, <2>3 DEF Upsert, onceVars, providerVars
<1>9. ASSUME NEW w \in Workers, Dispatch(w)
      PROVE  WebhookTypeOK' /\ InStep'
  <2>1. /\ Head(todo[w]) \in {"synced", "canceled"}
        /\ Tail(todo[w]) \in {<<>>, <<"canceled">>}
    BY <1>9, Dispatching DEF Dispatch
  <2>2. hpc' = [hpc EXCEPT ![w] = "finish"] \/ hpc' = [hpc EXCEPT ![w] = "dispatch"]
    BY <1>9 DEF Dispatch
  <2>3. handled' \subseteq Events \X {"synced", "canceled"}
    BY <1>9, <2>1 DEF Dispatch
  <2>4. todo' \in [Workers -> {<<>>, <<"canceled">>, <<"synced">>, <<"synced", "canceled">>}]
    BY <1>9, <2>1 DEF Dispatch
  <2> QED BY <1>9, <2>2, <2>3, <2>4 DEF Dispatch, onceVars, storeVars, providerVars
<1>10. ASSUME NEW w \in Workers, RecordOutcome(w)
       PROVE  WebhookTypeOK' /\ InStep'
  <2>1. row' \in [Events -> Statuses]
    BY <1>10 DEF RecordOutcome, SetRow
  <2>2. CASE Succeed(w) /\ Step(w, "once") /\ UNCHANGED <<known, todo>>
    BY <1>10, <2>1, <2>2 DEF RecordOutcome, Succeed, Proceed, providerVars, OnceTypeOK
  <2>3. CASE Replaying(w) /\ EndRequest(w) /\ UNCHANGED onceVars
    BY <1>10, <2>1, <2>3 DEF RecordOutcome, Replaying, EndRequest, onceVars, providerVars, OnceTypeOK
  <2> QED BY <1>10, <2>2, <2>3 DEF RecordOutcome
<1>11. ASSUME NEW w \in Workers, Fails(w)
       PROVE  WebhookTypeOK' /\ InStep'
  <2>1. CASE Throw(w) /\ Step(w, "once")
    BY <1>11, <2>1 DEF Fails, Throw, Proceed, storeVars, providerVars, OnceTypeOK
  <2>2. CASE Replaying(w) /\ Step(w, "failed") /\ UNCHANGED onceVars
    BY <1>11, <2>2 DEF Fails, Replaying, onceVars, storeVars, providerVars, OnceTypeOK
  <2> QED BY <1>11, <2>1, <2>2 DEF Fails
<1>12. ASSUME NEW w \in Workers, CompletionFails(w)
       PROVE  WebhookTypeOK' /\ InStep'
  BY <1>12 DEF CompletionFails, CompleteFails, Proceed, handlerVars, storeVars, providerVars, OnceTypeOK
<1>13. ASSUME NEW w \in Workers, Released(w)
       PROVE  WebhookTypeOK' /\ InStep'
  BY <1>13 DEF Released, Release, ReleaseFails, Leave, storeVars, providerVars, OnceTypeOK
<1>14. ASSUME NEW w \in Workers, RecordFailed(w)
       PROVE  WebhookTypeOK' /\ InStep'
  <2>1. row' \in [Events -> Statuses]
    BY <1>14 DEF RecordFailed, SetRow
  <2> QED BY <1>14, <2>1 DEF RecordFailed, Answer, EndRequest, Hears, onceVars
<1>15. ASSUME NEW w \in Workers, Die(w)
       PROVE  WebhookTypeOK' /\ InStep'
  <2>1. hpc[w] # "idle" /\ Answer(w, FALSE) /\ UNCHANGED <<storeVars, handled>>
    BY <1>15 DEF Die
  <2>2. CASE Crash(w)
    BY <2>1, <2>2 DEF Crash, Leave, Answer, EndRequest, Hears, storeVars, OnceTypeOK
  <2>3. CASE Replaying(w) /\ UNCHANGED onceVars
    BY <2>1, <2>3 DEF Replaying, Answer, EndRequest, Hears, onceVars, storeVars, OnceTypeOK
  <2> QED BY <1>15, <2>2, <2>3 DEF Die
<1>16. ASSUME NEW e \in Events, TimesOut(e)
       PROVE  WebhookTypeOK' /\ InStep'
  BY <1>16 DEF TimesOut, onceVars, handlerVars, storeVars
<1>17. ASSUME NEW e \in Events, ClaimExpires(e)
       PROVE  WebhookTypeOK' /\ InStep'
  BY <1>17 DEF ClaimExpires, Expire, handlerVars, storeVars, providerVars
<1> QED
  BY <1>1, <1>2, <1>3, <1>4, <1>5, <1>6, <1>7, <1>8, <1>9, <1>10, <1>11, <1>12, <1>13,
     <1>14, <1>15, <1>16, <1>17 DEF WebhookNext, WorkerStep

-----------------------------------------------------------------------------
\* An event that is over stays over: handlers are not undone, and the mirror
\* never goes back to an earlier second.
LEMMA OverStays ==
  ASSUME WebhookTypeOK, WebhookTypeOK', [WebhookNext]_vars, NEW e \in Events, Over(e)
  PROVE  Over(e)'
<1>1. \/ UNCHANGED <<mirror, handled>>
      \/ \E w \in Workers : Upsert(w) \/ Dispatch(w)
  BY DEF WebhookNext, WorkerStep, vars, storeVars, Deliver, Replay, Duplicate, Start,
         RecordProcessing, ReadPrevious, Stale, RecordOutcome, Fails, Processed, CompletionFails,
         Released, RecordFailed, Die, TimesOut, ClaimExpires
<1>2. CASE UNCHANGED <<mirror, handled>>
  BY <1>2 DEF Over
<1>3. ASSUME NEW w \in Workers, Upsert(w) PROVE Over(e)'
  <2>1. handled' = handled /\ mirror'.at >= mirror.at
    BY <1>3, EventsAssumption DEF Upsert, WebhookTypeOK, Events
  <2>2. mirror.at \in Nat /\ mirror'.at \in Nat /\ Second[e] \in Nat
    BY EventsAssumption DEF WebhookTypeOK, Events
  <2> QED BY <2>1, <2>2 DEF Over
<1>4. ASSUME NEW w \in Workers, Dispatch(w) PROVE Over(e)'
  BY <1>4 DEF Dispatch, storeVars, Over
<1> QED BY <1>1, <1>2, <1>3, <1>4

\* A worker reaches its conclusion only when its event is over.
LEMMA ConcludingStep ==
  ASSUME WebhookInv, WebhookTypeOK', [WebhookNext]_vars
  PROVE  Concluding'
<1> SUFFICES ASSUME NEW v \in Workers PROVE Knows(v)'
  BY DEF Concluding
<1> USE DEF WebhookInv, WebhookTypeOK, Events, Running
<1>1. Knows(v)
  BY DEF Concluding
<1>2. \A e \in Events :
        <<e, "synced">> \in handled \/ mirror.at > Second[e]
          => <<e, "synced">> \in handled' \/ mirror'.at > Second[e]
  BY OverStays DEF Over
<1>3. /\ wpc'[v] \in {wpc[v], "idle", "claim", "run", "release"}
      /\ \/ hpc'[v] = hpc[v] /\ todo'[v] = todo[v]
         \/ hpc'[v] \notin {"dispatch", "finish", "ignore"}
      /\ \/ event'[v] = event[v]
         \/ hpc'[v] \in {"idle", "once", "record"} /\ wpc'[v] # "complete"
      => Knows(v)'
  BY <1>1, <1>2 DEF Knows, Over, OnceTypeOK
<1>4. CASE UNCHANGED vars
  BY <1>3, <1>4 DEF vars, onceVars, handlerVars
<1>5. ASSUME NEW w \in Workers, NEW e \in Events, Deliver(w, e) PROVE Knows(v)'
  BY <1>3, <1>5 DEF Deliver, Begin, OnceTypeOK
<1>6. ASSUME NEW w \in Workers, NEW e \in Events, Replay(w, e) PROVE Knows(v)'
  BY <1>3, <1>6 DEF Replay, onceVars, InStep
<1>7. ASSUME NEW w \in Workers, Duplicate(w) \/ Processed(w) PROVE Knows(v)'
  <2>1. CASE Duplicate(w)
    BY <1>3, <2>1 DEF Duplicate, NotClaimed, Leave, Answer, EndRequest, OnceTypeOK
  <2>2. CASE Processed(w)
    BY <1>3, <2>2 DEF Processed, Complete, Leave, Answer, EndRequest, OnceTypeOK
  <2> QED BY <1>7, <2>1, <2>2
<1>8. ASSUME NEW w \in Workers, Start(w) PROVE Knows(v)'
  BY <1>3, <1>8 DEF Start, Claimed, Proceed, Step, OnceTypeOK
<1>9. ASSUME NEW w \in Workers, RecordProcessing(w) \/ ReadPrevious(w) PROVE Knows(v)'
  BY <1>3, <1>9 DEF RecordProcessing, ReadPrevious, Step, onceVars
<1>10. ASSUME NEW w \in Workers, Stale(w) PROVE Knows(v)'
  BY <1>1, <1>2, <1>10 DEF Knows, Stale, Step, onceVars, storeVars, Over, InStep
<1>11. ASSUME NEW w \in Workers, Upsert(w) PROVE Knows(v)'
  BY <1>1, <1>2, <1>11 DEF Knows, Upsert, Announced, Step, onceVars, Over, InStep
<1>12. ASSUME NEW w \in Workers, Dispatch(w) PROVE Knows(v)'
  <2>1. CASE v # w
    BY <1>3, <1>12, <2>1 DEF Dispatch, Step, onceVars
  <2>2. CASE v = w
    <3>1. Over(event[v])'
      BY <1>2, <1>12, <2>2, Dispatching DEF Dispatch, Step, storeVars, Over
    <3>2. Tail(todo[w]) \in {<<>>, <<"canceled">>}
      BY <1>12, Dispatching DEF Dispatch
    <3> QED BY <1>12, <2>2, <3>1, <3>2 DEF Knows, Dispatch, Step, onceVars
  <2> QED BY <2>1, <2>2
<1>13. ASSUME NEW w \in Workers, RecordOutcome(w) PROVE Knows(v)'
  <2>1. CASE Succeed(w) /\ Step(w, "once") /\ UNCHANGED <<known, todo>>
    BY <1>1, <1>2, <1>3, <1>13, <2>1 DEF Knows, RecordOutcome, Succeed, Proceed, Step, Over, OnceTypeOK
  <2>2. CASE Replaying(w) /\ EndRequest(w) /\ UNCHANGED onceVars
    BY <1>3, <1>13, <2>2 DEF RecordOutcome, Replaying, EndRequest, onceVars
  <2> QED BY <1>13, <2>1, <2>2 DEF RecordOutcome
<1>14. ASSUME NEW w \in Workers, Fails(w) PROVE Knows(v)'
  BY <1>3, <1>14 DEF Fails, Throw, Proceed, Replaying, Step, onceVars, OnceTypeOK
<1>15. ASSUME NEW w \in Workers, CompletionFails(w) PROVE Knows(v)'
  BY <1>3, <1>15 DEF CompletionFails, CompleteFails, Proceed, handlerVars, OnceTypeOK
<1>16. ASSUME NEW w \in Workers, Released(w) PROVE Knows(v)'
  BY <1>3, <1>16 DEF Released, Release, ReleaseFails, Leave, Step, OnceTypeOK
<1>17. ASSUME NEW w \in Workers, RecordFailed(w) PROVE Knows(v)'
  BY <1>3, <1>17 DEF RecordFailed, Answer, EndRequest, onceVars, InStep
<1>18. ASSUME NEW w \in Workers, Die(w) PROVE Knows(v)'
  BY <1>3, <1>18 DEF Die, Crash, Leave, Replaying, Answer, EndRequest, onceVars, OnceTypeOK
<1>19. ASSUME NEW e \in Events, TimesOut(e) \/ ClaimExpires(e) PROVE Knows(v)'
  BY <1>3, <1>19 DEF TimesOut, ClaimExpires, Expire, handlerVars, onceVars
<1> QED
  BY <1>4, <1>5, <1>6, <1>7, <1>8, <1>9, <1>10, <1>11, <1>12, <1>13, <1>14, <1>15, <1>16,
     <1>17, <1>18, <1>19 DEF WebhookNext, WorkerStep

\* Only a worker that concludes marks its event complete or its row finished.
LEMMA CompleteStep ==
  ASSUME WebhookInv, WebhookTypeOK', [WebhookNext]_vars
  PROVE  CompleteMeansHandled'
<1> DEFINE Finished(e) == entry[e] = "done" \/ row[e] \in {"processed", "ignored"}
<1> SUFFICES ASSUME NEW e \in Events, Finished(e)' PROVE Over(e)'
  BY DEF CompleteMeansHandled, Over
<1> USE DEF WebhookInv, WebhookTypeOK, Events
<1>1. CASE Finished(e)
  BY <1>1, OverStays DEF CompleteMeansHandled, Over
<1>2. ASSUME NEW w \in Workers, event[w] = e,
             wpc[w] = "complete" \/ hpc[w] \in {"finish", "ignore"}
      PROVE  Over(e)'
  <2>1. Over(e)
    BY <1>2 DEF Concluding, Knows, Over
  <2> QED BY <2>1, OverStays
<1>3. CASE entry[e] # "done" /\ entry'[e] = "done"
  <2>1. \E w \in Workers : Complete(w) \/ CompleteFails(w)
    <3>1. [OnceNext]_onceVars
      BY StepOfRunOnce
    <3>2. ~ \E w \in Workers : Claimed(w) /\ entry'[e] = "done"
      BY <1>3 DEF Claimed, OnceTypeOK
    <3>3. ~ \E w \in Workers : Release(w) /\ entry'[e] = "done"
      BY <1>3 DEF Release, OnceTypeOK
    <3>4. ~ \E k \in Keys : Expire(k) /\ entry'[e] = "done"
      BY <1>3 DEF Expire, OnceTypeOK
    <3> QED
      BY <1>3, <3>1, <3>2, <3>3, <3>4
      DEF OnceNext, OnceStep, onceVars, Begin, NotClaimed, Succeed, Throw, ReleaseFails, Crash
  <2>2. PICK w \in Workers : Complete(w) \/ CompleteFails(w)
    BY <2>1
  <2>3. wpc[w] = "complete" /\ event[w] = e
    BY <1>3, <2>2 DEF Complete, CompleteFails, OnceTypeOK
  <2> QED BY <1>2, <2>3
<1>4. CASE row[e] \notin {"processed", "ignored"} /\ row'[e] \in {"processed", "ignored"}
  <2>1. ~ \E w \in Workers : RecordProcessing(w) /\ row'[e] \in {"processed", "ignored"}
    BY <1>4 DEF RecordProcessing, SetRow
  <2>2. ~ \E w \in Workers : RecordFailed(w) /\ row'[e] \in {"processed", "ignored"}
    <3>1. SUFFICES ASSUME NEW w \in Workers, RecordFailed(w)
                   PROVE  row'[e] \notin {"processed", "ignored"}
      OBVIOUS
    <3>2. \/ row' = row
          \/ row' = [row EXCEPT ![event[w]] = "bare"]
          \/ row' = [row EXCEPT ![event[w]] = "failed"]
      BY <3>1 DEF RecordFailed, SetRow
    <3> QED BY <1>4, <3>2
  <2>3. \E w \in Workers : RecordOutcome(w)
    BY <1>4, <2>1, <2>2
    DEF WebhookNext, WorkerStep, vars, storeVars, Deliver, Replay, Duplicate, Start, ReadPrevious,
        Stale, Upsert, Dispatch, Fails, Processed, CompletionFails, Released, Die, TimesOut,
        ClaimExpires
  <2>4. PICK w \in Workers : RecordOutcome(w)
    BY <2>3
  <2>5. hpc[w] \in {"finish", "ignore"} /\ event[w] = e
    BY <1>4, <2>4 DEF RecordOutcome, SetRow
  <2> QED BY <1>2, <2>5
<1> QED BY <1>1, <1>3, <1>4

-----------------------------------------------------------------------------
THEOREM WebhookInvariant == WebhookSpec => []WebhookInv
<1>1. WebhookInit => WebhookInv
  BY EventsAssumption, RunOnceAssumption
  DEF WebhookInit, OnceInit, WebhookInv, WebhookTypeOK, OnceTypeOK, WorkerSteps, InStep, Concluding,
      Knows, CompleteMeansHandled, Events, HandlerSteps, Running, Statuses
<1>2. WebhookInv /\ [WebhookNext]_vars => WebhookInv'
  <2> SUFFICES ASSUME WebhookInv, [WebhookNext]_vars PROVE WebhookInv'
    OBVIOUS
  <2>1. OnceTypeOK'
    BY StepOfRunOnce, OnceTypeStep DEF WebhookInv, WebhookTypeOK
  <2>2. WebhookTypeOK' /\ InStep'
    BY <2>1, WebhookTypeStep DEF WebhookInv
  <2> QED BY <2>2, ConcludingStep, CompleteStep DEF WebhookInv
<1> QED BY <1>1, <1>2, PTL DEF WebhookSpec

\* The handler's state has its types, for any workers and events.
THEOREM WebhookTypeCorrect == WebhookSpec => []WebhookTypeOK
BY WebhookInvariant, PTL DEF WebhookInv

\* An event is marked complete, or its row finished, only after its handlers
\* ran or a later event was mirrored, whatever fails, crashes or is replayed.
THEOREM CompleteMeansHandledHolds == WebhookSpec => []CompleteMeansHandled
BY WebhookInvariant, PTL DEF WebhookInv
=============================================================================
