--------------------------- MODULE BillingWebhooks ---------------------------
(***************************************************************************)
(* The billing webhook handler (createBillingWebhookHandler), composed     *)
(* with runOnce.  A provider sends the events of one subscription and      *)
(* repeats each until it gets a 2xx answer; workers run handle() or, for   *)
(* an operator, replay().  The database and the idempotency store are      *)
(* shared; each action is one statement, one store call or one handler.    *)
(***************************************************************************)
EXTENDS RunOnce, Sequences

CONSTANTS
  Second,      \* [Keys -> Nat]: when each event happened, in whole seconds
  Cancels,     \* the events whose subscription is canceled
  NoWorker

ASSUME EventsAssumption ==
  /\ Second \in [Keys -> Nat \ {0}]
  /\ Cancels \subseteq Keys
  /\ NoWorker \notin Workers

VARIABLES
  hpc,       \* the step of handle() or replay() each worker runs next
  event,     \* the event it works on
  known,     \* whether the mirror was already canceled when it was read
  todo,      \* the normalized events it still has to dispatch
  row,       \* billing_webhook_events: the status of each event
  mirror,    \* the subscription's row: the event it shows, and lastEventAt
  handled,   \* <<event, normalized event>> pairs whose handlers returned
  awaited,   \* the worker whose answer the provider waits for
  acked      \* the events the provider need not send again

handlerVars == <<hpc, event, known, todo>>
storeVars == <<row, mirror>>
providerVars == <<awaited, acked>>
vars == <<onceVars, handlerVars, storeVars, handled, providerVars>>

Events == Keys

\* "bare" is a failed row that never got its payload.
Statuses == {"none", "bare", "processing", "processed", "ignored", "failed"}
Running == {"record", "select", "upsert", "dispatch", "finish", "ignore"}
HandlerSteps == Running \cup {"idle", "once", "failed"}

WebhookInit ==
  /\ OnceInit
  /\ hpc = [w \in Workers |-> "idle"]
  /\ event = [w \in Workers |-> NoWork]
  /\ known = [w \in Workers |-> FALSE]
  /\ todo = [w \in Workers |-> <<>>]
  /\ row = [e \in Events |-> "none"]
  /\ mirror = [of |-> NoWork, at |-> 0]
  /\ handled = {}
  /\ awaited = [e \in Events |-> NoWorker]
  /\ acked = [e \in Events |-> FALSE]

-----------------------------------------------------------------------------
\* The worker goes to another step.
Step(w, step) ==
  /\ hpc' = [hpc EXCEPT ![w] = step]
  /\ UNCHANGED event

\* The request ends: its worker forgets everything.
EndRequest(w) ==
  /\ hpc' = [hpc EXCEPT ![w] = "idle"]
  /\ event' = [event EXCEPT ![w] = NoWork]
  /\ known' = [known EXCEPT ![w] = FALSE]
  /\ todo' = [todo EXCEPT ![w] = <<>>]

\* An answer the provider no longer waits for tells it nothing.
Hears(w, ok) ==
  LET e == event[w]
  IN  /\ acked' = [acked EXCEPT ![e] = @ \/ (ok /\ awaited[e] = w)]
      /\ awaited' = [awaited EXCEPT ![e] = IF @ = w THEN NoWorker ELSE @]

Answer(w, ok) == EndRequest(w) /\ Hears(w, ok)

SetRow(w, status) == row' = [row EXCEPT ![event[w]] = status]

Replaying(w) == hpc[w] # "idle" /\ wpc[w] = "idle"

-----------------------------------------------------------------------------
(* The provider. *)

\* It sends an event, or sends it again while no delivery succeeded.
Deliver(w, e) ==
  /\ hpc[w] = "idle"
  /\ ~acked[e]
  /\ awaited[e] = NoWorker
  /\ awaited' = [awaited EXCEPT ![e] = w]
  /\ Begin(w, e)
  /\ hpc' = [hpc EXCEPT ![w] = "once"]
  /\ event' = [event EXCEPT ![w] = e]
  /\ UNCHANGED <<known, todo, storeVars, handled, acked>>

\* It gives a delivery up that takes too long; the worker goes on.
TimesOut(e) ==
  /\ awaited[e] # NoWorker
  /\ awaited' = [awaited EXCEPT ![e] = NoWorker]
  /\ UNCHANGED <<onceVars, handlerVars, storeVars, handled, acked>>

-----------------------------------------------------------------------------
(* handle() *)

\* Both 'duplicate' and 'in-progress' are answered like a success.
Duplicate(w) ==
  /\ hpc[w] = "once"
  /\ NotClaimed(w)
  /\ Answer(w, TRUE)
  /\ UNCHANGED <<storeVars, handled>>

Start(w) ==
  /\ hpc[w] = "once"
  /\ Claimed(w)
  /\ Step(w, "record")
  /\ UNCHANGED <<known, todo, storeVars, handled, providerVars>>

\* Mutant: a replay drops the event's claim first.
ReplayUnclaimed(w, e) ==
  /\ hpc[w] = "idle"
  /\ row[e] \notin {"none", "bare"}
  /\ entry' = [entry EXCEPT ![e] = "free"]
  /\ hpc' = [hpc EXCEPT ![w] = "record"]
  /\ event' = [event EXCEPT ![w] = e]
  /\ UNCHANGED <<wpc, work, known, todo, storeVars, handled, providerVars>>

\* An operator runs a stored event again, without a claim.
Replay(w, e) ==
  /\ hpc[w] = "idle"
  /\ row[e] \notin {"none", "bare"}
  /\ hpc' = [hpc EXCEPT ![w] = "record"]
  /\ event' = [event EXCEPT ![w] = e]
  /\ UNCHANGED <<onceVars, known, todo, storeVars, handled, providerVars>>

RecordProcessing(w) ==
  /\ hpc[w] = "record"
  /\ SetRow(w, "processing")
  /\ Step(w, "select")
  /\ UNCHANGED <<onceVars, known, todo, mirror, handled, providerVars>>

\* upsertSubscription reads the previous status, then upserts, in two
\* statements.  An event of a cancellation carries no previous status itself.
ReadPrevious(w) ==
  /\ hpc[w] = "select"
  /\ known' = [known EXCEPT ![w] = mirror.of \in Cancels]
  /\ Step(w, "upsert")
  /\ UNCHANGED <<onceVars, todo, storeVars, handled, providerVars>>

Announced(w) ==
  IF event[w] \in Cancels /\ ~known[w] THEN <<"synced", "canceled">> ELSE <<"synced">>

\* Mutant: an event of the mirror's own second counts as stale (lt, not lte).
StaleOrSame(w) ==
  /\ hpc[w] = "upsert"
  /\ mirror.at >= Second[event[w]]
  /\ known' = [known EXCEPT ![w] = FALSE]
  /\ Step(w, "ignore")
  /\ UNCHANGED <<onceVars, todo, storeVars, handled, providerVars>>

\* A newer event already won: nothing is dispatched.
Stale(w) ==
  /\ hpc[w] = "upsert"
  /\ mirror.at > Second[event[w]]
  /\ known' = [known EXCEPT ![w] = FALSE]
  /\ Step(w, "ignore")
  /\ UNCHANGED <<onceVars, todo, storeVars, handled, providerVars>>

Upsert(w) ==
  /\ hpc[w] = "upsert"
  /\ mirror.at <= Second[event[w]]
  /\ mirror' = [of |-> event[w], at |-> Second[event[w]]]
  /\ todo' = [todo EXCEPT ![w] = Announced(w)]
  /\ known' = [known EXCEPT ![w] = FALSE]
  /\ Step(w, "dispatch")
  /\ UNCHANGED <<onceVars, row, handled, providerVars>>

\* A handler of the application returned.
Dispatch(w) ==
  /\ hpc[w] = "dispatch"
  /\ handled' = handled \cup {<<event[w], Head(todo[w])>>}
  /\ todo' = [todo EXCEPT ![w] = Tail(@)]
  /\ Step(w, IF Tail(todo[w]) = <<>> THEN "finish" ELSE "dispatch")
  /\ UNCHANGED <<onceVars, known, storeVars, providerVars>>

RecordOutcome(w) ==
  /\ hpc[w] \in {"finish", "ignore"}
  /\ SetRow(w, IF hpc[w] = "finish" THEN "processed" ELSE "ignored")
  /\ \/ Succeed(w) /\ Step(w, "once") /\ UNCHANGED <<known, todo>>
     \/ Replaying(w) /\ EndRequest(w) /\ UNCHANGED onceVars
  /\ UNCHANGED <<mirror, handled, providerVars>>

\* A statement is rejected, or a handler of the application throws.
Fails(w) ==
  /\ hpc[w] \in Running
  /\ \/ Throw(w) /\ Step(w, "once")
     \/ Replaying(w) /\ Step(w, "failed") /\ UNCHANGED onceVars
  /\ known' = [known EXCEPT ![w] = FALSE]
  /\ todo' = [todo EXCEPT ![w] = <<>>]
  /\ UNCHANGED <<storeVars, handled, providerVars>>

Processed(w) ==
  /\ hpc[w] = "once"
  /\ Complete(w)
  /\ Answer(w, TRUE)
  /\ UNCHANGED <<storeVars, handled>>

CompletionFails(w) ==
  /\ CompleteFails(w)
  /\ UNCHANGED <<handlerVars, storeVars, handled, providerVars>>

Released(w) ==
  /\ hpc[w] = "once"
  /\ Release(w) \/ ReleaseFails(w)
  /\ Step(w, "failed")
  /\ UNCHANGED <<known, todo, storeVars, handled, providerVars>>

\* The claim is free by now.  A failure to record is swallowed.
RecordFailed(w) ==
  /\ hpc[w] = "failed"
  /\ \/ SetRow(w, IF row[event[w]] \in {"none", "bare"} THEN "bare" ELSE "failed")
     \/ UNCHANGED row
  /\ Answer(w, FALSE)
  /\ UNCHANGED <<onceVars, mirror, handled>>

\* The process dies; the provider sees the connection close.
Die(w) ==
  /\ hpc[w] # "idle"
  /\ \/ Crash(w)
     \/ Replaying(w) /\ UNCHANGED onceVars
  /\ Answer(w, FALSE)
  /\ UNCHANGED <<storeVars, handled>>

ClaimExpires(e) ==
  /\ Expire(e)
  /\ UNCHANGED <<handlerVars, storeVars, handled, providerVars>>

-----------------------------------------------------------------------------
WorkerStep(w) ==
  \/ Duplicate(w) \/ Start(w)
  \/ RecordProcessing(w) \/ ReadPrevious(w) \/ Stale(w) \/ Upsert(w)
  \/ Dispatch(w) \/ RecordOutcome(w) \/ Fails(w)
  \/ Processed(w) \/ CompletionFails(w) \/ Released(w) \/ RecordFailed(w)

WebhookNext ==
  \/ \E w \in Workers, e \in Events : Deliver(w, e) \/ Replay(w, e)
  \/ \E w \in Workers : WorkerStep(w) \/ Die(w)
  \/ \E e \in Events : TimesOut(e) \/ ClaimExpires(e)

WebhookSpec == WebhookInit /\ [][WebhookNext]_vars

-----------------------------------------------------------------------------
WebhookTypeOK ==
  /\ OnceTypeOK
  /\ hpc \in [Workers -> HandlerSteps]
  /\ event \in [Workers -> Events \cup {NoWork}]
  /\ known \in [Workers -> BOOLEAN]
  /\ todo \in [Workers -> {<<>>, <<"canceled">>, <<"synced">>, <<"synced", "canceled">>}]
  /\ row \in [Events -> Statuses]
  /\ mirror \in [of : Events \cup {NoWork}, at : Nat]
  /\ handled \subseteq Events \X {"synced", "canceled"}
  /\ awaited \in [Events -> Workers \cup {NoWorker}]
  /\ acked \in [Events -> BOOLEAN]
  /\ \A w \in Workers :
       /\ (hpc[w] = "idle") <=> (event[w] = NoWork)
       /\ wpc[w] # "idle" => event[w] = work[w]
       /\ (wpc[w] = "run") => hpc[w] \in Running

\* "The event id is claimed, and only marked complete after the store sync
\* and every handler succeed": an event marked complete, or whose row says it
\* is over, has had its handler run, unless a later event is in the mirror.
\* (Whether the cancellation was announced too is CanceledAnnounced.)
CompleteMeansHandled ==
  \A e \in Events :
    (entry[e] = "done" \/ row[e] \in {"processed", "ignored"})
      => <<e, "synced">> \in handled \/ mirror.at > Second[e]

\* "... and every handler succeed": once the cancellation is complete, the
\* handlers of 'subscription.canceled' have run.  The code breaks this.
CanceledAnnounced ==
  \A e \in Cancels :
    entry[e] = "done" => \E c \in Cancels : <<c, "canceled">> \in handled

\* "Failures release the claim so the provider's retry is processed rather
\* than dropped as a duplicate": when a run has failed and its claim is free
\* again, the provider still has the event to send.  The code breaks this.
FailuresAreRetried ==
  \A w \in Workers :
    hpc[w] = "failed" /\ entry[event[w]] = "free" => ~acked[event[w]]
=============================================================================
