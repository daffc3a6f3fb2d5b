--------------------------- MODULE InboundWebhooks ---------------------------
(***************************************************************************)
(* WebhookServer of @mariachi/webhooks: a delivery that carries an event   *)
(* id runs process() under runOnce if the server has an idempotency store, *)
(* and without a claim if it has none.  process() logs the delivery, runs  *)
(* the route's handler, then calls a procedure (mode direct) or enqueues a *)
(* job whose id is the event's (mode queue).                               *)
(*                                                                         *)
(* A procedure runs in process: withTimeout answers its caller and leaves  *)
(* it running.  The job queue keeps a job's id at least as long as the     *)
(* sender retries (removeOnComplete keeps the last 1000).                  *)
(***************************************************************************)
EXTENDS RunOnce

CONSTANTS
  Queued,      \* the events whose route has mode queue; the others are direct
  MaxStray     \* bound: procedures left running by a timeout, per event

ASSUME InboundAssumption == Queued \subseteq Keys /\ MaxStray \in Nat

VARIABLES
  deduplicates,  \* whether deps.idempotency is there: set in Init
  ipc,           \* the step of process() each worker runs next
  subject,       \* the event it was delivered
  log,           \* the status of its row in webhook_logs, which nobody else reads
  jobs,          \* [Queued -> jobs in the queue for the event]
  stray,         \* [Keys -> procedures running that nobody waits for]
  worked         \* events whose procedure returned or whose job is queued

workVars == <<jobs, stray, worked>>
inboundVars == <<onceVars, deduplicates, ipc, subject, log, workVars>>

Statuses == {"none", "received", "processed", "failed"}
ProcessSteps ==
  {"idle", "once", "log", "handler", "act", "mark", "fail", "return", "throw", "ending"}

InboundInit ==
  /\ OnceInit
  /\ deduplicates \in BOOLEAN
  /\ ipc = [w \in Workers |-> "idle"]
  /\ subject = [w \in Workers |-> NoWork]
  /\ log = [w \in Workers |-> "none"]
  /\ jobs = [e \in Queued |-> 0]
  /\ stray = [e \in Keys |-> 0]
  /\ worked = {}

-----------------------------------------------------------------------------
Now(w, step) == ipc' = [ipc EXCEPT ![w] = step] /\ UNCHANGED subject

\* The request ends: its worker forgets everything.
Forget(w) ==
  /\ ipc' = [ipc EXCEPT ![w] = "idle"]
  /\ subject' = [subject EXCEPT ![w] = NoWork]
  /\ log' = [log EXCEPT ![w] = "none"]

LogAs(w, status) == log' = [log EXCEPT ![w] = status]

\* An authentic delivery with an event id arrives, for the first time or again.
Receive(w, e) ==
  /\ ipc[w] = "idle"
  /\ subject' = [subject EXCEPT ![w] = e]
  /\ IF deduplicates
       THEN Begin(w, e) /\ ipc' = [ipc EXCEPT ![w] = "once"]
       ELSE UNCHANGED onceVars /\ ipc' = [ipc EXCEPT ![w] = "log"]
  /\ UNCHANGED <<deduplicates, log, workVars>>

\* 'duplicate' and 'in-progress' are both answered 200.
SkipDuplicate(w) ==
  /\ ipc[w] = "once"
  /\ NotClaimed(w)
  /\ Forget(w)
  /\ UNCHANGED <<deduplicates, workVars>>

ClaimDelivery(w) ==
  /\ ipc[w] = "once"
  /\ Claimed(w)
  /\ Now(w, "log")
  /\ UNCHANGED <<deduplicates, log, workVars>>

-----------------------------------------------------------------------------
(* process() *)

\* logStore.log is outside every try: when it fails, process() throws.
LogDelivery(w) ==
  /\ ipc[w] = "log"
  /\ \/ LogAs(w, "received") /\ Now(w, "handler")
     \/ UNCHANGED log /\ Now(w, "throw")
  /\ UNCHANGED <<onceVars, deduplicates, workVars>>

RunHandler(w) ==
  /\ ipc[w] = "handler"
  /\ \E step \in {"act", "fail"} : Now(w, step)
  /\ UNCHANGED <<onceVars, deduplicates, log, workVars>>

\* Mode direct: the procedure returns, throws, or outlasts its timeout.
CallProcedure(w) ==
  LET e == subject[w]
  IN  /\ ipc[w] = "act" /\ e \notin Queued
      /\ \/ worked' = worked \cup {e} /\ Now(w, "mark") /\ UNCHANGED stray
         \/ Now(w, "fail") /\ UNCHANGED <<worked, stray>>
         \/ /\ stray[e] < MaxStray
            /\ stray' = [stray EXCEPT ![e] = @ + 1]
            /\ Now(w, "fail")
            /\ UNCHANGED worked
      /\ UNCHANGED <<onceVars, deduplicates, log, jobs>>

\* The handler a timeout left behind returns or throws; nobody hears of it.
StrayEnds(e) ==
  /\ stray[e] > 0
  /\ stray' = [stray EXCEPT ![e] = @ - 1]
  /\ worked' \in {worked, worked \cup {e}}
  /\ UNCHANGED <<onceVars, deduplicates, ipc, subject, log, jobs>>

\* Mutant: the job gets an id of its own.
AnotherJob(e) == jobs' = [jobs EXCEPT ![e] = @ + 1]

\* BullMQ adds no second job under an id it has.
AddJob(e) == jobs' = [jobs EXCEPT ![e] = IF @ = 0 THEN 1 ELSE @]

\* Mode queue: enqueue answers, its answer is lost, or it fails.
EnqueueJob(w) ==
  LET e == subject[w]
  IN  /\ ipc[w] = "act" /\ e \in Queued
      /\ \/ AddJob(e) /\ worked' = worked \cup {e} /\ (Now(w, "mark") \/ Now(w, "fail"))
         \/ UNCHANGED <<jobs, worked>> /\ Now(w, "fail")
      /\ UNCHANGED <<onceVars, deduplicates, log, stray>>

\* The update of the log follows the work, inside the same try.
MarkProcessed(w) ==
  /\ ipc[w] = "mark"
  /\ \/ LogAs(w, "processed") /\ (Now(w, "return") \/ Now(w, "fail"))
     \/ UNCHANGED log /\ Now(w, "fail")
  /\ UNCHANGED <<onceVars, deduplicates, workVars>>

\* Mutant: a delivery that failed is answered like one that succeeded.
FailureSwallowed(w) ==
  /\ ipc[w] = "fail"
  /\ LogAs(w, "failed") \/ UNCHANGED log
  /\ Now(w, "return")
  /\ UNCHANGED <<onceVars, deduplicates, workVars>>

\* fail(): an error of the log is swallowed; the one that led here is thrown on.
MarkFailed(w) ==
  /\ ipc[w] = "fail"
  /\ LogAs(w, "failed") \/ UNCHANGED log
  /\ Now(w, "throw")
  /\ UNCHANGED <<onceVars, deduplicates, workVars>>

-----------------------------------------------------------------------------
(* The end of the request, with and without a claim. *)

Answered(w) ==
  /\ ipc[w] \in {"return", "throw"}
  /\ IF deduplicates
       THEN /\ IF ipc[w] = "return" THEN Succeed(w) ELSE Throw(w)
            /\ Now(w, "ending")
            /\ UNCHANGED log
       ELSE Forget(w) /\ UNCHANGED onceVars
  /\ UNCHANGED <<deduplicates, workVars>>

ConcludeClaim(w) ==
  /\ ipc[w] = "ending"
  /\ \/ (Complete(w) \/ Release(w) \/ ReleaseFails(w)) /\ Forget(w)
     \/ CompleteFails(w) /\ UNCHANGED <<ipc, subject, log>>
  /\ UNCHANGED <<deduplicates, workVars>>

\* The instance dies, and with it the procedures it left running.
ServerDies(w) ==
  /\ ipc[w] # "idle"
  /\ IF deduplicates THEN Crash(w) ELSE UNCHANGED onceVars
  /\ Forget(w)
  /\ \/ UNCHANGED stray
     \/ subject[w] \in Keys /\ stray' = [stray EXCEPT ![subject[w]] = 0]
  /\ UNCHANGED <<deduplicates, jobs, worked>>

ClaimExpires(e) ==
  /\ Expire(e)
  /\ UNCHANGED <<deduplicates, ipc, subject, log, workVars>>

InboundStep(w) ==
  \/ SkipDuplicate(w) \/ ClaimDelivery(w)
  \/ LogDelivery(w) \/ RunHandler(w) \/ CallProcedure(w) \/ EnqueueJob(w)
  \/ MarkProcessed(w) \/ MarkFailed(w) \/ Answered(w) \/ ConcludeClaim(w)

InboundNext ==
  \/ \E w \in Workers : InboundStep(w) \/ ServerDies(w) \/ \E e \in Keys : Receive(w, e)
  \/ \E e \in Keys : StrayEnds(e) \/ ClaimExpires(e)

InboundSpec ==
  /\ InboundInit
  /\ [][InboundNext]_inboundVars
  \* promises settle, and the store drops expired claims
  /\ \A w \in Workers : WF_inboundVars(InboundStep(w))
  /\ \A e \in Keys : WF_inboundVars(ClaimExpires(e))

-----------------------------------------------------------------------------
\* Types of the server's state.
InboundTypeOK ==
  /\ OnceTypeOK
  /\ deduplicates \in BOOLEAN
  /\ ipc \in [Workers -> ProcessSteps]
  /\ subject \in [Workers -> Keys \cup {NoWork}]
  /\ log \in [Workers -> Statuses]
  /\ jobs \in [Queued -> Nat]
  /\ stray \in [Keys -> 0..MaxStray]
  /\ worked \subseteq Keys

\* Deliveries may come any number of times, beside and after one another, and
\* find answers of the queue lost, updates of the log failing, claims released or
\* expired, instances dead, or no idempotency store at all: an event still never
\* becomes two jobs, and what the store marks done, so that no delivery will
\* try it again, or a row calls processed, has its job or its procedure's return.
DeliveredOnce ==
  /\ \A e \in Queued : jobs[e] <= 1
  /\ \A e \in Keys : entry[e] = "done" => e \in worked
  /\ \A w \in Workers : log[w] = "processed" => subject[w] \in worked
=============================================================================
