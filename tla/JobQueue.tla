------------------------------- MODULE JobQueue -------------------------------
(***************************************************************************)
(* BullMQAdapter of @mariachi/jobs.  BullMQ itself is external: a job      *)
(* waits, is active under the lock of one worker, completes or fails; an   *)
(* active job whose worker died or was closed by force is put back.  The   *)
(* adapter adds what happens around it: process() and its timeout, the     *)
(* 'failed' handler that dead-letters, cancel(), retryDeadLetter() and     *)
(* stop().  One action is one command on Redis or the end of a handler.    *)
(* Cron schedules, job progress and the pruning of old jobs are left out.  *)
(***************************************************************************)
EXTENDS Naturals

CONSTANTS
  BullJobs,        \* job ids
  BullWorkers,     \* worker processes
  Operators,       \* callers of retryDeadLetter
  NoJob, NoWorker,
  BullAttempts     \* opts.attempts

ASSUME BullAssumption ==
  /\ BullAttempts \in Nat \ {0}
  /\ NoJob \notin BullJobs
  /\ NoWorker \notin BullWorkers

VARIABLES
  bull,            \* [BullJobs -> the job's state in Redis]
  bullOwner,       \* [BullJobs -> the worker whose lock it is under]
  bullMade,        \* [BullJobs -> attemptsMade]
  bullUp,          \* workers with this.worker set
  unburied,        \* jobs that failed for good, whose 'failed' handler runs
  dlq,             \* ids of the dead-letter queue: the jobs they came from
  replaying,       \* [Operators -> the dead letter read, or NoJob]
  replayed,        \* the dead letters re-enqueued at least once
  rpc              \* [Operators -> step of retryDeadLetter]

bullVars == <<bull, bullOwner, bullMade, bullUp, unburied, dlq, replaying, replayed, rpc>>

BullInit ==
  /\ bull = [j \in BullJobs |-> "absent"]
  /\ bullOwner = [j \in BullJobs |-> NoWorker]
  /\ bullMade = [j \in BullJobs |-> 0]
  /\ bullUp = {}
  /\ unburied = {}
  /\ dlq = {}
  /\ replaying = [o \in Operators |-> NoJob]
  /\ replayed = {}
  /\ rpc = [o \in Operators |-> "idle"]

BullSet(j, state, w) ==
  /\ bull' = [bull EXCEPT ![j] = state]
  /\ bullOwner' = [bullOwner EXCEPT ![j] = w]

\* queue.add: an id that exists, in any state, is not added again.
BullEnqueue(j) ==
  /\ bull[j] = "absent"
  /\ BullSet(j, "waiting", NoWorker)
  /\ UNCHANGED <<bullMade, bullUp, unburied, dlq, replaying, replayed, rpc>>

\* cancel(): the state is read, then the job removed; BullMQ refuses to remove
\* a job that became active in between.
BullCancel(j) ==
  /\ bull[j] = "waiting"
  /\ BullSet(j, "absent", NoWorker)
  /\ bullMade' = [bullMade EXCEPT ![j] = 0]
  /\ UNCHANGED <<bullUp, unburied, dlq, replaying, replayed, rpc>>

BullStart(w) ==
  /\ w \notin bullUp
  /\ bullUp' = bullUp \cup {w}
  /\ UNCHANGED <<bull, bullOwner, bullMade, unburied, dlq, replaying, replayed, rpc>>

\* The worker takes the next job and calls process().
BullTake(w, j) ==
  /\ w \in bullUp
  /\ bull[j] = "waiting"
  /\ BullSet(j, "active", w)
  /\ UNCHANGED <<bullMade, bullUp, unburied, dlq, replaying, replayed, rpc>>

BullCompletes(j) ==
  /\ bull[j] = "active"
  /\ bullOwner[j] # NoWorker
  /\ BullSet(j, "completed", NoWorker)
  /\ UNCHANGED <<bullMade, bullUp, unburied, dlq, replaying, replayed, rpc>>

\* process() rejects, by the handler or by runWithTimeout: with attempts left
\* the job waits for its backoff; handleFailure finds it not final.
BullRetries(j) ==
  /\ bull[j] = "active"
  /\ bullOwner[j] # NoWorker
  /\ bullMade[j] + 1 < BullAttempts
  /\ bullMade' = [bullMade EXCEPT ![j] = @ + 1]
  /\ BullSet(j, "waiting", NoWorker)
  /\ UNCHANGED <<bullUp, unburied, dlq, replaying, replayed, rpc>>

\* The last attempt, or an UnrecoverableError: BullMQ moves the job to failed,
\* then emits 'failed', whose handler adds the dead letter.
BullFails(j) ==
  /\ bull[j] = "active"
  /\ bullOwner[j] # NoWorker
  /\ bullMade' = [bullMade EXCEPT ![j] = @ + 1]
  /\ bull' = [bull EXCEPT ![j] = "failed"]
  /\ unburied' = unburied \cup {j}
  /\ UNCHANGED <<bullOwner, bullUp, dlq, replaying, replayed, rpc>>

\* dlq.add with jobId dead-<id>.
DeadLetter(j) ==
  /\ j \in unburied
  /\ unburied' = unburied \ {j}
  /\ dlq' = dlq \cup {j}
  /\ bullOwner' = [bullOwner EXCEPT ![j] = NoWorker]
  /\ UNCHANGED <<bull, bullMade, bullUp, replaying, replayed, rpc>>

\* dlq.add rejects: logged, and nothing else.
DeadLetterFails(j) ==
  /\ j \in unburied
  /\ unburied' = unburied \ {j}
  /\ bullOwner' = [bullOwner EXCEPT ![j] = NoWorker]
  /\ UNCHANGED <<bull, bullMade, bullUp, dlq, replaying, replayed, rpc>>

\* stop(): worker.close() waits for the active jobs and takes no more.
BullStop(w) ==
  /\ w \in bullUp
  /\ bullUp' = bullUp \ {w}
  /\ UNCHANGED <<bull, bullOwner, bullMade, unburied, dlq, replaying, replayed, rpc>>

\* The process dies, or stop() timed out, aborted its jobs and closed by force:
\* active jobs lose their lock, dead letters not yet added are never added.
BullLost(w) ==
  /\ \E j \in BullJobs : bullOwner[j] = w
  /\ bullUp' = bullUp \ {w}
  /\ unburied' = {j \in unburied : bullOwner[j] # w}
  /\ bullOwner' = [j \in BullJobs |-> IF bullOwner[j] = w THEN NoWorker ELSE bullOwner[j]]
  /\ UNCHANGED <<bull, bullMade, dlq, replaying, replayed, rpc>>

\* BullMQ's stalled check, run by any worker.
BullStalled(j) ==
  /\ bullUp # {}
  /\ bull[j] = "active"
  /\ bullOwner[j] = NoWorker
  /\ BullSet(j, "waiting", NoWorker)
  /\ UNCHANGED <<bullMade, bullUp, unburied, dlq, replaying, replayed, rpc>>

\* retryDeadLetter: read the entry, enqueue it anew, remove it.
ReplayRead(o, j) ==
  /\ rpc[o] = "idle"
  /\ j \in dlq
  /\ replaying' = [replaying EXCEPT ![o] = j]
  /\ rpc' = [rpc EXCEPT ![o] = "enqueue"]
  /\ UNCHANGED <<bull, bullOwner, bullMade, bullUp, unburied, dlq, replayed>>

ReplayEnqueue(o, k) ==
  /\ rpc[o] = "enqueue"
  /\ bull[k] = "absent"
  /\ BullSet(k, "waiting", NoWorker)
  /\ replayed' = replayed \cup {replaying[o]}
  /\ rpc' = [rpc EXCEPT ![o] = "remove"]
  /\ UNCHANGED <<bullMade, bullUp, unburied, dlq, replaying>>

\* Mutant: the entry is removed first, as the memory adapter does.
ReplayRemoveFirst(o) ==
  /\ rpc[o] \in {"enqueue", "remove"}
  /\ dlq' = dlq \ {replaying[o]}
  /\ rpc' = [rpc EXCEPT ![o] = IF rpc[o] = "enqueue" THEN @ ELSE "idle"]
  /\ replaying' = [replaying EXCEPT ![o] = IF rpc[o] = "enqueue" THEN @ ELSE NoJob]
  /\ UNCHANGED <<bull, bullOwner, bullMade, bullUp, unburied, replayed>>

ReplayRemove(o) ==
  /\ rpc[o] = "remove"
  /\ dlq' = dlq \ {replaying[o]}
  /\ rpc' = [rpc EXCEPT ![o] = "idle"]
  /\ replaying' = [replaying EXCEPT ![o] = NoJob]
  /\ UNCHANGED <<bull, bullOwner, bullMade, bullUp, unburied, replayed>>

\* The enqueue or the removal rejects, or the operator's process dies.
ReplayAborts(o) ==
  /\ rpc[o] # "idle"
  /\ rpc' = [rpc EXCEPT ![o] = "idle"]
  /\ replaying' = [replaying EXCEPT ![o] = NoJob]
  /\ UNCHANGED <<bull, bullOwner, bullMade, bullUp, unburied, dlq, replayed>>

BullJobStep(j) ==
  \/ BullCompletes(j) \/ BullRetries(j) \/ BullFails(j)
  \/ DeadLetter(j) \/ DeadLetterFails(j) \/ BullStalled(j)

BullNext ==
  \/ \E j \in BullJobs : BullEnqueue(j) \/ BullCancel(j) \/ BullJobStep(j)
  \/ \E w \in BullWorkers : BullStart(w) \/ BullStop(w) \/ BullLost(w) \/ \E j \in BullJobs : BullTake(w, j)
  \/ \E o \in Operators :
       \/ ReplayRemove(o) \/ ReplayAborts(o)
       \/ \E j \in BullJobs : ReplayRead(o, j) \/ ReplayEnqueue(o, j)

BullSpec == BullInit /\ [][BullNext]_bullVars

-----------------------------------------------------------------------------
BullTypeOK ==
  /\ bull \in [BullJobs -> {"absent", "waiting", "active", "completed", "failed"}]
  /\ bullOwner \in [BullJobs -> BullWorkers \cup {NoWorker}]
  /\ bullMade \in [BullJobs -> 0..BullAttempts]
  /\ bullUp \subseteq BullWorkers
  /\ unburied \subseteq BullJobs /\ dlq \subseteq BullJobs /\ replayed \subseteq BullJobs
  /\ replaying \in [Operators -> BullJobs \cup {NoJob}]
  /\ rpc \in [Operators -> {"idle", "enqueue", "remove"}]

\* "Re-enqueues a dead-lettered job and removes it from the DLQ", in that
\* order: whatever rejects or dies in between, and however many operators
\* replay the same entry, a dead letter leaves the queue only once a new job
\* carries its data.
DeadLettersLeaveAsJobs ==
  [][\A j \in BullJobs : (j \in dlq /\ j \notin dlq') => j \in replayed]_bullVars
=============================================================================
