------------------------------ MODULE MemoryJobs ------------------------------
(***************************************************************************)
(* MemoryJobAdapter of @mariachi/jobs: an in-process queue with retries,   *)
(* deduplication by id and dead letters.  Everything up to an await of the *)
(* code is one action.  The pending map and the timers are one variable:   *)
(* a job that is in the map is unscheduled (job.timer undefined),          *)
(* scheduled (a live timer), cleared (a timer that stop() cleared and that *)
(* job.timer still names) or inflight (its handler runs, no timer).        *)
(* Listeners of the facade do not throw and are left out.                  *)
(***************************************************************************)
EXTENDS Naturals

CONSTANTS
  MemJobs,        \* job ids, deduplication keys among them
  MaxAttempts     \* retry.attempts

ASSUME MemJobsAssumption == MaxAttempts \in Nat \ {0}

VARIABLES
  memRunning,     \* this.running
  memJob,         \* [MemJobs -> the state above, or "absent"]
  memMade,        \* [MemJobs -> attemptsMade]
  memDead         \* ids with a dead letter

memVars == <<memRunning, memJob, memMade, memDead>>

Pending == {"unscheduled", "scheduled", "cleared", "inflight"}

MemInit ==
  /\ memRunning = FALSE
  /\ memJob = [j \in MemJobs |-> "absent"]
  /\ memMade = [j \in MemJobs |-> 0]
  /\ memDead = {}

\* What schedule() does with a job: a timer only while running.
Scheduled == IF memRunning THEN "scheduled" ELSE "unscheduled"

\* An id that is pending already is returned as it is.
MemEnqueue(j) ==
  /\ memJob[j] = "absent"
  /\ memJob' = [memJob EXCEPT ![j] = Scheduled]
  /\ memMade' = [memMade EXCEPT ![j] = 0]
  /\ UNCHANGED <<memRunning, memDead>>

\* cancel(): only a job that has a timer; false otherwise.
MemCancel(j) ==
  /\ memJob[j] \in {"scheduled", "cleared"}
  /\ memJob' = [memJob EXCEPT ![j] = "absent"]
  /\ UNCHANGED <<memRunning, memMade, memDead>>

\* start(), once a stop() before it has settled.
MemStart ==
  /\ ~memRunning
  /\ \A j \in MemJobs : memJob[j] # "inflight"
  /\ memRunning' = TRUE
  /\ memJob' = [j \in MemJobs |-> IF memJob[j] = "unscheduled" THEN "scheduled" ELSE memJob[j]]
  /\ UNCHANGED <<memMade, memDead>>

\* stop(): timers are cleared, jobs in flight are awaited.
MemStop ==
  /\ memRunning
  /\ memRunning' = FALSE
  /\ memJob' = [j \in MemJobs |-> IF memJob[j] = "scheduled" THEN "cleared" ELSE memJob[j]]
  /\ UNCHANGED <<memMade, memDead>>

\* The timer fires: run() counts the attempt and calls the handler.
MemRun(j) ==
  /\ memJob[j] = "scheduled"
  /\ memJob' = [memJob EXCEPT ![j] = "inflight"]
  /\ memMade' = [memMade EXCEPT ![j] = @ + 1]
  /\ UNCHANGED <<memRunning, memDead>>

MemSucceeds(j) ==
  /\ memJob[j] = "inflight"
  /\ memJob' = [memJob EXCEPT ![j] = "absent"]
  /\ UNCHANGED <<memRunning, memMade, memDead>>

\* Mutant: a retry is put back without a timer.
MemRetryLost(j) ==
  /\ memJob[j] = "inflight"
  /\ memMade[j] < MaxAttempts
  /\ memJob' = [memJob EXCEPT ![j] = "unscheduled"]
  /\ UNCHANGED <<memRunning, memMade, memDead>>

\* The handler threw or timed out, and attempts are left.
MemRetry(j) ==
  /\ memJob[j] = "inflight"
  /\ memMade[j] < MaxAttempts
  /\ memJob' = [memJob EXCEPT ![j] = Scheduled]
  /\ UNCHANGED <<memRunning, memMade, memDead>>

\* The last attempt, or at any attempt an unknown job, an invalid payload or a
\* non-retryable code.
MemDies(j) ==
  /\ memJob[j] = "inflight"
  /\ memJob' = [memJob EXCEPT ![j] = "absent"]
  /\ memDead' = memDead \cup {j}
  /\ UNCHANGED <<memRunning, memMade>>

\* retryDeadLetter(): a new job with a new id.
MemReplay(j, k) ==
  /\ j \in memDead
  /\ memJob[k] = "absent"
  /\ memDead' = memDead \ {j}
  /\ memJob' = [memJob EXCEPT ![k] = Scheduled]
  /\ memMade' = [memMade EXCEPT ![k] = 0]
  /\ UNCHANGED memRunning

\* What timers and handlers do on their own.
MemStep(j) == MemRun(j) \/ MemSucceeds(j) \/ MemRetry(j) \/ MemDies(j)

MemNext ==
  \/ MemStart \/ MemStop
  \/ \E j \in MemJobs :
       \/ MemEnqueue(j) \/ MemCancel(j) \/ MemStep(j)
       \/ \E k \in MemJobs : MemReplay(j, k)

MemSpec == MemInit /\ [][MemNext]_memVars

-----------------------------------------------------------------------------
MemTypeOK ==
  /\ memRunning \in BOOLEAN
  /\ memJob \in [MemJobs -> Pending \cup {"absent"}]
  /\ memMade \in [MemJobs -> 0..MaxAttempts]
  /\ memDead \subseteq MemJobs

\* "Same semantics as BullMQ (retry/backoff, dedup, DLQ)": while the queue is
\* not stopped, an accepted job and every retry of it ends, and until it ends
\* it keeps a timer or a running handler.  (A job that was pending at a stop()
\* is lost to the next start(), which passes it over.)
AcceptedJobsEnd ==
  \A j \in MemJobs :
    (memRunning /\ memJob[j] \in {"scheduled", "inflight"}) ~>
      (memJob[j] = "absent" \/ ~memRunning)

=============================================================================
