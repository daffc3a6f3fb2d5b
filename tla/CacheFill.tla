------------------------------ MODULE CacheFill ------------------------------
(***************************************************************************)
(* Cache.getOrSet of @mariachi/cache on one key: read through; on a miss   *)
(* join the computation this instance has in flight, or lead one.  The     *)
(* leader fills under the distributed lock (withLock around re-read and    *)
(* compute); after waiting lockWaitMs for the lock it computes without it. *)
(* Each action is one reply that a caller awaits, with what the caller     *)
(* then does before its next await.                                        *)
(***************************************************************************)
EXTENDS DistributedLock

CONSTANT HomeOf(_)     \* the instance a caller runs in

ASSUME FillAssumption == \A c \in LockCallers : HomeOf(c) \in LockInstances

VARIABLES
  cached,     \* whether the cache holds the key
  fpc,        \* the step of each caller
  inflight    \* [LockInstances -> whether the instance has a computation]

fillVars == <<lockVars, cached, fpc, inflight>>

FillSteps == {"idle", "read", "missed", "shared", "lock", "reread",
              "compute", "alone", "release"}

FillInit ==
  /\ LockInit
  /\ cached = FALSE
  /\ fpc = [c \in LockCallers |-> "idle"]
  /\ inflight = [i \in LockInstances |-> FALSE]

FillGo(c, step) == fpc' = [fpc EXCEPT ![c] = step]

GetOrSet(c) ==
  /\ fpc[c] = "idle"
  /\ FillGo(c, "read")
  /\ UNCHANGED <<lockVars, cached, inflight>>

\* readThrough: a hit answers, a miss goes on once the reply is delivered.
ReadThrough(c) ==
  /\ fpc[c] = "read"
  /\ FillGo(c, IF cached THEN "idle" ELSE "missed")
  /\ UNCHANGED <<lockVars, cached, inflight>>

\* Mutant: a miss always computes, whatever is in flight.
LeadAlways(c) ==
  /\ fpc[c] = "missed"
  /\ inflight' = [inflight EXCEPT ![HomeOf(c)] = TRUE]
  /\ FillGo(c, "lock")
  /\ UNCHANGED <<lockVars, cached>>

\* this.inflight.get(key): share that promise, or start run() and record it.
JoinOrLead(c) ==
  /\ fpc[c] = "missed"
  /\ FillGo(c, IF inflight[HomeOf(c)] THEN "shared" ELSE "lock")
  /\ inflight' = [inflight EXCEPT ![HomeOf(c)] = TRUE]
  /\ UNCHANGED <<lockVars, cached>>

\* run().finally: the promise settles for its leader and for all who share it.
Settle(c) ==
  /\ fpc' = [d \in LockCallers |->
               IF d = c \/ (fpc[d] = "shared" /\ HomeOf(d) = HomeOf(c)) THEN "idle" ELSE fpc[d]]
  /\ inflight' = [inflight EXCEPT ![HomeOf(c)] = FALSE]

FillLocked(c) ==
  /\ fpc[c] = "lock"
  /\ AcquireToken(c)
  /\ FillGo(c, "reread")
  /\ UNCHANGED <<cached, inflight>>

\* lock/not-acquired after lockWaitMs: compute anyway.  A lock that outlives
\* its run is one of a run shorter than the wait.
WaitExceeded(c) ==
  /\ fpc[c] = "lock"
  /\ ~lockOutlives
  /\ lockKey # NoToken
  /\ FillGo(c, "alone")
  /\ UNCHANGED <<lockVars, cached, inflight>>

\* Mutant: the promise of a failed run stays in flight, unsettled.
LockFailsInFlight(c) ==
  /\ fpc[c] = "lock"
  /\ FillGo(c, "idle")
  /\ UNCHANGED <<lockVars, cached, inflight>>

\* lock/acquire-failed: the error is the result.
LockFails(c) ==
  /\ fpc[c] = "lock"
  /\ Settle(c)
  /\ UNCHANGED <<lockVars, cached>>

Reread(c) ==
  /\ fpc[c] = "reread"
  /\ FillGo(c, IF cached THEN "release" ELSE "compute")
  /\ UNCHANGED <<lockVars, cached, inflight>>

\* compute(): fn's value is stored; a null without cacheNull, a throw of fn
\* and a failed set store nothing.
ComputeUnderLock(c) ==
  /\ fpc[c] = "compute"
  /\ cached' \in {cached, TRUE}
  /\ FillGo(c, "release")
  /\ UNCHANGED <<lockVars, inflight>>

ComputeAlone(c) ==
  /\ fpc[c] = "alone"
  /\ cached' \in {cached, TRUE}
  /\ Settle(c)
  /\ UNCHANGED lockVars

FillReleased(c) ==
  /\ fpc[c] = "release"
  /\ ReleaseToken(c) \/ ReleaseTokenFails(c)
  /\ Settle(c)
  /\ UNCHANGED cached

\* The entry's TTL runs out, or someone calls del.
Uncache ==
  /\ cached
  /\ cached' = FALSE
  /\ UNCHANGED <<lockVars, fpc, inflight>>

\* The process dies with its callers, and its inflight map.
FillCrash(i) ==
  /\ \E c \in LockCallers : HomeOf(c) = i /\ fpc[c] # "idle"
  /\ fpc' = [c \in LockCallers |-> IF HomeOf(c) = i THEN "idle" ELSE fpc[c]]
  /\ held' = [c \in LockCallers |-> IF HomeOf(c) = i THEN NoToken ELSE held[c]]
  /\ inflight' = [inflight EXCEPT ![i] = FALSE]
  /\ UNCHANGED <<lockKey, localTokens, lockOutlives, ownedVars, cached>>

\* The end of a wait for the lock, which lockWaitMs bounds.
FillWaited(c) == FillLocked(c) \/ WaitExceeded(c)

FillStep(c) ==
  \/ ReadThrough(c) \/ JoinOrLead(c)
  \/ Reread(c) \/ ComputeUnderLock(c) \/ ComputeAlone(c) \/ FillReleased(c)

FillExpire == ExpireLock /\ UNCHANGED <<cached, fpc, inflight>>

FillNext ==
  \/ \E c \in LockCallers : GetOrSet(c) \/ FillWaited(c) \/ LockFails(c) \/ FillStep(c)
  \/ \E i \in LockInstances : FillCrash(i)
  \/ FillExpire
  \/ Uncache

FillSpec == FillInit /\ [][FillNext]_fillVars

-----------------------------------------------------------------------------
FillTypeOK ==
  /\ LockTypeOK
  /\ cached \in BOOLEAN
  /\ fpc \in [LockCallers -> FillSteps]
  /\ inflight \in [LockInstances -> BOOLEAN]

Computing(c) == fpc[c] \in {"compute", "alone"}

\* "Concurrent callers in this process share one computation", with or without
\* the lock; and "only one instance recomputes a cold key": while locks outlive
\* the runs, nobody computes next to another caller of any instance, and nobody
\* computes a key that somebody filled since.
OneFillOfAColdKey ==
  \A c \in LockCallers : Computing(c) =>
    /\ lockOutlives => ~cached
    /\ \A d \in LockCallers \ {c} :
         (lockOutlives \/ HomeOf(d) = HomeOf(c)) => ~Computing(d)

\* Every getOrSet answers, whatever becomes of the holder of the lock.
FillsAnswer == \A c \in LockCallers : fpc[c] # "idle" ~> fpc[c] = "idle"
=============================================================================
