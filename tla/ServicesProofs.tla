---------------------------- MODULE ServicesProofs ----------------------------
(***************************************************************************)
(* Theorems about the components that share no state with one another: the *)
(* distributed lock and the cache filled under it, the dead letters of the *)
(* job queue, the rows of notifications, startup and shutdown, API keys    *)
(* and the brute-force guard, presence, the audit chain, the mirror of a   *)
(* subscription, the sessions of an agent and the memory queue. Each       *)
(* section has the inductive invariant of one component, its step lemma    *)
(* and the theorems; MCServices checks the same properties on small        *)
(* instances.                                                              *)
(***************************************************************************)
EXTENDS CacheFill, JobQueue, NotificationDispatch, Lifecycle, AuthGuards, Presence,
        SubscriptionMirror, AuditChain, AISessions, MemoryJobs,
        TLAPS, FiniteSetTheorems, SequenceTheorems, WellFoundedInduction

-----------------------------------------------------------------------------
(***************************************************************************)
(* The distributed lock, and getOrSet under it, for any callers, instances *)
(* and tokens.  Two facts carry everything: a token is in one hand only,   *)
(* and, while locks outlive the runs they protect, Redis holds the token   *)
(* of whoever believes it has the lock.                                    *)
(***************************************************************************)

\* A caller's token is nobody else's, of a caller or of an instance.
TokensApart ==
  \A c \in LockCallers : held[c] # NoToken =>
    /\ \A d \in LockCallers : held[d] = held[c] => d = c
    /\ \A i \in LockInstances : localTokens[i] # held[c]

HoldersHave ==
  lockOutlives => \A c \in LockCallers : held[c] # NoToken => lockKey = held[c]

LockInv == LockTypeOK /\ TokensApart /\ HoldersHave

\* Mutual exclusion: one caller at a time believes it has the lock.
OneHolder ==
  lockOutlives =>
    \A c, d \in LockCallers : held[c] # NoToken /\ held[d] # NoToken => c = d

LEMMA LockInitInv == LockInit => LockInv
BY LockAssumption DEF LockInit, LockInv, LockTypeOK, TokensApart, HoldersHave

LEMMA TokenStep ==
  ASSUME LockInv, TokenNext
  PROVE  LockInv'
<1> USE DEF LockInv, LockTypeOK, TokensApart, HoldersHave, ownedVars
<1>1. ASSUME NEW c \in LockCallers, AcquireToken(c) PROVE LockInv'
  BY <1>1, LockAssumption DEF AcquireToken, FreshToken, SetIfFree
<1>2. ASSUME NEW c \in LockCallers, ReleaseToken(c) PROVE LockInv'
  BY <1>2, LockAssumption DEF ReleaseToken, DelIfEqual
<1>3. ASSUME NEW c \in LockCallers, ReleaseTokenFails(c) PROVE LockInv'
  BY <1>3, LockAssumption DEF ReleaseTokenFails
<1>4. ASSUME NEW i \in LockInstances, AcquireLocal(i) PROVE LockInv'
  BY <1>4, LockAssumption DEF AcquireLocal, FreshToken, SetIfFree
<1>5. ASSUME NEW i \in LockInstances, ReleaseLocal(i) PROVE LockInv'
  BY <1>5, LockAssumption DEF ReleaseLocal, DelIfEqual
<1>6. CASE ExpireLock
  BY <1>6 DEF ExpireLock, HeldBy
<1> QED BY <1>1, <1>2, <1>3, <1>4, <1>5, <1>6 DEF TokenNext

LEMMA OwnedStep ==
  ASSUME LockInv, OwnedNext
  PROVE  LockInv'
BY DEF LockInv, LockTypeOK, TokensApart, HoldersHave, tokenVars, OwnedNext, AskOwned, InspectOwned,
       RetryOwned, ReleaseOwned, ExpireOwned

LEMMA LockInvariant == LockSpec => []LockInv
<1>1. LockInv /\ [TokenNext \/ OwnedNext]_lockVars => LockInv'
  <2>1. CASE UNCHANGED lockVars
    BY <2>1 DEF LockInv, LockTypeOK, TokensApart, HoldersHave, lockVars, tokenVars, ownedVars
  <2> QED BY <2>1, TokenStep, OwnedStep
<1> QED BY <1>1, LockInitInv, PTL DEF LockSpec

\* The lock excludes, for any callers on any instances, as long as it outlives
\* the runs it protects: with node-local locks on the same key beside it.
THEOREM OneHolderHolds == LockSpec => []OneHolder
<1>1. LockInv => OneHolder
  BY DEF LockInv, HoldersHave, TokensApart, OneHolder
<1> QED BY <1>1, LockInvariant, PTL

\* The formula under the box of OnlyHoldersRelease.
Releases ==
  /\ lockKey # NoToken /\ lockKey' # lockKey =>
       /\ lockKey' = NoToken
       /\ \/ \E c \in LockCallers : held[c] = lockKey /\ held'[c] = NoToken
          \/ \E i \in LockInstances : localTokens[i] = lockKey /\ localTokens'[i] = NoToken
          \/ ExpireLock
  /\ ownedLock # NoToken /\ ownedLock' # ownedLock =>
       ownedLock' = NoToken /\ (ReleaseOwned(ownedLock) \/ ExpireOwned)

LEMMA TokenReleases ==
  ASSUME LockInv, TokenNext
  PROVE  Releases
<1> USE DEF LockInv, LockTypeOK, Releases, ownedVars
<1>1. ASSUME NEW c \in LockCallers, AcquireToken(c) PROVE Releases
  BY <1>1 DEF AcquireToken, SetIfFree
<1>2. ASSUME NEW c \in LockCallers, ReleaseToken(c) PROVE Releases
  BY <1>2 DEF ReleaseToken, DelIfEqual
<1>3. ASSUME NEW c \in LockCallers, ReleaseTokenFails(c) PROVE Releases
  BY <1>3 DEF ReleaseTokenFails
<1>4. ASSUME NEW i \in LockInstances, AcquireLocal(i) PROVE Releases
  BY <1>4 DEF AcquireLocal, SetIfFree
<1>5. ASSUME NEW i \in LockInstances, ReleaseLocal(i) PROVE Releases
  BY <1>5 DEF ReleaseLocal, DelIfEqual
<1>6. CASE ExpireLock
  BY <1>6 DEF ExpireLock
<1> QED BY <1>1, <1>2, <1>3, <1>4, <1>5, <1>6 DEF TokenNext

LEMMA OwnedReleases ==
  ASSUME OwnedNext
  PROVE  Releases
<1> USE DEF Releases, tokenVars
<1>1. ASSUME NEW c \in LockCallers, AskOwned(c) \/ InspectOwned(c) \/ RetryOwned(c)
      PROVE  Releases
  BY <1>1 DEF AskOwned, InspectOwned, RetryOwned
<1>2. ASSUME NEW c \in LockCallers, ReleaseOwned(c) PROVE Releases
  BY <1>2 DEF ReleaseOwned
<1>3. CASE ExpireOwned
  BY <1>3 DEF ExpireOwned
<1> QED BY <1>1, <1>2, <1>3 DEF OwnedNext

\* A lock goes from its holder to nobody, by the holder's own release or by its
\* expiry: for any callers, instances and owners, however late a release comes.
THEOREM OnlyHoldersReleaseHolds == LockSpec => OnlyHoldersRelease
<1>1. LockInv /\ [TokenNext \/ OwnedNext]_lockVars => [Releases]_lockVars
  BY TokenReleases, OwnedReleases
<1> QED BY <1>1, LockInvariant, PTL DEF LockSpec, OnlyHoldersRelease, Releases

-----------------------------------------------------------------------------
(***************************************************************************)
(* getOrSet.  An instance has one leader, whom its inflight entry records; *)
(* a leader is under the lock from the reply of the acquisition to the     *)
(* release; nobody goes alone while locks outlive the runs.                *)
(***************************************************************************)

UnderLock(c) == fpc[c] \in {"reread", "compute", "release"}
Leading(c) == UnderLock(c) \/ fpc[c] \in {"lock", "alone"}

Leaders ==
  \A c \in LockCallers :
    /\ Leading(c) => inflight[HomeOf(c)]
    /\ \A d \in LockCallers : Leading(c) /\ Leading(d) /\ HomeOf(c) = HomeOf(d) => c = d

Fillers ==
  \A c \in LockCallers :
    /\ UnderLock(c) <=> held[c] # NoToken
    /\ lockOutlives => /\ fpc[c] # "alone"
                       /\ fpc[c] = "compute" => ~cached

FillInv == FillTypeOK /\ LockInv /\ Leaders /\ Fillers

\* Every step of a caller on the lock is a step of the lock.
LEMMA FillLockStep ==
  ASSUME FillInv, [FillNext]_fillVars
  PROVE  LockInv'
<1>1. CASE UNCHANGED fillVars
  BY <1>1 DEF FillInv, LockInv, LockTypeOK, TokensApart, HoldersHave, fillVars, lockVars, tokenVars, ownedVars
<1>2. ASSUME UNCHANGED lockVars PROVE LockInv'
  BY <1>2 DEF FillInv, LockInv, LockTypeOK, TokensApart, HoldersHave, lockVars, tokenVars, ownedVars
<1>3. ASSUME NEW c \in LockCallers, FillLocked(c) \/ FillReleased(c) PROVE LockInv'
  BY <1>3, TokenStep DEF FillInv, FillLocked, FillReleased, TokenNext
<1>4. ASSUME NEW i \in LockInstances, FillCrash(i) PROVE LockInv'
  BY <1>4 DEF FillInv, LockInv, LockTypeOK, TokensApart, HoldersHave, FillCrash, ownedVars
<1>5. CASE FillExpire
  BY <1>5, TokenStep DEF FillInv, FillExpire, TokenNext
<1> QED
  BY <1>1, <1>2, <1>3, <1>4, <1>5 DEF FillNext, FillStep, FillWaited, GetOrSet, ReadThrough,
     JoinOrLead, WaitExceeded, LockFails, Reread, ComputeUnderLock, ComputeAlone, Uncache

LEMMA FillInvStep ==
  ASSUME FillInv, [FillNext]_fillVars
  PROVE  FillTypeOK' /\ Leaders' /\ Fillers'
<1> USE FillAssumption, LockAssumption, FillLockStep
    DEF FillInv, FillTypeOK, FillSteps, Leaders, Fillers, Leading, UnderLock, FillGo,
        lockVars, tokenVars, ownedVars
<1>0. LockTypeOK'
  BY DEF LockInv
<1> USE <1>0
<1>1. CASE UNCHANGED fillVars
  BY <1>1 DEF fillVars
<1>2. ASSUME NEW c \in LockCallers, GetOrSet(c) \/ ReadThrough(c)
      PROVE  FillTypeOK' /\ Leaders' /\ Fillers'
  BY <1>2 DEF GetOrSet, ReadThrough
<1>3. ASSUME NEW c \in LockCallers, JoinOrLead(c)
      PROVE  FillTypeOK' /\ Leaders' /\ Fillers'
  BY <1>3 DEF JoinOrLead
<1>4. ASSUME NEW c \in LockCallers, FillLocked(c)
      PROVE  FillTypeOK' /\ Leaders' /\ Fillers'
  BY <1>4 DEF FillLocked, AcquireToken, LockInv, LockTypeOK
<1>5. ASSUME NEW c \in LockCallers, WaitExceeded(c)
      PROVE  FillTypeOK' /\ Leaders' /\ Fillers'
  BY <1>5 DEF WaitExceeded
<1>6. ASSUME NEW c \in LockCallers, LockFails(c)
      PROVE  FillTypeOK' /\ Leaders' /\ Fillers'
  BY <1>6 DEF LockFails, Settle
<1>7. ASSUME NEW c \in LockCallers, Reread(c)
      PROVE  FillTypeOK' /\ Leaders' /\ Fillers'
  BY <1>7 DEF Reread
<1>8. ASSUME NEW c \in LockCallers, ComputeUnderLock(c)
      PROVE  FillTypeOK' /\ Leaders' /\ Fillers'
  \* no other caller is under the lock, so none is about to compute
  <2>1. \A d \in LockCallers : lockOutlives /\ UnderLock(d) => d = c
    BY <1>8 DEF ComputeUnderLock, LockInv, HoldersHave, TokensApart
  <2> QED BY <1>8, <2>1 DEF ComputeUnderLock
<1>9. ASSUME NEW c \in LockCallers, ComputeAlone(c)
      PROVE  FillTypeOK' /\ Leaders' /\ Fillers'
  BY <1>9 DEF ComputeAlone, Settle
<1>10. ASSUME NEW c \in LockCallers, FillReleased(c)
       PROVE  FillTypeOK' /\ Leaders' /\ Fillers'
  BY <1>10 DEF FillReleased, ReleaseToken, ReleaseTokenFails, Settle, LockInv, LockTypeOK
<1>11. ASSUME NEW i \in LockInstances, FillCrash(i)
       PROVE  FillTypeOK' /\ Leaders' /\ Fillers'
  BY <1>11 DEF FillCrash, LockInv, LockTypeOK
<1>12. CASE FillExpire
  BY <1>12 DEF FillExpire, ExpireLock
<1>13. CASE Uncache
  BY <1>13 DEF Uncache
<1> QED
  BY <1>1, <1>2, <1>3, <1>4, <1>5, <1>6, <1>7, <1>8, <1>9, <1>10, <1>11, <1>12, <1>13
  DEF FillNext, FillWaited, FillStep

LEMMA FillInvariant == FillSpec => []FillInv
<1>1. FillInit => FillInv
  <2>1. FillInit => LockInv
    BY LockInitInv DEF FillInit
  <2>2. FillInit => FillTypeOK /\ Leaders /\ Fillers
    BY <2>1, FillAssumption DEF FillInit, LockInit, LockInv, FillTypeOK, FillSteps, Leaders, Fillers,
       Leading, UnderLock
  <2> QED BY <2>1, <2>2 DEF FillInv
<1>2. FillInv /\ [FillNext]_fillVars => FillInv'
  BY FillLockStep, FillInvStep DEF FillInv
<1> QED BY <1>1, <1>2, PTL DEF FillSpec

\* One caller of an instance computes at a time, and while locks outlive the
\* runs one caller at all, a key that nobody filled since: for any callers and
\* instances, their failures, crashes and waits.
THEOREM OneFillOfAColdKeyHolds == FillSpec => []OneFillOfAColdKey
<1>1. FillInv => OneFillOfAColdKey
  BY DEF FillInv, LockInv, HoldersHave, TokensApart, Leaders, Fillers, Leading, UnderLock,
         OneFillOfAColdKey, Computing
<1> QED BY <1>1, FillInvariant, PTL

\* A promise in flight has a leader that settles it, for all who share it.
PromisesLed ==
  /\ \A i \in LockInstances : inflight[i] => \E d \in LockCallers : HomeOf(d) = i /\ Leading(d)
  /\ \A c \in LockCallers : fpc[c] = "shared" => inflight[HomeOf(c)]

\* The end of a leader, of its run or of its instance leaves nobody sharing it.
LEMMA SettleLeavesNobody ==
  ASSUME FillInv, PromisesLed, NEW i \in LockInstances,
         inflight' = [inflight EXCEPT ![i] = FALSE],
         \A d \in LockCallers : \/ fpc'[d] = fpc[d] /\ (HomeOf(d) = i => fpc[d] # "shared")
                                \/ HomeOf(d) = i /\ fpc'[d] = "idle"
  PROVE  PromisesLed'
<1>1. inflight \in [LockInstances -> BOOLEAN]
  BY DEF FillInv, FillTypeOK
<1>2. \A j \in LockInstances : inflight'[j] => inflight[j] /\ j # i
  BY <1>1
<1>3. \A d \in LockCallers : HomeOf(d) # i => fpc'[d] = fpc[d]
  OBVIOUS
<1>4. ASSUME NEW j \in LockInstances, inflight'[j] PROVE \E d \in LockCallers : HomeOf(d) = j /\ Leading(d)'
  BY <1>2, <1>3, <1>4 DEF PromisesLed, Leading, UnderLock
<1>5. ASSUME NEW c \in LockCallers, fpc'[c] = "shared" PROVE inflight'[HomeOf(c)]
  <2>1. HomeOf(c) # i /\ fpc[c] = "shared" /\ HomeOf(c) \in LockInstances
    BY <1>5, FillAssumption
  <2> QED
    BY <1>1, <2>1 DEF PromisesLed
<1> QED
  BY <1>4, <1>5 DEF PromisesLed

LEMMA PromisesStep ==
  ASSUME FillInv, PromisesLed, [FillNext]_fillVars
  PROVE  PromisesLed'
<1>1. /\ fpc \in [LockCallers -> FillSteps] /\ inflight \in [LockInstances -> BOOLEAN]
      /\ \A c \in LockCallers : HomeOf(c) \in LockInstances
  BY FillAssumption DEF FillInv, FillTypeOK
\* a step of one caller that leaves the promises alone
<1>2. ASSUME NEW c \in LockCallers, NEW step \in FillSteps, FillGo(c, step), UNCHANGED inflight,
             step # "shared" /\ fpc[c] # "shared",
             Leading(c) => step \in {"lock", "reread", "compute", "alone", "release"}
      PROVE  PromisesLed'
  <2>1. \A d \in LockCallers : fpc'[d] = IF d = c THEN step ELSE fpc[d]
    BY <1>1, <1>2 DEF FillGo
  <2>2. \A d \in LockCallers : Leading(d) => Leading(d)'
    BY <1>2, <2>1 DEF Leading, UnderLock
  <2>3. \A d \in LockCallers : fpc'[d] = "shared" => fpc[d] = "shared"
    BY <1>2, <2>1
  <2> QED
    BY <1>2, <2>2, <2>3 DEF PromisesLed
<1>3. CASE UNCHANGED <<fpc, inflight>>
  BY <1>3 DEF PromisesLed, Leading, UnderLock
<1>4. ASSUME NEW c \in LockCallers, GetOrSet(c) \/ ReadThrough(c) PROVE PromisesLed'
  BY <1>2, <1>4 DEF GetOrSet, ReadThrough, FillSteps, Leading, UnderLock
<1>5. ASSUME NEW c \in LockCallers, JoinOrLead(c) PROVE PromisesLed'
  <2>1. CASE inflight[HomeOf(c)]
    <3>1. inflight' = inflight /\ \A d \in LockCallers : fpc'[d] = IF d = c THEN "shared" ELSE fpc[d]
      BY <1>1, <1>5, <2>1 DEF JoinOrLead, FillGo
    <3>2. \A d \in LockCallers : Leading(d) => Leading(d)'
      BY <1>5, <3>1 DEF JoinOrLead, Leading, UnderLock
    <3> QED
      BY <2>1, <3>1, <3>2 DEF PromisesLed
  <2>2. CASE ~inflight[HomeOf(c)]
    <3>1. /\ \A j \in LockInstances : inflight'[j] <=> j = HomeOf(c) \/ inflight[j]
          /\ \A d \in LockCallers : fpc'[d] = IF d = c THEN "lock" ELSE fpc[d]
      BY <1>1, <1>5, <2>2 DEF JoinOrLead, FillGo
    <3>2. \A d \in LockCallers : Leading(d) \/ d = c => Leading(d)'
      BY <1>5, <3>1 DEF JoinOrLead, Leading, UnderLock
    <3> QED
      BY <1>1, <3>1, <3>2 DEF PromisesLed
  <2> QED
    BY <2>1, <2>2
<1>6. ASSUME NEW c \in LockCallers, FillWaited(c) \/ Reread(c) \/ ComputeUnderLock(c) PROVE PromisesLed'
  BY <1>2, <1>6 DEF FillWaited, FillLocked, WaitExceeded, Reread, ComputeUnderLock, FillSteps
<1>7. ASSUME NEW c \in LockCallers, LockFails(c) \/ ComputeAlone(c) \/ FillReleased(c) PROVE PromisesLed'
  <2>1. Settle(c)
    BY <1>7 DEF LockFails, ComputeAlone, FillReleased
  <2> QED
    BY <1>1, <2>1, SettleLeavesNobody DEF Settle
<1>8. ASSUME NEW i \in LockInstances, FillCrash(i) PROVE PromisesLed'
  BY <1>1, <1>8, SettleLeavesNobody DEF FillCrash
<1>9. CASE FillExpire \/ Uncache \/ UNCHANGED fillVars
  BY <1>3, <1>9 DEF FillExpire, Uncache, fillVars
<1> QED
  BY <1>4, <1>5, <1>6, <1>7, <1>8, <1>9 DEF FillNext, FillStep

\* The safety half of FillsAnswer: who waits for somebody else's computation
\* waits for one whose leader is under way in the same process, whatever of
\* lock failures, ends of waits and crashes came between, so no promise is left
\* in the map with nobody to settle it.
NobodyLeftWaiting ==
  \A c \in LockCallers : fpc[c] = "shared" =>
    \E d \in LockCallers : HomeOf(d) = HomeOf(c) /\ Leading(d)

THEOREM NobodyLeftWaitingHolds == FillSpec => []NobodyLeftWaiting
<1>1. FillInit => PromisesLed
  BY FillAssumption DEF FillInit, PromisesLed
<1>2. PromisesLed => NobodyLeftWaiting
  BY FillAssumption DEF PromisesLed, NobodyLeftWaiting
<1> QED
  BY <1>1, <1>2, PromisesStep, FillInvariant, PTL DEF FillSpec

-----------------------------------------------------------------------------
(* The job queue: an operator about to remove an entry has re-enqueued it. *)

ReplayedFirst ==
  /\ rpc \in [Operators -> {"idle", "enqueue", "remove"}]
  /\ replaying \in [Operators -> BullJobs \cup {NoJob}]
  /\ \A o \in Operators : rpc[o] = "remove" => replaying[o] \in replayed

LEMMA ReplayStep ==
  ASSUME ReplayedFirst, [BullNext]_bullVars
  PROVE  ReplayedFirst' /\ \A j \in BullJobs : (j \in dlq /\ j \notin dlq') => j \in replayed
<1> DEFINE Leaves == \A j \in BullJobs : (j \in dlq /\ j \notin dlq') => j \in replayed
<1> USE DEF ReplayedFirst
<1>1. CASE UNCHANGED bullVars
  BY <1>1 DEF bullVars
<1>2. ASSUME NEW j \in BullJobs, BullEnqueue(j) \/ BullCancel(j) \/ BullJobStep(j)
      PROVE  ReplayedFirst' /\ Leaves
  BY <1>2 DEF BullEnqueue, BullCancel, BullJobStep, BullCompletes, BullRetries, BullFails,
              DeadLetter, DeadLetterFails, BullStalled
<1>3. ASSUME NEW w \in BullWorkers,
             BullStart(w) \/ BullStop(w) \/ BullLost(w) \/ \E j \in BullJobs : BullTake(w, j)
      PROVE  ReplayedFirst' /\ Leaves
  BY <1>3 DEF BullStart, BullStop, BullLost, BullTake
<1>4. ASSUME NEW o \in Operators, NEW j \in BullJobs, ReplayRead(o, j) \/ ReplayEnqueue(o, j)
      PROVE  ReplayedFirst' /\ Leaves
  BY <1>4 DEF ReplayRead, ReplayEnqueue
<1>5. ASSUME NEW o \in Operators, ReplayRemove(o) \/ ReplayAborts(o)
      PROVE  ReplayedFirst' /\ Leaves
  BY <1>5 DEF ReplayRemove, ReplayAborts
<1> QED BY <1>1, <1>2, <1>3, <1>4, <1>5 DEF BullNext

\* A dead letter leaves its queue only once a job carries its data, for any
\* number of operators that replay it, fail and die.
THEOREM DeadLettersLeaveAsJobsHolds == BullSpec => DeadLettersLeaveAsJobs
<1>1. BullInit => ReplayedFirst
  BY DEF BullInit, ReplayedFirst
<1>2. ReplayedFirst /\ [BullNext]_bullVars
        => ReplayedFirst' /\ [\A j \in BullJobs : (j \in dlq /\ j \notin dlq') => j \in replayed]_bullVars
  BY ReplayStep
<1> QED BY <1>1, <1>2, PTL DEF BullSpec, DeadLettersLeaveAsJobs

-----------------------------------------------------------------------------
(* Notifications: a worker that records a sending holds a note the provider *)
(* took, and so does every row that says so.                               *)

RowsBacked ==
  /\ noteRow \in [Notes -> {"none", "queued", "sent", "failed", "delivered", "bounced"}]
  /\ onNote \in [NoteWorkers -> Notes \cup {NoNote}]
  /\ noteStep \in [NoteWorkers -> {"idle", "get", "send", "record", "dispatched", "failed"}]
  /\ \A n \in Notes : noteRow[n] \in {"sent", "delivered", "bounced"} => n \in accepted
  /\ \A w \in NoteWorkers : noteStep[w] = "record" => onNote[w] \in accepted

\* The formula under the box of RowsTellTheTruth.
TruthfulStep ==
  \A n \in Notes :
    /\ noteRow[n] # "none" /\ noteRow'[n] = "queued" => noteRow[n] = "queued"
    /\ noteRow'[n] \in {"sent", "delivered", "bounced"} => n \in accepted'

LEMMA RowsStep ==
  ASSUME RowsBacked, [NoteNext]_noteVars
  PROVE  RowsBacked' /\ TruthfulStep
<1> USE DEF RowsBacked, TruthfulStep, NoteGo, RecordRow
<1>1. CASE UNCHANGED noteVars
  BY <1>1 DEF noteVars
<1>2. ASSUME NEW i \in Intents, NEW wanted, NEW enabled, NEW critical,
             Notify(i, wanted, enabled, critical)
      PROVE  RowsBacked' /\ TruthfulStep
  BY <1>2 DEF Notify
<1>3. ASSUME NEW n \in Notes, QueueNote(n) PROVE RowsBacked' /\ TruthfulStep
  BY <1>3 DEF QueueNote, RecordQueued, EnqueueNote
<1>4. ASSUME NEW i \in Intents, NotifyFails(i) PROVE RowsBacked' /\ TruthfulStep
  BY <1>4 DEF NotifyFails
<1>5. ASSUME NEW w \in NoteWorkers, NEW n \in Notes, TakeNote(w, n)
      PROVE  RowsBacked' /\ TruthfulStep
  BY <1>5 DEF TakeNote
<1>6. ASSUME NEW w \in NoteWorkers, SkipSent(w) \/ ReadUnsent(w) \/ NoteThrows(w) \/ NoteStalls(w)
      PROVE  RowsBacked' /\ TruthfulStep
  BY <1>6 DEF SkipSent, ReadUnsent, NoteThrows, NoteStalls
<1>7. ASSUME NEW w \in NoteWorkers, SendNote(w) PROVE RowsBacked' /\ TruthfulStep
  BY <1>7 DEF SendNote
<1>8. ASSUME NEW w \in NoteWorkers, RecordSent(w) PROVE RowsBacked' /\ TruthfulStep
  BY <1>8 DEF RecordSent
<1>9. ASSUME NEW w \in NoteWorkers, Dispatched(w) PROVE RowsBacked' /\ TruthfulStep
  BY <1>9 DEF Dispatched
<1>10. ASSUME NEW w \in NoteWorkers, NoteFailed(w) PROVE RowsBacked' /\ TruthfulStep
  BY <1>10 DEF NoteFailed
<1>11. ASSUME NEW n \in Notes, NEW status \in {"delivered", "bounced"}, ProviderCallback(n, status)
       PROVE  RowsBacked' /\ TruthfulStep
  BY <1>11 DEF ProviderCallback
<1> QED
  BY <1>1, <1>2, <1>3, <1>4, <1>5, <1>6, <1>7, <1>8, <1>9, <1>10, <1>11 DEF NoteNext, NoteStep

\* A row never goes back to queued, and says sent, delivered or bounced of a
\* message the provider has: for any intents, channels and overlapping workers.
THEOREM RowsTellTheTruthHolds == NoteSpec => RowsTellTheTruth
<1>1. NoteInit => RowsBacked
  BY DEF NoteInit, RowsBacked
<1>2. RowsBacked /\ [NoteNext]_noteVars => RowsBacked' /\ [TruthfulStep]_noteVars
  BY RowsStep
<1> QED BY <1>1, <1>2, PTL DEF NoteSpec, RowsTellTheTruth, TruthfulStep
-----------------------------------------------------------------------------
(* Lifecycle: while the shutdown run is ok, a hook it is done with left      *)
(* nothing connected and nothing running; a startup that overlaps it is the  *)
(* only one that connects anything later.                                    *)

ShutDown ==
  /\ lcStop \in {"running", "done"} /\ ~lcOverlap => lcStart # "starting"
  /\ lcOk => lcHanging = {}
  /\ lcOk /\ ~lcOverlap => \A r \in lcClosed : r \notin lcUp
  /\ lcStop = "done" => lcClosed = Resources
  /\ lcConnecting # 0 => lcStart = "starting"
  /\ lcClosing # 0 => lcStop = "running"
  /\ lcStop = "no" => lcClosed = {}

LcInv == LcTypeOK /\ ShutDown /\ CleanExit

LEMMA LcStep ==
  ASSUME LcInv, [LcNext]_lcVars
  PROVE  LcInv'
<1> USE LifecycleAssumption DEF LcInv, LcTypeOK, ShutDown, CleanExit, startVars, stopVars
<1>1. CASE UNCHANGED lcVars
  BY <1>1 DEF lcVars
<1>2. ASSUME lcExit = "no", StartUp PROVE LcInv'
  BY <1>2 DEF StartUp
<1>3. ASSUME lcExit = "no", StopCalled \/ FirstSignal PROVE LcInv'
  <2>1. CASE StopCalled
    BY <1>3, <2>1 DEF StopCalled, BeginStop
  <2>2. CASE FirstSignal
    BY <1>3, <2>2 DEF FirstSignal, BeginStop
  <2> QED BY <1>3, <2>1, <2>2
<1>4. ASSUME lcExit = "no", SecondSignal \/ DrainTimesOut PROVE LcInv'
  <2>1. lcExit' = "1" /\ UNCHANGED <<lcUp, lcStart, lcConnecting, lcConnected, lcSignal, lcOverlap>>
    BY <1>4 DEF SecondSignal, DrainTimesOut
  <2>2. UNCHANGED <<lcStop, lcClosing, lcClosed, lcHanging, lcOk>>
    BY <1>4 DEF SecondSignal, DrainTimesOut
  <2> QED BY <2>1, <2>2
<1>5. ASSUME lcExit = "no", Drained PROVE LcInv'
  BY <1>5 DEF Drained
<1>6. ASSUME NEW r \in Resources, lcExit = "no", Connect(r) \/ ConnectThrows(r) PROVE LcInv'
  <2>1. CASE Connect(r)
    BY <1>6, <2>1 DEF Connect
  <2>2. CASE ConnectThrows(r)
    BY <1>6, <2>2 DEF ConnectThrows
  <2> QED BY <1>6, <2>1, <2>2
<1>7. ASSUME NEW r \in Resources, lcExit = "no", ConnectReturns(r) PROVE LcInv'
  BY <1>7 DEF ConnectReturns
<1>8. ASSUME NEW r \in Resources, lcExit = "no", Disconnect(r) PROVE LcInv'
  BY <1>8 DEF Disconnect
<1>9. ASSUME NEW r \in Resources, lcExit = "no", DisconnectReturns(r) PROVE LcInv'
  BY <1>9 DEF DisconnectReturns, HookEnds
<1>10. ASSUME NEW r \in Resources, lcExit = "no", DisconnectThrows(r) \/ DisconnectTimesOut(r) PROVE LcInv'
  <2>1. CASE DisconnectThrows(r)
    BY <1>10, <2>1 DEF DisconnectThrows, HookEnds
  <2>2. CASE DisconnectTimesOut(r)
    BY <1>10, <2>2 DEF DisconnectTimesOut, HookEnds
  <2> QED BY <1>10, <2>1, <2>2
<1>11. ASSUME NEW r \in Resources, lcExit = "no", HangingReturns(r) PROVE LcInv'
  BY <1>11 DEF HangingReturns
<1> QED
  BY <1>1, <1>2, <1>3, <1>4, <1>5, <1>6, <1>7, <1>8, <1>9, <1>10, <1>11 DEF LcNext

LEMMA LcInvariant == LcSpec => []LcInv
<1>1. LcInit => LcInv
  BY DEF LcInit, LcInv, LcTypeOK, ShutDown, CleanExit
<1>2. LcInv /\ [LcNext]_lcVars => LcInv'
  BY LcStep
<1> QED BY <1>1, <1>2, PTL DEF LcSpec

\* Types of the lifecycle's state, and: an exit with code 0 leaves nothing
\* being disconnected, and, unless a startup ran beside the shutdown, nothing
\* connected: for any resources, priorities and limits.
THEOREM CleanExitHolds == LcSpec => [](LcTypeOK /\ CleanExit)
BY LcInvariant, PTL DEF LcInv

-----------------------------------------------------------------------------
(* API keys: unless somebody revoked one, there is an active key that no    *)
(* rotation is about to revoke - the one inserted last.                     *)

SomeKeySafe ==
  /\ akActive \subseteq akUsed /\ akUsed \subseteq ApiKeys
  /\ akStep \in [Rotators -> {"idle", "insert", "revoke"}]
  /\ akOld \in [Rotators -> ApiKeys \cup {NoKey}]
  /\ \A r \in Rotators : akStep[r] # "idle" => akOld[r] \in akUsed
  /\ akRevoked \/ \E k \in akActive : \A r \in Rotators : akStep[r] = "revoke" => akOld[r] # k

LEMMA KeysStep ==
  ASSUME SomeKeySafe, [BfNext \/ AkNext]_authVars
  PROVE  SomeKeySafe'
<1> USE AuthAssumption DEF SomeKeySafe, AkGo
<1>1. CASE UNCHANGED akVars
  BY <1>1 DEF akVars
<1>2. CASE BfNext
  BY <1>1, <1>2 DEF BfNext, Check, AttemptSucceeds, AttemptFails, DelAttempts, DelLockout,
                    ResetFails, CountFailure, Lockout, CountFails, LockoutFails, GuardDies,
                    WindowEnds, LockoutEnds
<1>3. ASSUME NEW r \in Rotators, NEW k \in ApiKeys, FindKey(r, k) PROVE SomeKeySafe'
  BY <1>3 DEF FindKey
<1>4. ASSUME NEW r \in Rotators, NEW k \in ApiKeys, InsertKey(r, k) PROVE SomeKeySafe'
  \* nobody found a key that did not exist
  <2>1. \A q \in Rotators : akStep'[q] = "revoke" => akOld'[q] # k
    BY <1>4 DEF InsertKey
  <2> QED BY <1>4, <2>1 DEF InsertKey
<1>5. ASSUME NEW r \in Rotators, RevokeOld(r) PROVE SomeKeySafe'
  BY <1>5 DEF RevokeOld
<1>6. ASSUME NEW r \in Rotators, RotateFails(r) PROVE SomeKeySafe'
  BY <1>6 DEF RotateFails
<1>7. ASSUME NEW k \in ApiKeys, RevokeKey(k) PROVE SomeKeySafe'
  BY <1>7 DEF RevokeKey
<1>8. UNCHANGED authVars => UNCHANGED akVars
  BY DEF authVars
<1> QED BY <1>1, <1>2, <1>3, <1>4, <1>5, <1>6, <1>7, <1>8 DEF AkNext

\* Rotations leave a key that works, for any number of them, at once, failing
\* or dying between their statements; only a revocation can end that.
THEOREM RotationKeepsAKeyHolds == AuthSpec => []RotationKeepsAKey
<1>1. AuthInit => SomeKeySafe
  BY AuthAssumption DEF AuthInit, SomeKeySafe
<1>2. SomeKeySafe /\ [BfNext \/ AkNext]_authVars => SomeKeySafe'
  BY KeysStep
<1>3. SomeKeySafe => RotationKeepsAKey
  BY DEF SomeKeySafe, RotationKeepsAKey
<1> QED BY <1>1, <1>2, <1>3, PTL DEF AuthSpec

-----------------------------------------------------------------------------
(* The brute-force guard.  Every failure since the counter was cleared is   *)
(* counted, about to be (Counting) or lost, its recording having failed or  *)
(* died (bfLost); once the counter is full, a guard that                    *)
(* is not yet under way fails once more at most before it is itself at the  *)
(* lock (Beyond: counting or there); and under the lock only those that were *)
(* let in before it (Trying) can still fail.                                *)

CountAt(step, steps) == Cardinality({g \in Guessers : step[g] \in steps})
Counting(step) == CountAt(step, {"incr"})
Beyond(step) == CountAt(step, {"incr", "lock"})
Trying(step) == CountAt(step, {"attempt", "delAttempts", "delLockout"})

GuessSteps == {"idle", "attempt", "delAttempts", "delLockout", "incr", "lock"}

GuessTypes ==
  /\ bfAttempts \in 0..BfMax /\ bfLocked \in BOOLEAN /\ bfFailed \in Nat /\ bfLost \in Nat
  /\ bfStep \in [Guessers -> GuessSteps]

\* The bound on failures, by how many recordings were lost and how many guards
\* are Counting, Beyond and Trying.
Bounded(attempts, locked, failed, lost, pending, beyond, trying) ==
  /\ attempts < BfMax => failed <= attempts + pending + lost
  /\ attempts = BfMax /\ ~locked => failed < BfMax + beyond + lost
  /\ attempts = BfMax /\ locked => failed + trying < BfMax + Cardinality(Guessers) + lost

FailuresCounted ==
  Bounded(bfAttempts, bfLocked, bfFailed, bfLost, Counting(bfStep), Beyond(bfStep), Trying(bfStep))

GuessInv == GuessTypes /\ FailuresCounted

\* What the move of one guard does to n, the number of those at some steps.
Moves(from, to, steps, n, m) ==
  /\ to \in steps /\ from \notin steps => m = n + 1
  /\ to \notin steps /\ from \in steps => m = n - 1
  /\ (to \in steps <=> from \in steps) => m = n

\* How many guessers are at some steps, when one of them moves.
LEMMA CountMoved ==
  ASSUME NEW step \in [Guessers -> GuessSteps], NEW g \in Guessers, NEW to \in GuessSteps,
         NEW moved, moved = [step EXCEPT ![g] = to]
  PROVE  \A steps : Moves(step[g], to, steps, CountAt(step, steps), CountAt(moved, steps))
<1> TAKE steps
<1> DEFINE A == {h \in Guessers : step[h] \in steps}
           B == {h \in Guessers : moved[h] \in steps}
<1>1. IsFiniteSet(A) /\ Cardinality(A) \in Nat
  BY AuthAssumption, FS_Subset, FS_CardinalityType
<1>2. CountAt(step, steps) = Cardinality(A) /\ CountAt(moved, steps) = Cardinality(B)
  BY DEF CountAt
<1>3. B = IF to \in steps THEN A \cup {g} ELSE A \ {g}
  OBVIOUS
<1>4. Cardinality(A \cup {g}) = IF g \in A THEN Cardinality(A) ELSE Cardinality(A) + 1
  BY <1>1, FS_AddElement
<1>5. Cardinality(A \ {g}) = IF g \in A THEN Cardinality(A) - 1 ELSE Cardinality(A)
  BY <1>1, FS_RemoveElement
<1>6. g \in A <=> step[g] \in steps
  OBVIOUS
<1> HIDE DEF A, B
<1> QED BY <1>1, <1>2, <1>3, <1>4, <1>5, <1>6 DEF Moves

LEMMA CountsFit ==
  ASSUME NEW step \in [Guessers -> GuessSteps]
  PROVE  /\ Counting(step) \in Nat /\ Beyond(step) \in Nat /\ Trying(step) \in Nat
         /\ Cardinality(Guessers) \in Nat
         /\ Counting(step) <= Beyond(step) /\ Beyond(step) + Trying(step) <= Cardinality(Guessers)
<1> DEFINE At(steps) == {g \in Guessers : step[g] \in steps}
           P == At({"incr"})
           B == At({"incr", "lock"})
           T == At({"attempt", "delAttempts", "delLockout"})
<1>1. IsFiniteSet(Guessers) /\ IsFiniteSet(P) /\ IsFiniteSet(B) /\ IsFiniteSet(T) /\ IsFiniteSet(B \cup T)
  BY AuthAssumption, FS_Subset, B \cup T \subseteq Guessers
<1>2. /\ Cardinality(Guessers) \in Nat /\ Cardinality(P) \in Nat
      /\ Cardinality(B) \in Nat /\ Cardinality(T) \in Nat
  BY <1>1, FS_CardinalityType
<1>3. Cardinality(P) <= Cardinality(B)
  BY <1>1, P \subseteq B, FS_Subset
<1>4. Cardinality(B) + Cardinality(T) <= Cardinality(Guessers)
  <2>1. Cardinality(B \cup T) = Cardinality(B) + Cardinality(T) - Cardinality(B \cap T)
    BY <1>1, FS_Union
  <2>2. B \cap T = {}
    OBVIOUS
  <2>3. Cardinality(B \cap T) = 0
    BY <2>2, FS_EmptySet
  <2>4. Cardinality(B \cup T) <= Cardinality(Guessers)
    BY <1>1, FS_Subset, B \cup T \subseteq Guessers
  <2> HIDE DEF B, T
  <2> QED BY <1>2, <2>1, <2>3, <2>4
<1> QED BY <1>2, <1>3, <1>4 DEF Counting, Beyond, Trying, CountAt

LEMMA GuessStep ==
  ASSUME GuessInv, [BfNext \/ AkNext]_authVars
  PROVE  GuessInv'
<1> DEFINE Kept(step) ==
             /\ step \in [Guessers -> GuessSteps]
             /\ bfAttempts' \in 0..BfMax /\ bfLocked' \in BOOLEAN /\ bfFailed' \in Nat /\ bfLost' \in Nat
             /\ Bounded(bfAttempts', bfLocked', bfFailed', bfLost', Counting(step), Beyond(step), Trying(step))
<1>1. PICK before, after : before = bfStep /\ after = bfStep'
  OBVIOUS
<1>2. SUFFICES Kept(after)
  BY <1>1 DEF GuessInv, GuessTypes, FailuresCounted, Counting, Beyond, Trying, CountAt
<1>3. /\ before \in [Guessers -> GuessSteps]
      /\ bfAttempts \in 0..BfMax /\ bfLocked \in BOOLEAN /\ bfFailed \in Nat /\ bfLost \in Nat
      /\ BfMax \in Nat \ {0}
      /\ Bounded(bfAttempts, bfLocked, bfFailed, bfLost, Counting(before), Beyond(before), Trying(before))
  BY <1>1, AuthAssumption DEF GuessInv, GuessTypes, FailuresCounted
<1>4. PICK p, b, t : p = Counting(before) /\ b = Beyond(before) /\ t = Trying(before)
  OBVIOUS
<1>5. PICK q, c, u : q = Counting(after) /\ c = Beyond(after) /\ u = Trying(after)
  OBVIOUS
<1> DEFINE Fits(x, y, z) == x \in Nat /\ y \in Nat /\ z \in Nat /\ x <= y /\ y + z <= Cardinality(Guessers)
           Least == Bounded(bfAttempts, bfLocked, bfFailed, bfLost, p, b, t)
           KeptBound == /\ bfAttempts' \in 0..BfMax /\ bfLocked' \in BOOLEAN
                        /\ bfFailed' \in Nat /\ bfLost' \in Nat
                        /\ Bounded(bfAttempts', bfLocked', bfFailed', bfLost', q, c, u)
<1>6. Least /\ Fits(p, b, t) /\ Cardinality(Guessers) \in Nat
  BY <1>3, <1>4, CountsFit
<1>7. ASSUME NEW g \in Guessers, NEW to \in GuessSteps, BfGo(g, to)
      PROVE  /\ after \in [Guessers -> GuessSteps] /\ Fits(q, c, u)
             /\ Moves(bfStep[g], to, {"incr"}, p, q)
             /\ Moves(bfStep[g], to, {"incr", "lock"}, b, c)
             /\ Moves(bfStep[g], to, {"attempt", "delAttempts", "delLockout"}, t, u)
  <2>1. after = [before EXCEPT ![g] = to] /\ before[g] = bfStep[g]
    BY <1>1, <1>7 DEF BfGo
  <2>2. after \in [Guessers -> GuessSteps]
    BY <1>3, <2>1
  <2>3. Fits(q, c, u)
    BY <1>5, <2>2, CountsFit
  <2>4. \A steps : Moves(before[g], to, steps, CountAt(before, steps), CountAt(after, steps))
    BY <1>3, <2>1, CountMoved
  <2> HIDE DEF Fits
  <2> QED BY <1>4, <1>5, <2>1, <2>2, <2>3, <2>4 DEF Counting, Beyond, Trying
<1>8. SUFFICES after \in [Guessers -> GuessSteps] /\ KeptBound
  BY <1>5
<1> USE DEF GuessSteps, Bounded, Moves
<1>9. ASSUME NEW g \in Guessers, Check(g) PROVE after \in [Guessers -> GuessSteps] /\ KeptBound
  BY <1>3, <1>6, <1>7, <1>9 DEF Check
<1>10. ASSUME NEW g \in Guessers, AttemptSucceeds(g) PROVE after \in [Guessers -> GuessSteps] /\ KeptBound
  BY <1>3, <1>6, <1>7, <1>10 DEF AttemptSucceeds
<1>11. ASSUME NEW g \in Guessers, AttemptFails(g) PROVE after \in [Guessers -> GuessSteps] /\ KeptBound
  BY <1>3, <1>6, <1>7, <1>11 DEF AttemptFails
<1>12. ASSUME NEW g \in Guessers, DelAttempts(g) PROVE after \in [Guessers -> GuessSteps] /\ KeptBound
  BY <1>3, <1>6, <1>7, <1>12 DEF DelAttempts, Cleared
<1>13. ASSUME NEW g \in Guessers, DelLockout(g) PROVE after \in [Guessers -> GuessSteps] /\ KeptBound
  <2>1. after \in [Guessers -> GuessSteps] /\ Fits(q, c, u)
    BY <1>7, <1>13 DEF DelLockout
  <2>2. bfLocked' = FALSE /\ bfFailed' = 0 /\ bfLost' = 0 /\ bfAttempts' = bfAttempts
    BY <1>13 DEF DelLockout, Cleared
  <2>3. /\ bfAttempts' < BfMax => bfFailed' <= bfAttempts' + q + bfLost'
        /\ bfFailed' < BfMax + c + bfLost'
    BY <1>3, <2>1, <2>2
  <2>4. bfAttempts' \in 0..BfMax /\ bfFailed' \in Nat /\ bfLost' \in Nat
    BY <1>3, <2>2
  <2> QED BY <2>1, <2>2, <2>3, <2>4
<1>14. ASSUME NEW g \in Guessers, CountFailure(g) PROVE after \in [Guessers -> GuessSteps] /\ KeptBound
  BY <1>3, <1>6, <1>7, <1>14 DEF CountFailure, OneMore
<1>15. ASSUME NEW g \in Guessers, Lockout(g) PROVE after \in [Guessers -> GuessSteps] /\ KeptBound
  BY <1>3, <1>6, <1>7, <1>15 DEF Lockout
<1>16. ASSUME bfStep' = bfStep, bfAttempts' = 0 \/ bfLocked' = FALSE, Cleared,
              bfAttempts' \in 0..BfMax, bfLocked' \in BOOLEAN
       PROVE  after \in [Guessers -> GuessSteps] /\ KeptBound
  BY <1>1, <1>3, <1>4, <1>5, <1>6, <1>16 DEF Cleared
<1>17. UNCHANGED bfVars => after \in [Guessers -> GuessSteps] /\ KeptBound
  BY <1>1, <1>3, <1>4, <1>5, <1>6 DEF bfVars
<1>18. AkNext \/ UNCHANGED authVars => UNCHANGED bfVars
  BY DEF AkNext, FindKey, InsertKey, RevokeOld, RotateFails, RevokeKey, authVars
<1>19. WindowEnds \/ LockoutEnds => after \in [Guessers -> GuessSteps] /\ KeptBound
  <2>1. WindowEnds => after \in [Guessers -> GuessSteps] /\ KeptBound
    BY <1>3, <1>16 DEF WindowEnds
  <2>2. LockoutEnds => after \in [Guessers -> GuessSteps] /\ KeptBound
    BY <1>3, <1>16 DEF LockoutEnds
  <2> QED BY <2>1, <2>2
<1>20. ASSUME NEW g \in Guessers, ResetFails(g) PROVE after \in [Guessers -> GuessSteps] /\ KeptBound
  <2>1. /\ after \in [Guessers -> GuessSteps] /\ Fits(q, c, u) /\ q = p + 1 /\ c = b + 1 /\ u = t - 1
    BY <1>6, <1>7, <1>20 DEF ResetFails
  <2>2. \/ bfFailed' = bfFailed + 1 /\ UNCHANGED <<bfAttempts, bfLocked, bfLost>>
        \/ bfAttempts' = 0 /\ bfFailed' = 1 /\ bfLost' = 0 /\ UNCHANGED bfLocked
        \/ bfLocked' = FALSE /\ bfFailed' = 1 /\ bfLost' = 0 /\ UNCHANGED bfAttempts
    BY <1>20 DEF ResetFails
  <2>3. CASE bfFailed' = bfFailed + 1 /\ UNCHANGED <<bfAttempts, bfLocked, bfLost>>
    BY <1>3, <1>6, <2>1, <2>3
  <2>4. CASE bfAttempts' = 0 /\ bfFailed' = 1 /\ bfLost' = 0 /\ UNCHANGED bfLocked
    <3>1. bfAttempts' < BfMax /\ bfFailed' <= bfAttempts' + q + bfLost'
      BY <1>3, <1>6, <2>1, <2>4
    <3>2. bfAttempts' \in 0..BfMax /\ bfFailed' \in Nat /\ bfLost' \in Nat
      BY <1>3, <2>4
    <3>3. bfLocked' \in BOOLEAN
      BY <1>3, <2>4
    <3>4. bfAttempts' # BfMax
      BY <1>3, <3>1, <3>2
    <3> HIDE DEF Fits
    <3> QED BY <2>1, <3>1, <3>2, <3>3, <3>4
  <2>5. CASE bfLocked' = FALSE /\ bfFailed' = 1 /\ bfLost' = 0 /\ UNCHANGED bfAttempts
    <3>1. bfFailed' <= bfAttempts' + q + bfLost' /\ bfFailed' < BfMax + c + bfLost'
      BY <1>3, <1>6, <2>1, <2>5
    <3>2. bfAttempts' \in 0..BfMax /\ bfFailed' \in Nat /\ bfLost' \in Nat
      BY <1>3, <2>5
    <3>3. bfLocked' = FALSE
      BY <2>5
    <3> HIDE DEF Fits
    <3> QED BY <2>1, <3>1, <3>2, <3>3
  <2> QED BY <2>2, <2>3, <2>4, <2>5
<1>21. ASSUME NEW g \in Guessers, CountFails(g) PROVE after \in [Guessers -> GuessSteps] /\ KeptBound
  <2>1. /\ after \in [Guessers -> GuessSteps] /\ Fits(q, c, u) /\ q = p - 1 /\ c = b - 1 /\ u = t
    BY <1>6, <1>7, <1>21 DEF CountFails
  <2>2. /\ bfAttempts' = bfAttempts \/ bfAttempts' = OneMore
        /\ bfLost' = bfLost + 1 /\ UNCHANGED <<bfLocked, bfFailed>>
    BY <1>21 DEF CountFails, Loses
  <2> QED BY <1>3, <1>6, <2>1, <2>2 DEF OneMore
<1>22. ASSUME NEW g \in Guessers, LockoutFails(g) PROVE after \in [Guessers -> GuessSteps] /\ KeptBound
  <2>1. /\ after \in [Guessers -> GuessSteps] /\ Fits(q, c, u) /\ q = p /\ c = b - 1 /\ u = t
    BY <1>6, <1>7, <1>22 DEF LockoutFails
  <2>2. /\ bfLocked' = bfLocked \/ bfLocked' = TRUE
        /\ bfLost' = bfLost + 1 /\ UNCHANGED <<bfAttempts, bfFailed>>
    BY <1>22 DEF LockoutFails, Loses
  <2>3. CASE bfLocked' = bfLocked
    BY <1>3, <1>6, <2>1, <2>2, <2>3
  <2>4. CASE bfLocked' = TRUE
    BY <1>3, <1>6, <2>1, <2>2, <2>4
  <2> QED BY <2>2, <2>3, <2>4
<1>23. ASSUME NEW g \in Guessers, GuardDies(g) PROVE after \in [Guessers -> GuessSteps] /\ KeptBound
  BY <1>3, <1>6, <1>7, <1>23 DEF GuardDies
<1> QED BY <1>9, <1>10, <1>11, <1>12, <1>13, <1>14, <1>15, <1>17, <1>18, <1>19,
             <1>20, <1>21, <1>22, <1>23 DEF BfNext

\* While a window and a lock last, at most maxAttempts failures, those under way
\* when the counter filled, and one for each recording that failed or died: for any
\* maxAttempts, guessers and number of lost recordings, however failures,
\* successes and resets interleave.
THEOREM GuessesBoundedHolds == AuthSpec => []GuessesBounded
<1>1. AuthInit => GuessInv
  <2> SUFFICES ASSUME AuthInit PROVE GuessInv
    OBVIOUS
  <2>1. bfAttempts < BfMax /\ bfFailed = 0 /\ bfLost = 0 /\ bfAttempts = 0 /\ bfAttempts \in 0..BfMax
    BY AuthAssumption DEF AuthInit
  <2>2. bfLocked \in BOOLEAN /\ bfStep \in [Guessers -> GuessSteps]
    BY DEF AuthInit, GuessSteps
  <2>3. GuessTypes
    BY <2>1, <2>2 DEF GuessTypes
  <2>4. Counting(bfStep) \in Nat
    BY <2>2, CountsFit
  <2> QED BY <2>1, <2>3, <2>4, AuthAssumption DEF GuessInv, FailuresCounted, Bounded
<1>2. GuessInv /\ [BfNext \/ AkNext]_authVars => GuessInv'
  BY GuessStep
<1>3. GuessInv => GuessesBounded
  <2> SUFFICES ASSUME GuessInv PROVE GuessesBounded
    OBVIOUS
  <2>1. /\ Counting(bfStep) \in Nat /\ Beyond(bfStep) \in Nat /\ Trying(bfStep) \in Nat
        /\ Cardinality(Guessers) \in Nat
        /\ Counting(bfStep) <= Beyond(bfStep) /\ Beyond(bfStep) + Trying(bfStep) <= Cardinality(Guessers)
    BY CountsFit DEF GuessInv, GuessTypes
  <2> QED BY <2>1, AuthAssumption DEF GuessInv, GuessTypes, FailuresCounted, Bounded, GuessesBounded
<1> QED BY <1>1, <1>2, <1>3, PTL DEF AuthSpec

-----------------------------------------------------------------------------
(* Connections.  The limit is kept by counting more than it asks for: those *)
(* a live instance serves, and those whose ADD came back within the limit   *)
(* and who are therefore to be served.  All of them have a fresh entry, so  *)
(* the next ADD counts them.                                                *)

Counted ==
  {c \in Conns : \/ rtStep[c] = "added" /\ rtCount[c] <= MaxConnections
                 \/ Registered(c) /\ rtAt[c] \in rtUp}

PresenceTypes ==
  /\ rtAt \in [Conns -> RtInstances \cup {NoInstance}]
  /\ rtStep \in [Conns -> {"new", "added", "refused", "registered", "open", "leaving", "gone"}]
  /\ rtCount \in [Conns -> Nat]
  /\ rtEntry \in [Conns -> {"none", "fresh", "expired"}]
  /\ rtSocket \subseteq Conns /\ rtTouched \in BOOLEAN

CountedFresh == rtTouched => \A c \in Counted : rtEntry[c] = "fresh"
CountedWithin == rtTouched => Cardinality(Counted) <= MaxConnections

PresenceInv == PresenceTypes /\ CountedFresh /\ CountedWithin

LEMMA ConnSets ==
  /\ Cardinality(Conns) \in Nat
  /\ \A S \in SUBSET Conns : IsFiniteSet(S) /\ Cardinality(S) \in Nat
  /\ \A S \in SUBSET Conns : \A T \in SUBSET S : Cardinality(T) <= Cardinality(S)
<1>1. IsFiniteSet(Conns)
  BY PresenceAssumption
<1>2. \A S \in SUBSET Conns : IsFiniteSet(S) /\ Cardinality(S) \in Nat
  BY <1>1, FS_Subset, FS_CardinalityType
<1> QED BY <1>1, <1>2, FS_Subset, FS_CardinalityType

\* A step that counts no one new and leaves the entries of the counted fresh.
LEMMA FewerCounted ==
  ASSUME PresenceInv, PresenceTypes', rtTouched' = rtTouched,
         Counted' \subseteq Counted,
         rtTouched => \A c \in Counted' : rtEntry[c] = "fresh" => rtEntry'[c] = "fresh"
  PROVE  PresenceInv'
<1>1. PICK before, after : before = Counted /\ after = Counted'
  OBVIOUS
<1>2. after \subseteq before /\ before \subseteq Conns
  BY <1>1 DEF Counted
<1>3. Cardinality(after) <= Cardinality(before) /\ Cardinality(after) \in Nat /\ Cardinality(before) \in Nat
  BY <1>2, ConnSets
<1>4. rtTouched => Cardinality(before) <= MaxConnections /\ \A c \in before : rtEntry[c] = "fresh"
  BY <1>1 DEF PresenceInv, CountedFresh, CountedWithin
<1>5. rtTouched => Cardinality(after) <= MaxConnections
  BY <1>3, <1>4, PresenceAssumption
<1>6. CountedWithin'
  BY <1>1, <1>5 DEF CountedWithin, Counted
<1>7. CountedFresh'
  BY <1>1, <1>2, <1>4 DEF CountedFresh, Counted
<1> QED BY <1>6, <1>7 DEF PresenceInv

\* ADD counts every fresh entry, the new one too.
LEMMA ConnectStep ==
  ASSUME PresenceInv, NEW c \in Conns, NEW i \in RtInstances, RtConnect(c, i)
  PROVE  PresenceInv'
<1>1. PICK fresh : fresh = {d \in Conns : rtEntry'[d] = "fresh"}
  OBVIOUS
<1>2. fresh \subseteq Conns /\ Cardinality(fresh) \in Nat
  BY <1>1, ConnSets
<1>3. /\ rtCount' = [rtCount EXCEPT ![c] = Cardinality(fresh)]
      /\ rtStep' = [rtStep EXCEPT ![c] = "added"] /\ rtAt' = [rtAt EXCEPT ![c] = i]
      /\ rtSocket' = rtSocket \cup {c} /\ rtUp' = rtUp /\ rtTouched' = rtTouched
      /\ rtEntry' = [d \in Conns |-> IF d = c THEN "fresh"
                                    ELSE IF rtEntry[d] = "expired" THEN "none" ELSE rtEntry[d]]
  BY <1>1 DEF RtConnect, PresenceAdd, RtGo
<1>4. PresenceTypes'
  BY <1>2, <1>3 DEF PresenceInv, PresenceTypes
<1>5. rtTouched => \A d \in Counted : rtEntry'[d] = "fresh"
  BY <1>3 DEF PresenceInv, PresenceTypes, CountedFresh, Counted
<1>6. Counted' \subseteq Counted \cup {c}
  BY <1>3 DEF Counted, Registered, PresenceInv, PresenceTypes
<1>7. CASE Cardinality(fresh) <= MaxConnections
  <2>1. PICK after : after = Counted'
    OBVIOUS
  <2>2. rtTouched => after \subseteq fresh
    BY <1>1, <1>3, <1>5, <1>6, <2>1 DEF Counted
  <2>3. rtTouched => Cardinality(after) <= MaxConnections
    <3>1. rtTouched => Cardinality(after) <= Cardinality(fresh) /\ Cardinality(after) \in Nat
      BY <1>2, <2>2, ConnSets
    <3> QED BY <1>2, <1>7, <3>1, PresenceAssumption
  <2>4. CountedWithin'
    BY <1>3, <2>1, <2>3 DEF CountedWithin, Counted
  <2>5. CountedFresh'
    BY <1>1, <1>3, <2>1, <2>2 DEF CountedFresh, Counted
  <2> QED BY <1>4, <2>4, <2>5 DEF PresenceInv
<1>8. CASE ~(Cardinality(fresh) <= MaxConnections)
  <2>1. rtCount'[c] = Cardinality(fresh) /\ rtStep'[c] = "added"
    BY <1>3 DEF PresenceInv, PresenceTypes
  <2>2. c \notin Counted'
    BY <1>8, <2>1 DEF Counted, Registered
  <2>3. Counted' \subseteq Counted
    BY <1>6, <2>2
  <2>4. rtTouched => \A d \in Counted' : rtEntry[d] = "fresh" => rtEntry'[d] = "fresh"
    BY <1>5, <2>3
  <2> QED BY <1>3, <1>4, <2>3, <2>4, FewerCounted
<1> QED BY <1>7, <1>8

LEMMA ServerStep ==
  ASSUME PresenceInv, NEW c \in Conns,
         RtServerStep(c) \/ SocketCloses(c) \/ RtPong(c) \/ EntryExpires(c)
  PROVE  PresenceInv'
<1> USE DEF RtGo
<1>1. CASE RtDecide(c)
  <2>1. PresenceTypes' /\ rtTouched' = rtTouched /\ rtEntry' = rtEntry
    BY <1>1 DEF RtDecide, PresenceInv, PresenceTypes
  <2>2. Counted' \subseteq Counted
    BY <1>1, PresenceAssumption DEF RtDecide, PresenceInv, PresenceTypes, Counted, Registered
  <2> QED BY <2>1, <2>2, FewerCounted
<1>2. CASE RtListen(c)
  <2>1. PresenceTypes' /\ rtTouched' = rtTouched /\ rtEntry' = rtEntry
    BY <1>2 DEF RtListen, PresenceInv, PresenceTypes
  <2>2. Counted' \subseteq Counted
    BY <1>2 DEF RtListen, PresenceInv, PresenceTypes, Counted, Registered
  <2> QED BY <2>1, <2>2, FewerCounted
<1>3. CASE RtRemove(c)
  <2>1. PresenceTypes' /\ rtTouched' = rtTouched
    BY <1>3 DEF RtRemove, PresenceInv, PresenceTypes
  <2>2. Counted' \subseteq Counted \ {c}
    BY <1>3 DEF RtRemove, PresenceInv, PresenceTypes, Counted, Registered
  <2>3. \A d \in Conns \ {c} : rtEntry'[d] = rtEntry[d]
    BY <1>3 DEF RtRemove, PresenceInv, PresenceTypes
  <2>4. Counted' \subseteq Conns
    BY DEF Counted
  <2> QED BY <2>1, <2>2, <2>3, <2>4, FewerCounted
<1>4. CASE Beat(c)
  <2>1. PresenceTypes' /\ rtTouched' = rtTouched
    BY <1>4 DEF Beat, PresenceTouch, PresenceInv, PresenceTypes
  <2>2. Counted' \subseteq Counted
    BY <1>4 DEF Beat, Counted, Registered
  <2>3. \A d \in Conns : rtEntry[d] = "fresh" => rtEntry'[d] = "fresh"
    BY <1>4 DEF Beat, PresenceTouch, PresenceInv, PresenceTypes
  <2>4. Counted' \subseteq Conns
    BY DEF Counted
  <2> QED BY <2>1, <2>2, <2>3, <2>4, FewerCounted
<1>5. CASE BeatMissed(c)
  <2>1. PresenceTypes' /\ rtTouched' = rtTouched /\ rtEntry' = rtEntry
    BY <1>5 DEF BeatMissed, PresenceInv, PresenceTypes
  <2>2. Counted' \subseteq Counted
    BY <1>5 DEF BeatMissed, PresenceInv, PresenceTypes, Counted, Registered
  <2> QED BY <2>1, <2>2, FewerCounted
<1>6. CASE SocketCloses(c)
  <2>1. PresenceTypes' /\ rtTouched' = rtTouched /\ rtEntry' = rtEntry
    BY <1>6 DEF SocketCloses, PresenceInv, PresenceTypes
  <2>2. Counted' \subseteq Counted
    BY <1>6 DEF SocketCloses, PresenceInv, PresenceTypes, Counted, Registered
  <2> QED BY <2>1, <2>2, FewerCounted
<1>7. CASE RtPong(c)
  <2>1. PresenceTypes' /\ rtTouched' = rtTouched /\ rtEntry' = rtEntry
    BY <1>7 DEF RtPong, PresenceInv, PresenceTypes
  <2>2. Counted' \subseteq Counted
    BY <1>7 DEF RtPong, Counted, Registered
  <2> QED BY <2>1, <2>2, FewerCounted
<1>8. CASE EntryExpires(c)
  <2>1. PresenceTypes' /\ rtTouched' = rtTouched
    BY <1>8 DEF EntryExpires, PresenceInv, PresenceTypes
  <2>2. Counted' \subseteq Counted
    BY <1>8 DEF EntryExpires, Counted, Registered
  <2>3. rtTouched => c \notin Counted
    BY <1>8 DEF EntryExpires, Counted
  <2>4. \A d \in Conns \ {c} : rtEntry'[d] = rtEntry[d]
    BY <1>8 DEF EntryExpires, PresenceInv, PresenceTypes
  <2>5. Counted' \subseteq Conns
    BY DEF Counted
  <2> QED BY <2>1, <2>2, <2>3, <2>4, <2>5, FewerCounted
<1> QED BY <1>1, <1>2, <1>3, <1>4, <1>5, <1>6, <1>7, <1>8 DEF RtServerStep

LEMMA PresenceStep ==
  ASSUME PresenceInv, [RtNext]_rtVars
  PROVE  PresenceInv'
<1>1. ASSUME NEW i \in RtInstances, RtShutdown(i) PROVE PresenceInv'
  <2>1. PresenceTypes' /\ rtTouched' = rtTouched /\ rtEntry' = rtEntry
    BY <1>1 DEF RtShutdown, PresenceInv, PresenceTypes
  <2>2. Counted' \subseteq Counted
    BY <1>1 DEF RtShutdown, PresenceInv, PresenceTypes, Counted, Registered
  <2> QED BY <2>1, <2>2, FewerCounted
<1>2. ASSUME NEW i \in RtInstances, RtCrash(i) PROVE PresenceInv'
  <2>1. PresenceTypes' /\ rtTouched' = rtTouched /\ rtEntry' = rtEntry
    BY <1>2 DEF RtCrash, PresenceInv, PresenceTypes
  <2>2. Counted' \subseteq Counted
    BY <1>2 DEF RtCrash, PresenceInv, PresenceTypes, Counted, Registered
  <2> QED BY <2>1, <2>2, FewerCounted
<1>3. CASE UNCHANGED rtVars
  <2>1. PresenceTypes' /\ rtTouched' = rtTouched /\ rtEntry' = rtEntry /\ Counted' = Counted
    BY <1>3 DEF rtVars, PresenceInv, PresenceTypes, Counted, Registered
  <2> QED BY <2>1, FewerCounted
<1> QED BY <1>1, <1>2, <1>3, ConnectStep, ServerStep DEF RtNext

\* The instances that are up serve at most maxConnectionsPerUser connections of
\* a user: for any limit and any number of instances and connections, however
\* connects, departures, shutdowns, crashes and expiries interleave.
THEOREM ConnectionLimitHolds == RtSpec => []ConnectionLimit
<1>1. RtInit => PresenceInv
  <2> SUFFICES ASSUME RtInit PROVE PresenceInv
    OBVIOUS
  <2>1. PresenceTypes
    BY DEF RtInit, PresenceTypes
  <2>2. Counted = {}
    BY DEF RtInit, Counted, Registered
  <2>3. Cardinality(Counted) = 0
    BY <2>2, FS_EmptySet
  <2> QED BY <2>1, <2>2, <2>3, PresenceAssumption DEF PresenceInv, CountedFresh, CountedWithin
<1>2. PresenceInv /\ [RtNext]_rtVars => PresenceInv'
  BY PresenceStep
<1>3. PresenceInv => ConnectionLimit
  <2> SUFFICES ASSUME PresenceInv, rtTouched
               PROVE  Cardinality({c \in Conns : Registered(c) /\ rtAt[c] \in rtUp}) <= MaxConnections
    BY DEF ConnectionLimit
  <2> DEFINE Served == {c \in Conns : Registered(c) /\ rtAt[c] \in rtUp}
  <2>1. Served \subseteq Counted /\ Counted \subseteq Conns
    BY DEF Counted
  <2>2. Cardinality(Served) <= Cardinality(Counted) /\ Cardinality(Served) \in Nat
        /\ Cardinality(Counted) \in Nat
    BY <2>1, ConnSets
  <2>3. Cardinality(Counted) <= MaxConnections
    BY DEF PresenceInv, CountedWithin
  <2> QED BY <2>2, <2>3, PresenceAssumption
<1> QED BY <1>1, <1>2, <1>3, PTL DEF RtSpec

-----------------------------------------------------------------------------
(* The audit chain.  The lock leaves one writer between its read and its    *)
(* insert; what it read is still the newest place taken, unless a retention *)
(* removed it, and then nothing is left.                                    *)

AuditTypes ==
  /\ auWritten \in Nat /\ auNow \in Nat
  /\ auRows \subseteq [id : Nat, prev : Nat, seq : Nat \ {0}, at : Nat]
  /\ IsFiniteSet(auRows)
  /\ auLast \in [AuWriters -> [id : Nat, seq : Nat]]
  /\ auPc \in [AuWriters -> {"idle", "locked", "read"}]
  /\ \A r \in auRows : r.seq <= auWritten
  /\ \A w \in AuWriters : auLast[w].seq <= auWritten

OneAuditWriter == \A w \in AuWriters : auPc[w] # "idle" => auLock = w

ReadNewest ==
  \A w \in AuWriters : auPc[w] = "read" =>
    \A r \in auRows : /\ r.seq <= auLast[w].seq
                      /\ r.seq = auLast[w].seq => r.id = auLast[w].id

ChainInv == AuditTypes /\ OneAuditWriter /\ ReadNewest /\ OneChain

\* Where the clocks agree, times follow the places of the chain, so a retention
\* takes the oldest: what is left has no gap, and reaches what a writer read.
TimesFollow ==
  /\ \A r \in auRows : r.at <= auNow
  /\ \A r, q \in auRows : r.seq <= q.seq => r.at <= q.at

NoGap ==
  \A r, q \in auRows : \A s \in r.seq..q.seq : \E x \in auRows : x.seq = s

ReadIsThere ==
  \A w \in AuWriters : auPc[w] = "read" /\ auRows # {} =>
    \E x \in auRows : x.seq = auLast[w].seq

\* The cursor of an undisturbed verification is at an entry that is there.
CursorIsThere ==
  auVerdict = "running" /\ auUndisturbed =>
    \/ auPrev = {} /\ auAfter = 0
    \/ \E x \in auRows : auPrev = {x.id} /\ auAfter = x.seq

VerifyInv ==
  auAgree => TimesFollow /\ NoGap /\ ReadIsThere /\ CursorIsThere
             /\ (auUndisturbed => auVerdict # "broken")

LEMMA LeastOfNats ==
  ASSUME NEW T \in SUBSET Nat, T # {}
  PROVE  \E n \in T : \A m \in T : n <= m
<1>1. IsWellFoundedOn(OpToRel(<, Nat), Nat)
  BY NatLessThanWellFounded
<1>2. PICK n \in T : \A m \in T : ~(<<m, n>> \in OpToRel(<, Nat))
  BY <1>1, WFMin
<1>3. \A m \in T : ~(m < n)
  BY <1>2 DEF OpToRel
<1> QED BY <1>3

\* Rows with bounded places have a newest one, which is what CHOOSE gives.
LEMMA NewestOf ==
  ASSUME NEW rows, rows # {}, rows \subseteq [id : Nat, prev : Nat, seq : Nat \ {0}, at : Nat],
         NEW n \in Nat, \A r \in rows : r.seq <= n
  PROVE  \E r \in rows : /\ (CHOOSE l \in Newest(rows) : TRUE) = [id |-> r.id, seq |-> r.seq]
                         /\ \A q \in rows : q.seq <= r.seq
<1> DEFINE Gaps == {n - r.seq : r \in rows}
<1>1. Gaps \in SUBSET Nat /\ Gaps # {}
  OBVIOUS
<1>2. PICK g \in Gaps : \A m \in Gaps : g <= m
  BY <1>1, LeastOfNats
<1>3. PICK r \in rows : g = n - r.seq
  OBVIOUS
<1>4. \A q \in rows : n - r.seq <= n - q.seq
  BY <1>2, <1>3
<1>5. \A q \in rows : q.seq <= r.seq
  BY <1>4
<1>6. [id |-> r.id, seq |-> r.seq] \in Newest(rows)
  BY <1>5 DEF Newest
<1>7. (CHOOSE l \in Newest(rows) : TRUE) \in Newest(rows)
  BY <1>6
<1> QED BY <1>7 DEF Newest

LEMMA ChainStep ==
  ASSUME ChainInv, [AuNext]_auVars
  PROVE  ChainInv'
<1> USE DEF ChainInv, AuditTypes, OneAuditWriter, ReadNewest, OneChain, verifyVars
<1>1. CASE Tick
  BY <1>1 DEF Tick
<1>2. ASSUME NEW w \in AuWriters, BeginWrite(w) PROVE ChainInv'
  BY <1>2, AuditAssumption DEF BeginWrite
<1>3. ASSUME NEW w \in AuWriters, ReadLast(w) PROVE ChainInv'
  <2> DEFINE last == IF auRows = {} THEN Start ELSE CHOOSE l \in Newest(auRows) : TRUE
  <2>1. /\ last \in [id : Nat, seq : Nat] /\ last.seq <= auWritten
        /\ \A r \in auRows : r.seq <= last.seq /\ (r.seq = last.seq => r.id = last.id)
    <3>1. CASE auRows = {}
      BY <3>1 DEF Start, Genesis
    <3>2. CASE auRows # {}
      <4>1. PICK r \in auRows : /\ last = [id |-> r.id, seq |-> r.seq]
                                /\ \A q \in auRows : q.seq <= r.seq
        BY <3>2, NewestOf
      <4>2. last.id = r.id /\ last.seq = r.seq /\ last \in [id : Nat, seq : Nat]
        BY <4>1
      <4>3. \A q \in auRows : q.seq = r.seq => q.id = r.id
        OBVIOUS
      <4> QED BY <4>1, <4>2, <4>3
    <3> QED BY <3>1, <3>2
  <2>2. auLast' = [auLast EXCEPT ![w] = last] /\ auPc' = [auPc EXCEPT ![w] = "read"]
        /\ auRows' = auRows /\ auWritten' = auWritten /\ auNow' = auNow /\ auLock' = auLock
        /\ auPc[w] = "locked"
    BY <1>3 DEF ReadLast
  <2> HIDE DEF last
  <2>3. AuditTypes' /\ OneChain'
    BY <2>1, <2>2
  <2>4. OneAuditWriter'
    BY <2>2
  <2>5. ReadNewest'
    BY <2>1, <2>2
  <2> QED BY <2>3, <2>4, <2>5
<1>4. ASSUME NEW w \in AuWriters, InsertAudit(w) PROVE ChainInv'
  <2>1. PICK at \in Nat : auRows' = auRows \cup {[id |-> auWritten + 1, prev |-> auLast[w].id,
                                                  seq |-> auLast[w].seq + 1, at |-> at]}
    BY <1>4, AuditAssumption DEF InsertAudit
  <2>2. /\ auPc[w] = "read" /\ auLock = w
        /\ auWritten' = auWritten + 1 /\ auNow' = auNow
        /\ auPc' = [auPc EXCEPT ![w] = "idle"] /\ auLast' = [auLast EXCEPT ![w] = Start]
        /\ auLock' = NoWriter
    BY <1>4 DEF InsertAudit, EndWrite
  <2>3. \A v \in AuWriters : v # w => auPc[v] = "idle"
    BY <2>2
  <2>4. \A v \in AuWriters : auPc'[v] = "idle"
    BY <2>2, <2>3
  <2>5. PICK n : n = [id |-> auWritten + 1, prev |-> auLast[w].id,
                      seq |-> auLast[w].seq + 1, at |-> at]
    OBVIOUS
  <2>6. /\ n \in [id : Nat, prev : Nat, seq : Nat \ {0}, at : Nat]
        /\ n.prev = auLast[w].id /\ n.seq = auLast[w].seq + 1 /\ n.seq <= auWritten + 1
    BY <2>5
  <2>7. \A r \in auRows : r.seq <= auLast[w].seq /\ (r.seq = auLast[w].seq => r.id = auLast[w].id)
    BY <2>2
  <2>8. auRows' = auRows \cup {n}
    BY <2>1, <2>5
  <2>9. OneChain'
    BY <2>6, <2>7, <2>8
  <2>10. AuditTypes'
    <3>1. IsFiniteSet(auRows')
      BY <2>8, FS_AddElement
    <3>2. \A r \in auRows' : r.seq <= auWritten'
      BY <2>2, <2>6, <2>8
    <3>3. auLast' \in [AuWriters -> [id : Nat, seq : Nat]] /\ \A v \in AuWriters : auLast'[v].seq <= auWritten'
      BY <2>2 DEF Start, Genesis
    <3> QED BY <2>2, <2>6, <2>8, <3>1, <3>2, <3>3
  <2> QED BY <2>4, <2>9, <2>10
<1>5. ASSUME NEW w \in AuWriters, WriteFails(w) PROVE ChainInv'
  <2>1. /\ auPc' = [auPc EXCEPT ![w] = "idle"] /\ auLast' = [auLast EXCEPT ![w] = Start]
        /\ auRows' = auRows /\ auWritten' = auWritten /\ auNow' = auNow
        /\ auLock = w
    BY <1>5 DEF WriteFails, EndWrite
  <2>2. \A v \in AuWriters : auPc'[v] = "idle"
    BY <2>1
  <2>3. AuditTypes' /\ OneChain'
    BY <2>1 DEF Start, Genesis
  <2> QED BY <2>2, <2>3
<1>6. ASSUME NEW cutoff \in Nat, Retain(cutoff) PROVE ChainInv'
  <2>1. /\ auRows' \subseteq auRows /\ UNCHANGED <<auWritten, auNow, auLock, auLast, auPc>>
    BY <1>6 DEF Retain
  <2>2. IsFiniteSet(auRows')
    BY <2>1, FS_Subset
  <2> QED BY <2>1, <2>2
<1>7. CASE VerifyStarts \/ VerifyPage \/ UNCHANGED auVars
  BY <1>7 DEF VerifyStarts, VerifyPage, auVars
<1> QED BY <1>1, <1>2, <1>3, <1>4, <1>5, <1>6, <1>7, AuditAssumption DEF AuNext

LEMMA ChainInvariant == AuSpec => []ChainInv
<1>1. AuInit => ChainInv
  BY FS_EmptySet DEF AuInit, ChainInv, AuditTypes, OneAuditWriter, ReadNewest, OneChain, Start, Genesis
<1> QED BY <1>1, ChainStep, PTL DEF AuSpec

\* The chain is never forked, by any number of writers on any instances, beside
\* a retention, with clocks that agree or not, whichever writes fail.
THEOREM OneChainHolds == AuSpec => []OneChain
<1>1. ChainInv => OneChain
  BY DEF ChainInv
<1> QED BY <1>1, ChainInvariant, PTL

\* A page leaves out no entry between the cursor and an entry it has.
LEMMA PageClosed ==
  ASSUME AuditTypes, NEW after \in Nat, NEW r \in PageAfter(after),
         NEW q \in auRows, after < q.seq, q.seq < r.seq
  PROVE  q \in PageAfter(after)
<1> DEFINE left == {x \in auRows : x.seq > after}
           Below(x) == {y \in left : y.seq < x.seq}
<1>1. r \in left /\ Cardinality(Below(r)) < PageSize /\ q \in left
  BY DEF PageAfter, AuditTypes
<1>2. Below(q) \subseteq Below(r)
  BY <1>1 DEF AuditTypes
<1>3. IsFiniteSet(Below(r))
  BY FS_Subset, Below(r) \subseteq auRows DEF AuditTypes
<1>4. /\ Cardinality(Below(q)) <= Cardinality(Below(r))
      /\ Cardinality(Below(r)) \in Nat /\ Cardinality(Below(q)) \in Nat
  BY <1>2, <1>3, FS_Subset, FS_CardinalityType
<1>5. Cardinality(Below(q)) < PageSize
  BY <1>1, <1>4, AuditAssumption
<1> QED BY <1>1, <1>5 DEF PageAfter

LEMMA HonestPageLinks ==
  ASSUME ChainInv, NoGap, CursorIsThere, auVerdict = "running", auUndisturbed
  PROVE  Linked(PageAfter(auAfter)) /\ auAfter \in Nat
<1> DEFINE page == PageAfter(auAfter)
<1>1. /\ auRows \subseteq [id : Nat, prev : Nat, seq : Nat \ {0}, at : Nat]
      /\ \A x, y \in auRows : y.seq = x.seq + 1 => y.prev = x.id
  BY DEF ChainInv, AuditTypes, OneChain
<1>2. \/ auPrev = {} /\ auAfter = 0
      \/ \E x \in auRows : auPrev = {x.id} /\ auAfter = x.seq
  BY DEF CursorIsThere
<1>3. auAfter \in Nat
  BY <1>1, <1>2
<1>4. \A x \in page : x \in auRows /\ x.seq > auAfter
  BY DEF PageAfter
<1>5. ASSUME NEW r \in page, NEW before, before = {q \in page : q.seq < r.seq}
      PROVE  IF before = {} THEN auPrev \subseteq {r.prev}
             ELSE \E q \in before : q.id = r.prev /\ \A p \in before : p.seq <= q.seq
  <2>1. r \in auRows /\ r.seq \in Nat /\ r.seq > auAfter
    BY <1>1, <1>4
  <2>2. \A q \in auRows : auAfter < q.seq /\ q.seq < r.seq => q \in before
    BY <1>3, <1>5, PageClosed DEF ChainInv
  <2>3. CASE before = {}
    <3>1. CASE auPrev = {}
      BY <2>3, <3>1
    <3>2. CASE auPrev # {}
      <4>1. PICK x \in auRows : auPrev = {x.id} /\ auAfter = x.seq
        BY <1>2, <3>2
      <4>2. x.seq + 1 \in x.seq..r.seq
        BY <1>1, <2>1, <4>1
      <4>3. PICK y \in auRows : y.seq = x.seq + 1
        BY <2>1, <4>2 DEF NoGap
      <4>4. ~(y.seq < r.seq)
        BY <1>1, <2>2, <2>3, <4>1, <4>3
      <4>5. r.seq = x.seq + 1
        BY <1>1, <2>1, <4>1, <4>3, <4>4
      <4> QED BY <1>1, <2>1, <2>3, <4>1, <4>5
    <3> QED BY <3>1, <3>2
  <2>4. CASE before # {}
    <3>1. PICK b \in before : TRUE
      BY <2>4
    <3>2. b \in auRows /\ b.seq \in Nat /\ b.seq < r.seq /\ b.seq > auAfter
      BY <1>1, <1>4, <1>5
    <3>3. r.seq - 1 \in b.seq..r.seq
      BY <2>1, <3>2
    <3>4. PICK q \in auRows : q.seq = r.seq - 1
      BY <2>1, <3>2, <3>3 DEF NoGap
    <3>5. auAfter < q.seq /\ q.seq < r.seq
      BY <1>3, <2>1, <3>2, <3>4
    <3>6. q \in before
      BY <2>2, <3>5
    <3>7. r.seq = q.seq + 1
      BY <2>1, <3>4
    <3>8. q.id = r.prev
      BY <1>1, <2>1, <3>7
    <3>9. \A p \in before : p.seq \in Nat /\ p.seq < r.seq
      BY <1>1, <1>4, <1>5
    <3>10. \A p \in before : p.seq <= q.seq
      BY <2>1, <3>4, <3>9
    <3> QED BY <2>4, <3>6, <3>8, <3>10
  <2> QED BY <2>3, <2>4
<1> HIDE DEF page
<1>6. Linked(page)
  BY <1>5 DEF Linked
<1> QED BY <1>3, <1>6 DEF page

\* The page after which the verification goes on leaves its cursor at an entry.
LEMMA CursorMoves ==
  ASSUME ChainInv, NEW after \in Nat, ~(Cardinality(PageAfter(after)) < PageSize)
  PROVE  \E x \in auRows : (CHOOSE l \in Newest(PageAfter(after)) : TRUE) = [id |-> x.id, seq |-> x.seq]
<1>1. PageAfter(after) \subseteq auRows
  BY DEF PageAfter
<1>2. PageAfter(after) # {}
  BY FS_EmptySet, AuditAssumption
<1>3. /\ PageAfter(after) \subseteq [id : Nat, prev : Nat, seq : Nat \ {0}, at : Nat]
      /\ auWritten \in Nat /\ \A r \in PageAfter(after) : r.seq <= auWritten
  BY <1>1 DEF ChainInv, AuditTypes
<1> QED BY <1>1, <1>2, <1>3, NewestOf

LEMMA VerifyStep ==
  ASSUME ChainInv, VerifyInv, [AuNext]_auVars
  PROVE  VerifyInv'
<1>1. SUFFICES ASSUME auAgree, auAgree'
               PROVE  (TimesFollow /\ NoGap /\ ReadIsThere /\ CursorIsThere
                       /\ (auUndisturbed => auVerdict # "broken"))'
  <2>1. auAgree' <=> auAgree
    BY DEF AuNext, Tick, BeginWrite, ReadLast, InsertAudit, WriteFails, Retain, VerifyStarts,
           VerifyPage, auVars
  <2> QED BY <2>1 DEF VerifyInv
<1>2. /\ TimesFollow /\ NoGap /\ ReadIsThere /\ CursorIsThere
      /\ auUndisturbed => auVerdict # "broken"
  BY <1>1 DEF VerifyInv
<1>3. /\ auRows \subseteq [id : Nat, prev : Nat, seq : Nat \ {0}, at : Nat]
      /\ auNow \in Nat /\ auWritten \in Nat
      /\ auLast \in [AuWriters -> [id : Nat, seq : Nat]]
      /\ auPc \in [AuWriters -> {"idle", "locked", "read"}]
      /\ \A r \in auRows : r.seq <= auWritten
  BY DEF ChainInv, AuditTypes
<1>4. UNCHANGED <<auRows, auNow>> => TimesFollow' /\ NoGap'
  BY <1>2 DEF TimesFollow, NoGap
<1>5. UNCHANGED <<auRows, auVerdict, auUndisturbed, auPrev, auAfter>> =>
        CursorIsThere' /\ (auUndisturbed => auVerdict # "broken")'
  BY <1>2 DEF CursorIsThere
<1>6. CASE Tick
  <2>1. /\ UNCHANGED <<auRows, auVerdict, auUndisturbed, auPrev, auAfter, auPc, auLast>>
        /\ auNow' = auNow + 1
    BY <1>6 DEF Tick, verifyVars
  <2>2. TimesFollow'
    BY <1>2, <1>3, <2>1 DEF TimesFollow
  <2>3. NoGap' /\ ReadIsThere'
    BY <1>2, <2>1 DEF NoGap, ReadIsThere
  <2> QED BY <1>5, <2>1, <2>2, <2>3
<1>7. ASSUME NEW w \in AuWriters, BeginWrite(w) \/ WriteFails(w)
      PROVE  (TimesFollow /\ NoGap /\ ReadIsThere /\ CursorIsThere
              /\ (auUndisturbed => auVerdict # "broken"))'
  <2>1. /\ UNCHANGED <<auRows, auNow, auVerdict, auUndisturbed, auPrev, auAfter>>
        /\ \E step \in {"locked", "idle"} : auPc' = [auPc EXCEPT ![w] = step]
        /\ \A v \in AuWriters : v # w => auLast'[v] = auLast[v]
    BY <1>3, <1>7 DEF BeginWrite, WriteFails, EndWrite, verifyVars
  <2>2. ReadIsThere'
    BY <1>2, <1>3, <2>1 DEF ReadIsThere
  <2> QED BY <1>4, <1>5, <2>1, <2>2
<1>8. ASSUME NEW w \in AuWriters, ReadLast(w)
      PROVE  (TimesFollow /\ NoGap /\ ReadIsThere /\ CursorIsThere
              /\ (auUndisturbed => auVerdict # "broken"))'
  <2>1. /\ UNCHANGED <<auRows, auNow, auVerdict, auUndisturbed, auPrev, auAfter>>
        /\ auPc' = [auPc EXCEPT ![w] = "read"]
        /\ auLast' = [auLast EXCEPT ![w] = IF auRows = {} THEN Start
                                           ELSE CHOOSE l \in Newest(auRows) : TRUE]
    BY <1>8 DEF ReadLast, verifyVars
  <2>2. auRows # {} => \E x \in auRows : x.seq = auLast'[w].seq
    <3>1. SUFFICES ASSUME auRows # {} PROVE \E x \in auRows : x.seq = auLast'[w].seq
      OBVIOUS
    <3>2. PICK x \in auRows : (CHOOSE l \in Newest(auRows) : TRUE) = [id |-> x.id, seq |-> x.seq]
      BY <1>3, <3>1, NewestOf
    <3>3. auLast'[w] = [id |-> x.id, seq |-> x.seq]
      BY <1>3, <2>1, <3>1, <3>2
    <3> QED BY <3>3
  <2>3. ReadIsThere'
    BY <1>2, <1>3, <2>1, <2>2 DEF ReadIsThere
  <2> QED BY <1>4, <1>5, <2>1, <2>3
<1>9. ASSUME NEW w \in AuWriters, InsertAudit(w)
      PROVE  (TimesFollow /\ NoGap /\ ReadIsThere /\ CursorIsThere
              /\ (auUndisturbed => auVerdict # "broken"))'
  <2>1. /\ auRows' = auRows \cup {[id |-> auWritten + 1, prev |-> auLast[w].id,
                                   seq |-> auLast[w].seq + 1, at |-> auNow]}
        /\ UNCHANGED <<auNow, auVerdict, auUndisturbed, auPrev, auAfter>>
        /\ auPc[w] = "read" /\ auPc' = [auPc EXCEPT ![w] = "idle"]
    BY <1>1, <1>9 DEF InsertAudit, EndWrite, verifyVars
  <2>2. \A v \in AuWriters : auPc'[v] = "idle"
    BY <1>3, <2>1 DEF ChainInv, OneAuditWriter
  <2>3. PICK n : n = [id |-> auWritten + 1, prev |-> auLast[w].id,
                      seq |-> auLast[w].seq + 1, at |-> auNow]
    OBVIOUS
  <2>4. n.seq = auLast[w].seq + 1 /\ n.at = auNow /\ n.seq \in Nat /\ auRows' = auRows \cup {n}
    BY <1>3, <2>1, <2>3
  <2>5. \A r \in auRows : r.seq \in Nat /\ r.seq < n.seq /\ r.at \in Nat
    BY <1>3, <2>1, <2>4 DEF ChainInv, ReadNewest
  <2>6. auRows # {} => \E x \in auRows : x.seq = n.seq - 1
    BY <1>2, <1>3, <2>1, <2>4 DEF ReadIsThere
  <2>7. TimesFollow'
    BY <1>2, <1>3, <2>1, <2>4, <2>5 DEF TimesFollow
  <2>8. NoGap'
    <3>1. SUFFICES ASSUME NEW r \in auRows \cup {n}, NEW q \in auRows \cup {n}, NEW s \in r.seq..q.seq
                   PROVE  \E x \in auRows \cup {n} : x.seq = s
      BY <2>4 DEF NoGap
    <3>2. CASE q \in auRows
      <4>1. r \in auRows
        BY <2>4, <2>5, <3>2
      <4> QED BY <1>2, <3>2, <4>1 DEF NoGap
    <3>3. CASE r = n
      BY <2>4, <2>5, <3>3
    <3>4. CASE q = n /\ r \in auRows
      <4>1. PICK x \in auRows : x.seq = n.seq - 1
        BY <2>6, <3>4
      <4>2. s = n.seq \/ s \in r.seq..x.seq
        BY <2>4, <2>5, <3>4, <4>1
      <4> QED BY <1>2, <3>4, <4>1, <4>2 DEF NoGap
    <3> QED BY <3>2, <3>3, <3>4
  <2>9. ReadIsThere'
    BY <2>2 DEF ReadIsThere
  <2>10. CursorIsThere'
    BY <1>2, <2>1, <2>4 DEF CursorIsThere
  <2> QED BY <1>2, <2>1, <2>7, <2>8, <2>9, <2>10
<1>10. ASSUME NEW cutoff \in Nat, Retain(cutoff)
       PROVE  (TimesFollow /\ NoGap /\ ReadIsThere /\ CursorIsThere
               /\ (auUndisturbed => auVerdict # "broken"))'
  <2>1. /\ auRows' = {r \in auRows : r.at >= cutoff} /\ ~auUndisturbed'
        /\ UNCHANGED <<auNow, auPc, auLast>>
    BY <1>10 DEF Retain
  <2>2. \A r \in auRows' : r \in auRows /\ r.at >= cutoff
    BY <2>1
  <2>3. \A r \in auRows' : \A x \in auRows : r.seq <= x.seq => x \in auRows'
    BY <1>2, <1>3, <2>1 DEF TimesFollow
  <2>4. TimesFollow'
    BY <1>2, <2>1, <2>2 DEF TimesFollow
  <2>5. NoGap'
    BY <1>2, <1>3, <2>2, <2>3 DEF NoGap
  <2>6. ReadIsThere'
    <3>1. SUFFICES ASSUME NEW v \in AuWriters, auPc[v] = "read", auRows' # {}
                   PROVE  \E x \in auRows' : x.seq = auLast[v].seq
      BY <2>1 DEF ReadIsThere
    <3>2. PICK r \in auRows' : TRUE
      BY <3>1
    <3>3. PICK x \in auRows : x.seq = auLast[v].seq
      BY <1>2, <2>2, <3>1, <3>2 DEF ReadIsThere
    <3>4. r.seq <= auLast[v].seq
      BY <2>2, <3>1, <3>2 DEF ChainInv, ReadNewest
    <3> QED BY <2>3, <3>2, <3>3, <3>4
  <2>7. CursorIsThere'
    BY <2>1 DEF CursorIsThere
  <2> QED BY <2>1, <2>4, <2>5, <2>6, <2>7
<1>11. CASE VerifyStarts
  <2>1. /\ UNCHANGED <<auRows, auNow, auPc, auLast>>
        /\ auVerdict' = "running" /\ auPrev' = {} /\ auAfter' = 0
    BY <1>11 DEF VerifyStarts
  <2>2. ReadIsThere' /\ CursorIsThere'
    BY <1>2, <2>1 DEF ReadIsThere, CursorIsThere
  <2> QED BY <1>4, <2>1, <2>2
<1>12. CASE VerifyPage
  <2>1. UNCHANGED <<auRows, auNow, auPc, auLast, auUndisturbed>> /\ auVerdict = "running"
    BY <1>12 DEF VerifyPage
  <2>2. ReadIsThere'
    BY <1>2, <2>1 DEF ReadIsThere
  <2>3. CursorIsThere' /\ (auUndisturbed => auVerdict # "broken")'
    <3>1. SUFFICES ASSUME auUndisturbed
                   PROVE  CursorIsThere' /\ auVerdict' # "broken"
      BY <2>1 DEF CursorIsThere
    <3>2. Linked(PageAfter(auAfter)) /\ auAfter \in Nat
      BY <1>2, <2>1, <3>1, HonestPageLinks
    <3>3. CASE Cardinality(PageAfter(auAfter)) < PageSize
      <4>1. auVerdict' = "ok"
        BY <1>12, <3>2, <3>3 DEF VerifyPage
      <4> QED BY <4>1 DEF CursorIsThere
    <3>4. CASE ~(Cardinality(PageAfter(auAfter)) < PageSize)
      <4>1. PICK x \in auRows : (CHOOSE l \in Newest(PageAfter(auAfter)) : TRUE) = [id |-> x.id, seq |-> x.seq]
        BY <3>2, <3>4, CursorMoves
      <4>2. PICK last : last = CHOOSE l \in Newest(PageAfter(auAfter)) : TRUE
        OBVIOUS
      <4>3. auPrev' = {last.id} /\ auAfter' = last.seq /\ auVerdict' = auVerdict
        BY ONLY <1>12, <3>2, <3>4, <4>2, Zenon DEF VerifyPage
      <4>4. last = [id |-> x.id, seq |-> x.seq]
        BY <4>1, <4>2
      <4>5. auPrev' = {x.id} /\ auAfter' = x.seq
        BY ONLY <4>3, <4>4
      <4> QED BY <2>1, <4>3, <4>5 DEF CursorIsThere
    <3> QED BY <3>3, <3>4
  <2> QED BY <1>4, <2>1, <2>2, <2>3
<1>13. CASE UNCHANGED auVars
  <2>1. /\ UNCHANGED <<auRows, auNow, auPc, auLast>>
        /\ UNCHANGED <<auRows, auVerdict, auUndisturbed, auPrev, auAfter>>
    BY <1>13 DEF auVars
  <2>2. ReadIsThere'
    BY <1>2, <2>1 DEF ReadIsThere
  <2> QED BY <1>4, <1>5, <2>1, <2>2
<1> QED BY <1>6, <1>7, <1>8, <1>9, <1>10, <1>11, <1>12, <1>13, AuditAssumption DEF AuNext

\* Where the clocks of the instances agree, a verification during which nothing
\* is retained finds no break, whatever is written meanwhile and was retained
\* before: for any page size and any length of the chain.
THEOREM HonestChainVerifiesHolds == AuSpec => []HonestChainVerifies
<1>1. AuInit => VerifyInv
  BY DEF AuInit, VerifyInv, TimesFollow, NoGap, ReadIsThere, CursorIsThere
<1>2. ChainInv /\ VerifyInv /\ [AuNext]_auVars => VerifyInv'
  BY VerifyStep
<1>3. VerifyInv => HonestChainVerifies
  BY DEF VerifyInv, HonestChainVerifies
<1> QED BY <1>1, <1>2, <1>3, ChainInvariant, PTL DEF AuSpec

-----------------------------------------------------------------------------
(* The mirror of a subscription.  With n the last change, a row that does    *)
(* not show it is older than its event will say, one that shows it is not,   *)
(* and a call under way carries it.                                          *)

MadeUpTo(n) == \A v \in SubChanges : subChanged[v] > 0 <=> v <= n

MirrorTypes ==
  /\ subNow \in Nat \ {0}
  /\ subChanged \in [SubChanges -> Nat]
  /\ subEvents \subseteq SubChanges
  /\ subRow \in [of : SubChanges, at : Nat]
  /\ subStep \in [SubCallers -> {"idle", "asked", "stamped"}]
  /\ subGot \in [SubCallers -> SubChanges]
  /\ subStamp \in [SubCallers -> Nat]

NothingIsMadeLater(n) ==
  /\ \A v \in subEvents : v <= n
  /\ subRow.of <= n
  /\ \A c \in SubCallers : subGot[c] <= n

LastStandsOut(n) ==
  /\ subChanged[n] <= subNow
  /\ \A v \in SubChanges : v < n => subChanged[v] < SecondOf(subChanged[n])
  /\ subRow.of = n <=> subRow.at >= SecondOf(subChanged[n])
  /\ n \notin subEvents => subRow.of = n
  /\ \A c \in SubCallers :
       /\ subStep[c] # "idle" => subGot[c] = n
       /\ subStep[c] = "stamped" => subStamp[c] >= subChanged[n]

MirrorInv ==
  /\ MirrorTypes
  /\ \E n \in SubChanges : /\ MadeUpTo(n)
                           /\ NothingIsMadeLater(n)
                           /\ subAgree /\ subApart => LastStandsOut(n)

LEMMA Seconds ==
  ASSUME NEW t \in Nat
  PROVE  SecondOf(t) \in Nat /\ SecondOf(t) <= t
<1>1. t % 2 \in 0..1
  OBVIOUS
<1>2. t % 2 <= t
  OBVIOUS
<1> QED BY <1>1, <1>2 DEF SecondOf

LEMMA LastMade ==
  ASSUME NEW n \in SubChanges, MadeUpTo(n)
  PROVE  LastChange = n
<1>1. n \in Made /\ \A u \in Made : u <= n
  BY DEF Made, MadeUpTo, SubChanges
<1>2. \A v \in Made : v \in Nat
  BY DEF Made, SubChanges
<1>3. \A v \in Made : (\A u \in Made : u <= v) => v = n
  BY <1>1, <1>2
<1> QED BY <1>1, <1>3 DEF LastChange

\* A change at the provider, with the calls that do not carry it.
LEMMA ChangeStep ==
  ASSUME NEW n \in SubChanges, MadeUpTo(n), NothingIsMadeLater(n), MirrorTypes,
         subAgree /\ subApart => LastStandsOut(n),
         NEW others \in SUBSET SubCallers, SubChange(others),
         UNCHANGED <<subNow, subAgree, subRow, subStamp>>,
         subStep' \in [SubCallers -> {"idle", "asked", "stamped"}],
         subGot' \in [SubCallers -> SubChanges],
         \A c \in SubCallers \ others : subStep'[c] = "asked" /\ subGot'[c] = n + 1,
         \A c \in others : subStep'[c] = subStep[c] /\ subGot'[c] = subGot[c]
  PROVE  MirrorInv'
<1>1. LastChange = n
  BY LastMade
<1>2. n + 1 \in SubChanges /\ n \in Nat
  BY <1>1, MirrorAssumption DEF SubChange, SubChanges
<1>3. /\ subChanged' = [subChanged EXCEPT ![n + 1] = subNow]
      /\ subEvents' = subEvents \cup {n + 1}
      /\ subApart' => /\ subApart
                      /\ \A v \in Made : subChanged[v] < SecondOf(subNow)
                      /\ subRow.at < SecondOf(subNow)
                      /\ \A c \in others : subStep[c] = "idle"
  BY <1>1 DEF SubChange
<1>4. MirrorTypes'
  BY <1>2, <1>3 DEF MirrorTypes
<1>5. MadeUpTo(n + 1)'
  BY <1>2, <1>3 DEF MadeUpTo, MirrorTypes, SubChanges
<1>6. NothingIsMadeLater(n + 1)'
  <2>1. \A v \in subEvents' : v <= n + 1
    BY <1>2, <1>3 DEF NothingIsMadeLater, MirrorTypes, SubChanges
  <2>2. subRow'.of <= n + 1
    BY <1>2 DEF NothingIsMadeLater, MirrorTypes, SubChanges
  <2>3. \A c \in others : subGot'[c] <= n + 1
    BY <1>2 DEF NothingIsMadeLater, MirrorTypes, SubChanges
  <2>4. \A c \in SubCallers \ others : subGot'[c] <= n + 1
    BY <1>2
  <2> QED BY <2>1, <2>2, <2>3, <2>4 DEF NothingIsMadeLater
<1>7. ASSUME subAgree', subApart' PROVE LastStandsOut(n + 1)'
  <2>1. subChanged'[n + 1] = subNow /\ subNow' = subNow /\ subNow \in Nat
    BY <1>2, <1>3 DEF MirrorTypes
  <2>2. SecondOf(subNow) \in Nat
    BY <2>1, Seconds
  <2>3. \A v \in SubChanges : v < n + 1 => subChanged'[v] < SecondOf(subNow)
    BY <1>2, <1>3, <1>7 DEF Made, MadeUpTo, MirrorTypes, SubChanges
  <2>4. subRow'.of # n + 1 /\ ~(subRow'.at >= SecondOf(subNow))
    <3>1. subRow.of <= n /\ subRow.of \in Nat /\ subRow.at \in Nat
      BY DEF NothingIsMadeLater, MirrorTypes, SubChanges
    <3>2. subRow.at < SecondOf(subNow)
      BY <1>3, <1>7
    <3> QED BY <1>2, <2>2, <3>1, <3>2
  <2>5. \A c \in SubCallers : /\ subStep'[c] # "idle" => subGot'[c] = n + 1
                              /\ subStep'[c] # "stamped"
    BY <1>3, <1>7
  <2>6. n + 1 \in subEvents'
    BY <1>3
  <2>7. subChanged'[n + 1] <= subNow'
    BY <2>1
  <2>8. /\ \A v \in SubChanges : v < n + 1 => subChanged'[v] < SecondOf(subChanged'[n + 1])
        /\ subRow'.of = n + 1 <=> subRow'.at >= SecondOf(subChanged'[n + 1])
    BY <2>1, <2>3, <2>4
  <2> QED BY <2>5, <2>6, <2>7, <2>8 DEF LastStandsOut, SecondOf
<1> QED BY <1>2, <1>4, <1>5, <1>6, <1>7 DEF MirrorInv

\* A write of change v with its time leaves the last change standing out, when
\* it is the last one just if its time says so.
LEMMA ApplyStep ==
  ASSUME NEW n \in SubChanges, MirrorTypes, NothingIsMadeLater(n), NEW v \in SubChanges, v <= n,
         NEW at \in Nat, ApplyNewer(v, at)
  PROVE  /\ subRow' \in [of : SubChanges, at : Nat] /\ subRow'.of <= n
         /\ (v = n <=> at >= SecondOf(subChanged[n])) /\ (subRow.of = n <=> subRow.at >= SecondOf(subChanged[n]))
              => /\ subRow'.of = n <=> subRow'.at >= SecondOf(subChanged[n])
                 /\ subRow.of = n \/ v = n => subRow'.of = n
<1>1. subRow' = IF subRow.at <= at THEN [of |-> v, at |-> at] ELSE subRow
  BY DEF ApplyNewer
<1>2. subRow.of \in SubChanges /\ subRow.at \in Nat /\ subRow.of <= n
  BY DEF MirrorTypes, NothingIsMadeLater
<1>3. SecondOf(subChanged[n]) \in Nat
  BY Seconds DEF MirrorTypes
<1>4. CASE subRow.at <= at
  <2>1. subRow'.of = v /\ subRow'.at = at /\ subRow' \in [of : SubChanges, at : Nat]
    BY <1>1, <1>4
  <2> QED BY <1>2, <1>3, <1>4, <2>1
<1>5. CASE ~(subRow.at <= at)
  <2>1. subRow' = subRow
    BY <1>1, <1>5
  <2> QED BY <1>2, <1>3, <1>5, <2>1 DEF MirrorTypes
<1> QED BY <1>4, <1>5

LEMMA MirrorStep ==
  ASSUME MirrorInv, [SubNext]_subVars
  PROVE  MirrorInv'
<1>1. PICK n \in SubChanges : /\ MadeUpTo(n) /\ NothingIsMadeLater(n) /\ MirrorTypes
                              /\ subAgree /\ subApart => LastStandsOut(n)
  BY DEF MirrorInv
<1>2. n \in Nat /\ LastChange = n
  BY <1>1, LastMade DEF SubChanges
<1>3. CASE ProviderChanges
  <2>1. SubChange(SubCallers) /\ UNCHANGED <<subNow, subAgree, subRow, subStep, subGot, subStamp>>
    BY <1>3 DEF ProviderChanges, callVars
  <2> QED BY <1>1, <2>1, ChangeStep DEF MirrorTypes
<1>4. ASSUME NEW c \in SubCallers, AskProvider(c) PROVE MirrorInv'
  <2>1. /\ SubChange(SubCallers \ {c}) /\ UNCHANGED <<subNow, subAgree, subRow, subStamp>>
        /\ subStep' = [subStep EXCEPT ![c] = "asked"]
        /\ subGot' = [subGot EXCEPT ![c] = n + 1]
    BY <1>2, <1>4 DEF AskProvider
  <2>2. n + 1 \in SubChanges
    BY <1>2, <2>1, MirrorAssumption DEF SubChange, SubChanges
  <2>3. /\ subStep' \in [SubCallers -> {"idle", "asked", "stamped"}]
        /\ subGot' \in [SubCallers -> SubChanges]
        /\ \A d \in SubCallers \ (SubCallers \ {c}) : subStep'[d] = "asked" /\ subGot'[d] = n + 1
        /\ \A d \in SubCallers \ {c} : subStep'[d] = subStep[d] /\ subGot'[d] = subGot[d]
    BY <1>1, <2>1, <2>2 DEF MirrorTypes
  <2> QED BY <1>1, <2>1, <2>3, ChangeStep
\* The other steps change nothing at the provider.
<1>5. ASSUME UNCHANGED subChanged, MirrorTypes', NothingIsMadeLater(n)',
             subAgree' /\ subApart' => LastStandsOut(n)'
      PROVE  MirrorInv'
  <2>1. MadeUpTo(n)'
    BY <1>1, <1>5 DEF MadeUpTo
  <2> QED BY <1>5, <2>1 DEF MirrorInv
<1>6. CASE SubTick \/ UNCHANGED subVars
  <2>1. /\ UNCHANGED <<subAgree, subChanged, subEvents, subRow, subStep, subGot, subStamp, subApart>>
        /\ subNow' = subNow \/ subNow' = subNow + 1
    BY <1>6 DEF SubTick, subVars, callVars
  <2>2. MirrorTypes' /\ NothingIsMadeLater(n)'
    BY <1>1, <2>1 DEF MirrorTypes, NothingIsMadeLater
  <2>3. subAgree' /\ subApart' => LastStandsOut(n)'
    BY <1>1, <2>1 DEF LastStandsOut, MirrorTypes, SecondOf
  <2> QED BY <1>5, <2>1, <2>2, <2>3
<1>7. ASSUME NEW c \in SubCallers, StampAnswer(c) PROVE MirrorInv'
  <2>1. PICK t \in IF subAgree THEN {subNow} ELSE 2..MaxInstant :
          /\ subStep[c] = "asked" /\ subStamp' = [subStamp EXCEPT ![c] = t]
          /\ subStep' = [subStep EXCEPT ![c] = "stamped"]
          /\ UNCHANGED <<subNow, subAgree, subChanged, subEvents, subRow, subGot, subApart>>
    BY <1>7 DEF StampAnswer
  <2>2. t \in Nat
    BY <1>1, <2>1, MirrorAssumption DEF MirrorTypes
  <2>3. MirrorTypes' /\ NothingIsMadeLater(n)'
    BY <1>1, <2>1, <2>2 DEF MirrorTypes, NothingIsMadeLater
  <2>4. subAgree' /\ subApart' => LastStandsOut(n)'
    <3>1. SUFFICES ASSUME subAgree, subApart PROVE LastStandsOut(n)'
      BY <2>1
    <3>2. LastStandsOut(n) /\ t = subNow
      BY <1>1, <2>1, <3>1
    <3>3. \A d \in SubCallers : /\ subStep'[d] # "idle" => subGot'[d] = n
                                /\ subStep'[d] = "stamped" => subStamp'[d] >= subChanged'[n]
      BY <1>1, <2>1, <3>2 DEF LastStandsOut, MirrorTypes
    <3> QED BY <2>1, <3>2, <3>3 DEF LastStandsOut, SecondOf
  <2> QED BY <1>5, <2>1, <2>3, <2>4
<1>8. ASSUME NEW c \in SubCallers, CallDies(c) PROVE MirrorInv'
  <2>1. /\ subStep' = [subStep EXCEPT ![c] = "idle"] /\ subGot' = [subGot EXCEPT ![c] = 1]
        /\ subStamp' = [subStamp EXCEPT ![c] = 0]
        /\ UNCHANGED <<subNow, subAgree, subChanged, subEvents, subRow, subApart>>
    BY <1>8 DEF CallDies, CallEnds
  <2>2. MirrorTypes' /\ NothingIsMadeLater(n)'
    BY <1>1, <2>1, MirrorAssumption DEF MirrorTypes, NothingIsMadeLater, SubChanges
  <2>3. subAgree' /\ subApart' => LastStandsOut(n)'
    BY <1>1, <2>1 DEF LastStandsOut, MirrorTypes, SecondOf
  <2> QED BY <1>5, <2>1, <2>2, <2>3
<1>9. ASSUME NEW c \in SubCallers, StoreAnswer(c) PROVE MirrorInv'
  <2>1. /\ subStep[c] = "stamped" /\ ApplyNewer(subGot[c], subStamp[c])
        /\ subStep' = [subStep EXCEPT ![c] = "idle"] /\ subGot' = [subGot EXCEPT ![c] = 1]
        /\ subStamp' = [subStamp EXCEPT ![c] = 0]
        /\ UNCHANGED <<subNow, subAgree, subChanged, subEvents, subApart>>
    BY <1>9 DEF StoreAnswer, CallEnds
  <2>2. /\ subGot[c] \in SubChanges /\ subGot[c] <= n /\ subStamp[c] \in Nat
        /\ subChanged[n] \in Nat
    BY <1>1 DEF MirrorTypes, NothingIsMadeLater
  <2>3. subRow' \in [of : SubChanges, at : Nat] /\ subRow'.of <= n
    BY <1>1, <2>1, <2>2, ApplyStep
  <2>4. MirrorTypes' /\ NothingIsMadeLater(n)'
    BY <1>1, <1>2, <2>1, <2>3, MirrorAssumption DEF MirrorTypes, NothingIsMadeLater, SubChanges
  <2>5. subAgree' /\ subApart' => LastStandsOut(n)'
    <3>1. SUFFICES ASSUME LastStandsOut(n) PROVE LastStandsOut(n)'
      BY <1>1, <2>1
    <3>2. subGot[c] = n /\ subStamp[c] >= subChanged[n]
      BY <2>1, <3>1 DEF LastStandsOut
    <3>3. SecondOf(subChanged[n]) \in Nat /\ SecondOf(subChanged[n]) <= subChanged[n]
      BY <2>2, Seconds
    <3>4. subGot[c] = n <=> subStamp[c] >= SecondOf(subChanged[n])
      BY <2>2, <3>2, <3>3
    <3>5. /\ subRow'.of = n <=> subRow'.at >= SecondOf(subChanged[n])
          /\ subRow'.of = n
      BY <1>1, <2>1, <2>2, <3>1, <3>2, <3>4, ApplyStep DEF LastStandsOut
    <3>6. \A d \in SubCallers : /\ subStep'[d] # "idle" => subGot'[d] = n
                                /\ subStep'[d] = "stamped" => subStamp'[d] >= subChanged[n]
      BY <1>1, <2>1, <3>1 DEF LastStandsOut, MirrorTypes
    <3> QED BY <2>1, <3>1, <3>5, <3>6 DEF LastStandsOut, SecondOf
  <2> QED BY <1>5, <2>1, <2>4, <2>5
<1>10. ASSUME NEW v \in SubChanges, HandleSubEvent(v) PROVE MirrorInv'
  <2>1. /\ v \in subEvents /\ ApplyNewer(v, SecondOf(subChanged[v]))
        /\ subEvents' = subEvents \/ subEvents' = subEvents \ {v}
        /\ UNCHANGED <<subNow, subAgree, subChanged, subStep, subGot, subStamp, subApart>>
    BY <1>10 DEF HandleSubEvent, callVars
  <2>2. v <= n /\ subChanged[v] \in Nat /\ SecondOf(subChanged[v]) \in Nat
    BY <1>1, <2>1, Seconds DEF MirrorTypes, NothingIsMadeLater
  <2>3. subRow' \in [of : SubChanges, at : Nat] /\ subRow'.of <= n
    BY <1>1, <2>1, <2>2, ApplyStep
  <2>4. MirrorTypes' /\ NothingIsMadeLater(n)'
    BY <1>1, <2>1, <2>3 DEF MirrorTypes, NothingIsMadeLater
  <2>5. subAgree' /\ subApart' => LastStandsOut(n)'
    <3>1. SUFFICES ASSUME LastStandsOut(n) PROVE LastStandsOut(n)'
      BY <1>1, <2>1
    <3>2. SecondOf(subChanged[v]) <= subChanged[v] /\ SecondOf(subChanged[n]) \in Nat
      BY <1>1, <2>2, Seconds DEF MirrorTypes
    <3>3. v = n <=> SecondOf(subChanged[v]) >= SecondOf(subChanged[n])
      <4>1. v # n => v < n
        BY <1>2, <2>2 DEF SubChanges
      <4>2. v # n => subChanged[v] < SecondOf(subChanged[n])
        BY <3>1, <4>1 DEF LastStandsOut
      <4> QED BY <2>2, <3>2, <4>2
    <3>4. /\ subRow'.of = n <=> subRow'.at >= SecondOf(subChanged[n])
          /\ subRow.of = n \/ v = n => subRow'.of = n
      BY <1>1, <2>1, <2>2, <3>1, <3>3, ApplyStep DEF LastStandsOut
    <3>5. n \notin subEvents' => subRow'.of = n
      BY <2>1, <3>1, <3>4 DEF LastStandsOut
    <3> QED BY <2>1, <3>1, <3>4, <3>5 DEF LastStandsOut, SecondOf
  <2> QED BY <1>5, <2>1, <2>4, <2>5
<1> QED BY <1>3, <1>4, <1>6, <1>7, <1>8, <1>9, <1>10 DEF SubNext

\* Where the clocks agree and each change has a second to itself, the mirror
\* shows what the provider has once every event is handled and no call is under
\* way: for any number of changes and callers, in any order of the events,
\* however often they come and whichever calls die.
THEOREM MirrorSettlesHolds == SubSpec => []MirrorSettles
<1>1. SubInit => MirrorInv
  <2> SUFFICES ASSUME SubInit PROVE MirrorInv
    OBVIOUS
  <2>1. 1 \in SubChanges /\ \A v \in SubChanges : v \in Nat \ {0}
    BY MirrorAssumption DEF SubChanges
  <2>2. MirrorTypes
    BY <2>1 DEF SubInit, MirrorTypes
  <2>3. MadeUpTo(1) /\ NothingIsMadeLater(1)
    BY <2>1 DEF SubInit, MadeUpTo, NothingIsMadeLater
  <2>4. SecondOf(2) = 2
    BY DEF SecondOf
  <2>5. LastStandsOut(1)
    BY <2>1, <2>4 DEF SubInit, LastStandsOut
  <2> QED BY <2>1, <2>2, <2>3, <2>5 DEF MirrorInv
<1>2. MirrorInv /\ [SubNext]_subVars => MirrorInv'
  BY MirrorStep
<1>3. MirrorInv => MirrorSettles
  BY LastMade DEF MirrorInv, LastStandsOut, MirrorSettles
<1> QED BY <1>1, <1>2, <1>3, PTL DEF SubSpec

-----------------------------------------------------------------------------
(***************************************************************************)
(* The session of an agent.  The transactions of save run one after the    *)
(* other, each over the count it took.  Until a state is opened beside     *)
(* another one there is at most one live state; whoever is under way works *)
(* on it, and what is stored is the beginning of its messages, so that a   *)
(* save stores all of them.                                                *)
(***************************************************************************)

Sending == {"generate", "upsert", "count", "insert"}

SessionTypes ==
  /\ aiLive \in [AiInstances -> States \cup {NoState}]
  /\ aiMessages \in [States -> Seq(AiMessages)]
  /\ aiStored \in Seq(AiMessages)
  /\ aiOf \in [AiCallers -> States \cup {NoState}]
  /\ aiModel \in [AiCallers -> 1..AiModels]
  /\ aiFrom \in [AiCallers -> Nat]
  /\ aiStep \in [AiCallers -> {"new", "loaded", "opened", "answered", "failed"} \cup Sending]
  /\ aiForked \in BOOLEAN
  /\ \A c \in AiCallers : aiStep[c] \in Sending => aiOf[c] # NoState

SavesInTurn ==
  \A c \in AiCallers :
    /\ aiStep[c] \in {"count", "insert"} => aiRow = c
    /\ aiStep[c] = "insert" => aiFrom[c] = Len(aiStored)

LoadedOnce ==
  \A i \in AiInstances : \A c \in AiCallers :
    aiLive[i] = c => aiStep[c] \notin {"new", "loaded"}

OneLiveState ==
  /\ \A i, j \in AiInstances : aiLive[i] # NoState /\ aiLive[j] # NoState => i = j
  /\ \A c \in AiCallers : aiStep[c] \in Sending =>
       /\ LiveFor(c) # NoState /\ aiOf[c] = LiveFor(c)
       /\ <<"user", c>> \in ToSet(aiMessages[aiOf[c]])

HistoryInv ==
  /\ SessionTypes /\ SavesInTurn /\ LoadedOnce
  /\ ~aiForked => OneLiveState
  /\ HistoryStored

LEMMA PrefixOf ==
  ASSUME NEW M, NEW s \in Seq(M), NEW t \in Seq(M)
  PROVE  IsPrefix(s, t) <=> Len(s) <= Len(t) /\ \A i \in 1..Len(s) : s[i] = t[i]
<1>1. Len(s) \in Nat /\ Len(t) \in Nat /\ s = [i \in 1..Len(s) |-> s[i]]
  BY LenProperties
<1>2. SubSeq(s, 1, Len(s)) = s
  BY <1>1, SubSeqFull
<1>3. ASSUME Len(s) <= Len(t)
      PROVE  /\ SubSeq(t, 1, Len(s)) \in Seq(M) /\ Len(SubSeq(t, 1, Len(s))) = Len(s)
             /\ \A i \in 1..Len(s) : SubSeq(t, 1, Len(s))[i] = t[i]
  <2>1. \A i \in 1..Len(s) : t[i] \in M
    BY <1>1, <1>3, ElementOfSeq
  <2> QED BY <1>1, <1>3, <2>1, SubSeqProperties
<1>4. Len(s) <= Len(t) => (s = SubSeq(t, 1, Len(s)) <=> \A i \in 1..Len(s) : s[i] = t[i])
  BY <1>1, <1>3, SeqEqual
<1> QED BY <1>2, <1>4 DEF IsPrefix

\* A message more on the end leaves the beginnings and the members.
LEMMA AppendKeeps ==
  ASSUME NEW M, NEW s \in Seq(M), NEW t \in Seq(M), NEW e \in M
  PROVE  /\ Append(t, e) \in Seq(M)
         /\ IsPrefix(s, t) => IsPrefix(s, Append(t, e))
         /\ ToSet(Append(t, e)) = ToSet(t) \cup {e}
<1>1. /\ Append(t, e) \in Seq(M) /\ Len(Append(t, e)) = Len(t) + 1
      /\ \A i \in 1..Len(t) : Append(t, e)[i] = t[i]
      /\ Append(t, e)[Len(t) + 1] = e
      /\ Len(t) \in Nat /\ Len(s) \in Nat
      /\ DOMAIN t = 1..Len(t) /\ DOMAIN Append(t, e) = 1..(Len(t) + 1)
  BY AppendProperties, LenProperties
<1>2. ASSUME IsPrefix(s, t) PROVE IsPrefix(s, Append(t, e))
  <2>1. Len(s) <= Len(t) /\ \A i \in 1..Len(s) : s[i] = t[i]
    BY <1>2, PrefixOf
  <2>2. Len(s) <= Len(Append(t, e)) /\ \A i \in 1..Len(s) : s[i] = Append(t, e)[i]
    BY <1>1, <2>1
  <2> QED BY <1>1, <2>2, PrefixOf
<1>3. ToSet(Append(t, e)) = ToSet(t) \cup {e}
  BY <1>1 DEF ToSet
<1> QED BY <1>1, <1>2, <1>3

\* The rows counted and the messages past the count make the whole.
LEMMA RestMakesWhole ==
  ASSUME NEW M, NEW s \in Seq(M), NEW t \in Seq(M)
  PROVE  /\ s \o SubSeq(t, Len(s) + 1, Len(t)) \in Seq(M)
         /\ IsPrefix(s, t) => /\ Len(s) <= Len(t) /\ ToSet(s) \subseteq ToSet(t)
                              /\ s \o SubSeq(t, Len(s) + 1, Len(t)) = t
         /\ IsPrefix(t, t)
<1>1. /\ Len(s) \in Nat /\ Len(t) \in Nat /\ DOMAIN s = 1..Len(s) /\ DOMAIN t = 1..Len(t)
      /\ \A i \in 1..Len(t) : t[i] \in M
  BY LenProperties, ElementOfSeq
<1>2. \A i \in Len(s) + 1..Len(t) : t[i] \in M
  BY <1>1
<1>3. SubSeq(t, Len(s) + 1, Len(t)) \in Seq(M)
  BY <1>1, <1>2, SubSeqProperties
<1>4. ASSUME IsPrefix(s, t)
      PROVE  /\ Len(s) <= Len(t) /\ ToSet(s) \subseteq ToSet(t)
             /\ s \o SubSeq(t, Len(s) + 1, Len(t)) = t
  <2>1. Len(s) <= Len(t) /\ \A i \in 1..Len(s) : s[i] = t[i]
    BY <1>4, PrefixOf
  <2>2. SubSeq(t, 1, Len(s)) = s /\ SubSeq(t, 1, Len(t)) = t
    BY <1>4, SubSeqFull DEF IsPrefix
  <2>3. 1 \in 1..Len(t) + 1 /\ Len(s) \in 1 - 1..Len(t) /\ Len(t) \in Len(s)..Len(t)
    BY <1>1, <2>1
  <2>4. SubSeq(t, 1, Len(s)) \o SubSeq(t, Len(s) + 1, Len(t)) = SubSeq(t, 1, Len(t))
    BY <2>3, ConcatAdjacentSubSeq
  <2>5. ToSet(s) \subseteq ToSet(t)
    BY <1>1, <2>1 DEF ToSet
  <2> QED BY <2>1, <2>2, <2>4, <2>5
<1>5. IsPrefix(t, t)
  BY <1>1, PrefixOf
<1> QED BY <1>3, <1>4, <1>5, ConcatProperties

LEMMA MessagesOfCaller ==
  ASSUME SessionTypes, NEW c \in AiCallers
  PROVE  <<"user", c>> \in AiMessages /\ <<"assistant", c, aiModel[c]>> \in AiMessages
BY DEF SessionTypes, AiMessages

\* What does not touch the messages, the rows or the live states, and takes
\* one caller to a step where it works on nothing.
LEMMA IdleStep ==
  ASSUME HistoryInv, NEW c \in AiCallers, NEW step \in {"opened", "failed"},
         AiGo(c, step), aiStep[c] # "answered",
         UNCHANGED <<stateVars, aiStored, aiOf, aiModel, aiFrom>>, aiRow' = aiRow
  PROVE  HistoryInv'
<1> USE DEF HistoryInv, stateVars, AiGo
<1>1. SessionTypes'
  BY DEF SessionTypes, Sending
<1>2. SavesInTurn' /\ LoadedOnce'
  BY DEF SessionTypes, SavesInTurn, LoadedOnce
<1>3. (~aiForked => OneLiveState)'
  BY DEF SessionTypes, OneLiveState, Sending, LiveFor
<1>4. HistoryStored'
  BY DEF SessionTypes, HistoryStored
<1> QED BY <1>1, <1>2, <1>3, <1>4

LEMMA OpenStep ==
  ASSUME HistoryInv, NEW c \in AiCallers, OpenLive(c) \/ SendRefused(c)
  PROVE  HistoryInv'
BY IdleStep DEF OpenLive, SendRefused, storeVars

LEMMA LoadStep ==
  ASSUME HistoryInv, NEW c \in AiCallers, Load(c)
  PROVE  HistoryInv'
<1>1. /\ aiStep[c] = "new" /\ aiStep' = [aiStep EXCEPT ![c] = "loaded"]
      /\ aiMessages' = [aiMessages EXCEPT ![c] = aiStored]
      /\ aiLive' = aiLive /\ aiForked' = aiForked /\ aiStored' = aiStored /\ aiRow' = aiRow
      /\ aiOf' = aiOf /\ aiModel' = aiModel /\ aiFrom' = aiFrom
  BY DEF Load, AiGo, storeVars
<1>2. c \in States /\ \A i \in AiInstances : aiLive[i] # c
  BY <1>1 DEF HistoryInv, LoadedOnce, States
<1>3. SessionTypes'
  BY <1>1, <1>2 DEF HistoryInv, SessionTypes, Sending
<1>4. SavesInTurn' /\ LoadedOnce'
  BY <1>1, <1>2 DEF HistoryInv, SessionTypes, SavesInTurn, LoadedOnce
<1>5. \A i \in AiInstances : aiLive[i] # NoState => aiMessages'[aiLive[i]] = aiMessages[aiLive[i]]
  BY <1>1, <1>2 DEF HistoryInv, SessionTypes
<1>6. ASSUME ~aiForked PROVE OneLiveState'
  <2>1. \A d \in AiCallers : aiStep'[d] \in Sending =>
          /\ d # c /\ aiStep[d] \in Sending /\ LiveFor(d) # NoState /\ aiOf[d] = LiveFor(d)
          /\ AiHomeOf(d) \in AiInstances
    BY <1>1, <1>6, AIAssumption DEF HistoryInv, SessionTypes, OneLiveState, Sending
  <2>2. \A d \in AiCallers : aiStep'[d] \in Sending => aiMessages'[aiOf[d]] = aiMessages[aiOf[d]]
    BY <1>5, <2>1 DEF LiveFor
  <2> QED BY <1>1, <1>6, <2>1, <2>2 DEF HistoryInv, OneLiveState, LiveFor
<1>7. HistoryStored'
  BY <1>1, <1>5 DEF HistoryInv, SessionTypes, HistoryStored
<1> QED BY <1>1, <1>3, <1>4, <1>6, <1>7 DEF HistoryInv

LEMMA SetLiveStep ==
  ASSUME HistoryInv, NEW c \in AiCallers, SetLive(c)
  PROVE  HistoryInv'
<1>1. /\ aiStep[c] = "loaded" /\ aiStep' = [aiStep EXCEPT ![c] = "opened"]
      /\ aiLive' = [aiLive EXCEPT ![AiHomeOf(c)] = c]
      /\ aiForked' = (aiForked \/ aiStored # aiMessages[c] \/ \E i \in AiInstances : aiLive[i] # NoState)
      /\ aiMessages' = aiMessages /\ aiStored' = aiStored /\ aiRow' = aiRow
      /\ aiOf' = aiOf /\ aiModel' = aiModel /\ aiFrom' = aiFrom
  BY DEF SetLive, AiGo, storeVars
<1>2. c \in States /\ AiHomeOf(c) \in AiInstances
  BY AIAssumption DEF States
<1>3. SessionTypes'
  BY <1>1, <1>2 DEF HistoryInv, SessionTypes, Sending
<1>4. SavesInTurn' /\ LoadedOnce'
  BY <1>1, <1>2 DEF HistoryInv, SessionTypes, SavesInTurn, LoadedOnce
<1>5. ASSUME ~aiForked' PROVE OneLiveState' /\ HistoryStored'
  <2>1. ~aiForked /\ aiStored = aiMessages[c] /\ \A i \in AiInstances : aiLive[i] = NoState
    BY <1>1, <1>5
  <2>2. \A d \in AiCallers : aiStep[d] \notin Sending
    BY <2>1, AIAssumption DEF HistoryInv, OneLiveState, LiveFor
  <2>3. \A i \in AiInstances : aiLive'[i] # NoState => i = AiHomeOf(c) /\ aiLive'[i] = c
    BY <1>1, <1>2, <2>1 DEF HistoryInv, SessionTypes
  <2>4. \A d \in AiCallers : aiStep'[d] \notin Sending
    BY <1>1, <2>2 DEF HistoryInv, SessionTypes, Sending
  <2>5. IsPrefix(aiStored, aiMessages[c])
    BY <1>2, <2>1, RestMakesWhole DEF HistoryInv, SessionTypes
  <2>6. HistoryStored'
    BY <1>1, <2>1, <2>3, <2>5 DEF HistoryInv, SessionTypes, HistoryStored
  <2> QED BY <2>3, <2>4, <2>6 DEF OneLiveState
<1>6. HistoryStored'
  BY <1>5 DEF HistoryStored
<1> QED BY <1>3, <1>4, <1>5, <1>6 DEF HistoryInv

LEMMA MessageAppended ==
  ASSUME HistoryInv, NEW s \in States, NEW e \in AiMessages,
         aiMessages' = [aiMessages EXCEPT ![s] = Append(@, e)]
  PROVE  /\ aiMessages' \in [States -> Seq(AiMessages)]
         /\ e \in ToSet(aiMessages'[s])
         /\ \A t \in States :
              /\ ToSet(aiMessages[t]) \subseteq ToSet(aiMessages'[t])
              /\ IsPrefix(aiStored, aiMessages[t]) => IsPrefix(aiStored, aiMessages'[t])
<1>1. aiMessages \in [States -> Seq(AiMessages)] /\ aiStored \in Seq(AiMessages)
  BY DEF HistoryInv, SessionTypes
<1>2. aiMessages[s] \in Seq(AiMessages)
  BY <1>1
<1>3. /\ Append(aiMessages[s], e) \in Seq(AiMessages)
      /\ IsPrefix(aiStored, aiMessages[s]) => IsPrefix(aiStored, Append(aiMessages[s], e))
      /\ ToSet(Append(aiMessages[s], e)) = ToSet(aiMessages[s]) \cup {e}
  BY <1>1, <1>2, AppendKeeps
<1>4. aiMessages'[s] = Append(aiMessages[s], e) /\ \A t \in States \ {s} : aiMessages'[t] = aiMessages[t]
  BY <1>1
<1>5. aiMessages' \in [States -> Seq(AiMessages)]
  BY <1>1, <1>3
<1> QED BY <1>3, <1>4, <1>5

LEMMA SendStep ==
  ASSUME HistoryInv, NEW c \in AiCallers, Send(c)
  PROVE  HistoryInv'
<1> DEFINE s == LiveFor(c)
           e == <<"user", c>>
<1>1. /\ aiStep[c] = "opened" /\ aiStep' = [aiStep EXCEPT ![c] = "generate"]
      /\ s # NoState /\ aiOf' = [aiOf EXCEPT ![c] = s]
      /\ aiMessages' = [aiMessages EXCEPT ![s] = Append(@, e)]
      /\ aiLive' = aiLive /\ aiForked' = aiForked /\ aiStored' = aiStored /\ aiRow' = aiRow
      /\ aiModel' = aiModel /\ aiFrom' = aiFrom
  BY DEF Send, AiGo, storeVars
<1>2. s \in States /\ e \in AiMessages
  BY <1>1, AIAssumption, MessagesOfCaller DEF HistoryInv, SessionTypes, LiveFor
<1>3. /\ aiMessages' \in [States -> Seq(AiMessages)]
      /\ e \in ToSet(aiMessages'[s])
      /\ \A t \in States :
           /\ ToSet(aiMessages[t]) \subseteq ToSet(aiMessages'[t])
           /\ IsPrefix(aiStored, aiMessages[t]) => IsPrefix(aiStored, aiMessages'[t])
  BY <1>1, <1>2, MessageAppended
<1>4. s' = s
  BY <1>1 DEF LiveFor
<1> HIDE DEF s, e
<1>5. SessionTypes'
  <2>1. aiOf' \in [AiCallers -> States \cup {NoState}] /\ aiOf'[c] = s /\ aiStep'[c] = "generate"
        /\ \A d \in AiCallers \ {c} : aiOf'[d] = aiOf[d] /\ aiStep'[d] = aiStep[d]
    BY <1>1, <1>2 DEF HistoryInv, SessionTypes
  <2>2. aiStep' \in [AiCallers -> {"new", "loaded", "opened", "answered", "failed"} \cup Sending]
    BY <1>1 DEF HistoryInv, SessionTypes, Sending
  <2> QED BY <1>1, <1>3, <2>1, <2>2 DEF HistoryInv, SessionTypes
<1>6. SavesInTurn' /\ LoadedOnce'
  BY <1>1, <1>2 DEF HistoryInv, SessionTypes, SavesInTurn, LoadedOnce
<1>7. ASSUME ~aiForked PROVE OneLiveState'
  <2>1. ASSUME NEW d \in AiCallers, aiStep'[d] \in Sending
        PROVE  LiveFor(d)' # NoState /\ aiOf'[d] = LiveFor(d)' /\ <<"user", d>> \in ToSet(aiMessages'[aiOf'[d]])
    <3>1. CASE d = c
      BY <1>1, <1>3, <3>1 DEF s, e, LiveFor, HistoryInv, SessionTypes
    <3>2. CASE d # c
      <4>1. /\ aiStep[d] \in Sending /\ aiOf'[d] = aiOf[d] /\ LiveFor(d)' = LiveFor(d)
            /\ LiveFor(d) # NoState /\ aiOf[d] = LiveFor(d) /\ aiOf[d] \in States
            /\ <<"user", d>> \in ToSet(aiMessages[aiOf[d]])
        BY <1>1, <1>7, <2>1, <3>2 DEF LiveFor, HistoryInv, SessionTypes, OneLiveState
      <4> QED BY <1>3, <4>1
    <3> QED BY <3>1, <3>2
  <2> QED BY <1>1, <1>7, <2>1 DEF HistoryInv, OneLiveState
<1>8. HistoryStored'
  <2>1. \A i \in AiInstances : aiLive[i] # NoState => aiLive[i] \in States
    BY DEF HistoryInv, SessionTypes
  <2> QED BY <1>1, <1>3, <2>1 DEF HistoryInv, SessionTypes, HistoryStored
<1> QED BY <1>1, <1>5, <1>6, <1>7, <1>8 DEF HistoryInv

LEMMA GeneratedStep ==
  ASSUME HistoryInv, NEW c \in AiCallers, Generated(c)
  PROVE  HistoryInv'
<1> DEFINE s == aiOf[c]
           e == <<"assistant", c, aiModel[c]>>
<1>1. /\ aiStep[c] = "generate" /\ aiStep' = [aiStep EXCEPT ![c] = "upsert"]
      /\ aiMessages' = [aiMessages EXCEPT ![s] = Append(@, e)]
      /\ aiLive' = aiLive /\ aiForked' = aiForked /\ aiStored' = aiStored /\ aiRow' = aiRow
      /\ aiModel' = aiModel /\ aiFrom' = aiFrom /\ aiOf' = aiOf
  BY DEF Generated, AiGo, storeVars
<1>2. s \in States /\ e \in AiMessages
  BY <1>1, MessagesOfCaller DEF HistoryInv, SessionTypes, Sending
<1>3. /\ aiMessages' \in [States -> Seq(AiMessages)]
      /\ \A t \in States :
           /\ ToSet(aiMessages[t]) \subseteq ToSet(aiMessages'[t])
           /\ IsPrefix(aiStored, aiMessages[t]) => IsPrefix(aiStored, aiMessages'[t])
  BY <1>1, <1>2, MessageAppended
<1> HIDE DEF s, e
<1>4. \A d \in AiCallers : aiStep'[d] \in Sending => aiStep[d] \in Sending
  BY <1>1 DEF HistoryInv, SessionTypes, Sending
<1>5. SessionTypes'
  BY <1>1, <1>3, <1>4 DEF HistoryInv, SessionTypes, Sending
<1>6. SavesInTurn' /\ LoadedOnce'
  BY <1>1 DEF HistoryInv, SessionTypes, SavesInTurn, LoadedOnce
<1>7. ASSUME ~aiForked PROVE OneLiveState'
  <2>1. ASSUME NEW d \in AiCallers, aiStep'[d] \in Sending
        PROVE  LiveFor(d)' # NoState /\ aiOf'[d] = LiveFor(d)' /\ <<"user", d>> \in ToSet(aiMessages'[aiOf'[d]])
    <3>1. /\ LiveFor(d)' = LiveFor(d) /\ aiOf[d] \in States
          /\ LiveFor(d) # NoState /\ aiOf[d] = LiveFor(d)
          /\ <<"user", d>> \in ToSet(aiMessages[aiOf[d]])
      BY <1>1, <1>4, <1>7, <2>1 DEF LiveFor, HistoryInv, SessionTypes, OneLiveState
    <3> QED BY <1>1, <1>3, <3>1
  <2> QED BY <1>1, <1>7, <2>1 DEF HistoryInv, OneLiveState
<1>8. HistoryStored'
  <2>1. \A i \in AiInstances : aiLive[i] # NoState => aiLive[i] \in States
    BY DEF HistoryInv, SessionTypes
  <2> QED BY <1>1, <1>3, <2>1 DEF HistoryInv, SessionTypes, HistoryStored
<1> QED BY <1>1, <1>5, <1>6, <1>7, <1>8 DEF HistoryInv

\* A caller under way goes on or fails: what is left is the order of the saves.
LEMMA WorkingStep ==
  ASSUME HistoryInv, NEW c \in AiCallers, NEW step \in Sending \cup {"failed"},
         aiStep[c] \in Sending, AiGo(c, step), UNCHANGED <<stateVars, aiStored, aiOf>>,
         aiModel' \in [AiCallers -> 1..AiModels], aiFrom' \in [AiCallers -> Nat], SavesInTurn'
  PROVE  HistoryInv'
<1> USE DEF HistoryInv, stateVars, AiGo
<1>1. SessionTypes'
  BY DEF SessionTypes, Sending
<1>2. LoadedOnce'
  BY DEF SessionTypes, LoadedOnce, Sending
<1>3. (~aiForked => OneLiveState)'
  BY DEF SessionTypes, OneLiveState, Sending, LiveFor
<1>4. HistoryStored'
  BY DEF SessionTypes, HistoryStored, Sending
<1> QED BY <1>1, <1>2, <1>3, <1>4

LEMMA TryNextStep ==
  ASSUME HistoryInv, NEW c \in AiCallers, TryNext(c)
  PROVE  HistoryInv'
<1>1. /\ aiStep[c] \in Sending
      /\ \E step \in {"generate", "failed"} : AiGo(c, step)
      /\ aiModel' \in [AiCallers -> 1..AiModels]
      /\ aiRow' = (IF aiRow = c THEN NoState ELSE aiRow)
      /\ UNCHANGED <<stateVars, aiStored, aiOf, aiFrom>>
  <2>1. aiStep[c] \in Sending /\ aiRow' = (IF aiRow = c THEN NoState ELSE aiRow)
        /\ UNCHANGED <<stateVars, aiStored, aiOf, aiFrom>>
    BY DEF TryNext, Sending
  <2>2. \E step \in {"generate", "failed"} : AiGo(c, step)
    BY DEF TryNext
  <2>3. aiModel' = aiModel \/ (aiModel[c] < AiModels /\ aiModel' = [aiModel EXCEPT ![c] = @ + 1])
    BY DEF TryNext
  <2>4. aiModel' \in [AiCallers -> 1..AiModels]
    BY <2>3, AIAssumption DEF HistoryInv, SessionTypes
  <2> QED BY <2>1, <2>2, <2>4
<1>2. PICK step \in {"generate", "failed"} : AiGo(c, step)
  BY <1>1
<1>3. SavesInTurn'
  BY <1>1, <1>2 DEF AiGo, HistoryInv, SessionTypes, SavesInTurn
<1> QED BY <1>1, <1>2, <1>3, WorkingStep DEF HistoryInv, SessionTypes, Sending

LEMMA UpsertStep ==
  ASSUME HistoryInv, NEW c \in AiCallers, Upsert(c)
  PROVE  HistoryInv'
<1>1. SavesInTurn'
  BY AIAssumption DEF Upsert, AiGo, HistoryInv, SessionTypes, SavesInTurn
<1> QED BY <1>1, WorkingStep DEF Upsert, HistoryInv, SessionTypes, Sending

LEMMA CountStep ==
  ASSUME HistoryInv, NEW c \in AiCallers, CountStored(c)
  PROVE  HistoryInv'
<1>1. Len(aiStored) \in Nat
  BY LenProperties DEF HistoryInv, SessionTypes
<1>2. SavesInTurn'
  BY <1>1 DEF CountStored, AiGo, storeVars, HistoryInv, SessionTypes, SavesInTurn
<1> QED BY <1>1, <1>2, WorkingStep DEF CountStored, storeVars, HistoryInv, SessionTypes, Sending

LEMMA InsertStep ==
  ASSUME HistoryInv, NEW c \in AiCallers, InsertFresh(c)
  PROVE  HistoryInv'
<1> DEFINE messages == aiMessages[aiOf[c]]
<1>1. /\ aiStep[c] = "insert" /\ aiStep' = [aiStep EXCEPT ![c] = "answered"]
      /\ aiStored' = IF aiFrom[c] > Len(messages) THEN messages
                     ELSE aiStored \o SubSeq(messages, aiFrom[c] + 1, Len(messages))
      /\ aiRow' = (IF aiRow = c THEN NoState ELSE aiRow)
      /\ aiLive' = aiLive /\ aiForked' = aiForked /\ aiMessages' = aiMessages
      /\ aiModel' = aiModel /\ aiFrom' = aiFrom /\ aiOf' = aiOf
  BY DEF InsertFresh, AiGo, stateVars
<1>2. aiOf[c] \in States /\ messages \in Seq(AiMessages) /\ aiFrom[c] = Len(aiStored)
  BY <1>1 DEF HistoryInv, SessionTypes, SavesInTurn, Sending
<1> HIDE DEF messages
<1>3. aiStored \in Seq(AiMessages) /\ Len(aiStored) \in Nat /\ Len(messages) \in Nat
  BY <1>2, LenProperties DEF HistoryInv, SessionTypes
<1>4. /\ aiStored \o SubSeq(messages, Len(aiStored) + 1, Len(messages)) \in Seq(AiMessages)
      /\ IsPrefix(aiStored, messages) =>
           /\ Len(aiStored) <= Len(messages) /\ ToSet(aiStored) \subseteq ToSet(messages)
           /\ aiStored \o SubSeq(messages, Len(aiStored) + 1, Len(messages)) = messages
      /\ IsPrefix(messages, messages)
  BY <1>2, <1>3, RestMakesWhole
<1>5. aiStored' \in Seq(AiMessages)
  BY <1>1, <1>2, <1>4
<1>6. \A d \in AiCallers : aiStep'[d] \in Sending => aiStep[d] \in Sending
  BY <1>1 DEF HistoryInv, SessionTypes, Sending
<1>7. SessionTypes'
  BY <1>1, <1>5, <1>6 DEF HistoryInv, SessionTypes
<1>8. SavesInTurn'
  <2>1. aiRow = c /\ \A d \in AiCallers \ {c} : aiStep[d] \notin {"count", "insert"}
    BY <1>1 DEF HistoryInv, SavesInTurn
  <2>2. \A d \in AiCallers : aiStep'[d] \notin {"count", "insert"}
    BY <1>1, <2>1 DEF HistoryInv, SessionTypes
  <2> QED BY <2>2 DEF SavesInTurn
<1>9. LoadedOnce'
  BY <1>1 DEF HistoryInv, SessionTypes, LoadedOnce
<1>10. ASSUME ~aiForked PROVE OneLiveState'
  BY <1>1, <1>6, <1>10 DEF HistoryInv, OneLiveState, LiveFor
<1>11. ASSUME ~aiForked PROVE HistoryStored'
  <2>1. /\ LiveFor(c) # NoState /\ aiOf[c] = LiveFor(c) /\ AiHomeOf(c) \in AiInstances
        /\ <<"user", c>> \in ToSet(messages)
    BY <1>1, <1>11, AIAssumption DEF HistoryInv, OneLiveState, Sending, messages
  <2>2. IsPrefix(aiStored, messages)
    BY <1>11, <2>1 DEF HistoryInv, HistoryStored, LiveFor, messages
  <2>3. aiStored' = messages /\ ToSet(aiStored) \subseteq ToSet(messages)
    BY <1>1, <1>2, <1>3, <1>4, <2>2
  <2>4. \A i \in AiInstances : aiLive[i] # NoState => aiMessages[aiLive[i]] = messages
    BY <1>11, <2>1 DEF HistoryInv, OneLiveState, LiveFor, messages
  <2>5. \A i \in AiInstances : aiLive'[i] # NoState => IsPrefix(aiStored', aiMessages'[aiLive'[i]])
    BY <1>1, <1>4, <2>3, <2>4
  <2>6. \A d \in AiCallers : aiStep'[d] = "answered" => <<"user", d>> \in ToSet(aiStored')
    BY <1>1, <1>11, <2>1, <2>3 DEF HistoryInv, SessionTypes, HistoryStored
  <2> QED BY <2>5, <2>6 DEF HistoryStored
<1> QED BY <1>1, <1>7, <1>8, <1>9, <1>10, <1>11 DEF HistoryInv, HistoryStored

LEMMA SessionCrashStep ==
  ASSUME HistoryInv, NEW i \in AiInstances, AiCrash(i)
  PROVE  HistoryInv'
<1>1. /\ aiLive' = [aiLive EXCEPT ![i] = NoState]
      /\ aiStep' = [c \in AiCallers |->
                      IF AiHomeOf(c) = i /\ aiStep[c] \notin {"new", "answered"} THEN "failed" ELSE aiStep[c]]
      /\ aiRow' = (IF aiRow # NoState /\ AiHomeOf(aiRow) = i THEN NoState ELSE aiRow)
      /\ aiForked' = aiForked /\ aiMessages' = aiMessages /\ aiStored' = aiStored
      /\ aiModel' = aiModel /\ aiFrom' = aiFrom /\ aiOf' = aiOf
  BY DEF AiCrash
<1>2. \A c \in AiCallers :
        aiStep'[c] # "failed" => aiStep'[c] = aiStep[c] /\ (aiStep[c] \in Sending => AiHomeOf(c) # i)
  BY <1>1 DEF Sending
<1>3. SessionTypes'
  BY <1>1 DEF HistoryInv, SessionTypes, Sending
<1>4. SavesInTurn'
  BY <1>1, <1>2 DEF HistoryInv, SavesInTurn, Sending
<1>5. LoadedOnce'
  BY <1>1, AIAssumption DEF HistoryInv, SessionTypes, LoadedOnce
<1>6. ASSUME ~aiForked PROVE OneLiveState'
  <2>1. \A j \in AiInstances : aiLive'[j] # NoState => j # i /\ aiLive'[j] = aiLive[j]
    BY <1>1 DEF HistoryInv, SessionTypes
  <2>2. ASSUME NEW c \in AiCallers, aiStep'[c] \in Sending
        PROVE  LiveFor(c)' # NoState /\ aiOf'[c] = LiveFor(c)' /\ <<"user", c>> \in ToSet(aiMessages'[aiOf'[c]])
    <3>1. aiStep[c] \in Sending /\ AiHomeOf(c) # i /\ AiHomeOf(c) \in AiInstances
      BY <1>2, <2>2, AIAssumption DEF Sending
    <3>2. LiveFor(c)' = LiveFor(c)
      BY <1>1, <3>1 DEF LiveFor, HistoryInv, SessionTypes
    <3> QED BY <1>1, <1>6, <3>1, <3>2 DEF HistoryInv, OneLiveState
  <2> QED BY <1>6, <2>1, <2>2 DEF HistoryInv, OneLiveState
<1>7. HistoryStored'
  BY <1>1, <1>2 DEF HistoryInv, SessionTypes, HistoryStored
<1> QED BY <1>1, <1>3, <1>4, <1>5, <1>6, <1>7 DEF HistoryInv

LEMMA SessionStep ==
  ASSUME HistoryInv, [AiNext]_aiVars
  PROVE  HistoryInv'
<1>1. CASE UNCHANGED aiVars
  BY <1>1 DEF aiVars, HistoryInv, SessionTypes, SavesInTurn, LoadedOnce, OneLiveState, LiveFor, HistoryStored
<1>2. CASE AiNext
  BY <1>2, OpenStep, LoadStep, SetLiveStep, SendStep, GeneratedStep, TryNextStep, UpsertStep,
     CountStep, InsertStep, SessionCrashStep DEF AiNext
<1> QED BY <1>1, <1>2

\* As long as no state of the session was opened beside another one, the rows
\* are the beginning of the messages of the live state and hold what was
\* answered: for any number of callers, instances and fallback models, whatever
\* fails or dies in between.
THEOREM HistoryStoredHolds == AiSpec => []HistoryStored
<1>1. AiInit => HistoryInv
  <2> SUFFICES ASSUME AiInit PROVE HistoryInv
    OBVIOUS
  <2>1. <<>> \in Seq(AiMessages) /\ IsPrefix(<<>>, <<>>)
    BY EmptySeq, RestMakesWhole
  <2>2. aiMessages = [s \in States |-> <<>>] /\ aiStored = <<>> /\ aiForked = FALSE
        /\ aiStep = [c \in AiCallers |-> "new"] /\ aiFrom = [c \in AiCallers |-> 0]
        /\ aiOf = [c \in AiCallers |-> NoState] /\ aiModel = [c \in AiCallers |-> 1]
    BY DEF AiInit
  <2>3. PICK i \in AiInstances : aiLive = [j \in AiInstances |-> IF i = j THEN Created ELSE NoState]
    BY DEF AiInit
  <2>4. SessionTypes
    <3>1. 1 \in 1..AiModels
      BY AIAssumption
    <3>2. aiMessages \in [States -> Seq(AiMessages)] /\ aiStored \in Seq(AiMessages)
      BY <2>1, <2>2
    <3> QED BY <2>2, <2>3, <3>1, <3>2 DEF SessionTypes, Sending, States
  <2>5. SavesInTurn /\ LoadedOnce /\ OneLiveState
    BY <2>2, <2>3, AIAssumption DEF SavesInTurn, LoadedOnce, OneLiveState, Sending
  <2>6. HistoryStored
    BY <2>1, <2>2, <2>3 DEF HistoryStored, States
  <2> QED BY <2>4, <2>5, <2>6 DEF HistoryInv
<1>2. HistoryInv /\ [AiNext]_aiVars => HistoryInv'
  BY SessionStep
<1>3. HistoryInv => HistoryStored
  BY DEF HistoryInv
<1> QED BY <1>1, <1>2, <1>3, PTL DEF AiSpec
-----------------------------------------------------------------------------
(***************************************************************************)
(* The in-process queue, for any jobs and retry limit.  Its map, its timers *)
(* and its running flag are kept in step by hand: start() schedules what    *)
(* waits, stop() clears the timers, and a retry asks the flag again.        *)
(***************************************************************************)

\* A job waits for a timer only while the queue is stopped, and none is set then.
TimersFollowRunning ==
  \A j \in MemJobs :
    /\ memRunning => memJob[j] # "unscheduled"
    /\ ~memRunning => memJob[j] # "scheduled"

\* A job that waits has an attempt left; one whose handler runs has used one.
AttemptsLeft ==
  \A j \in MemJobs :
    /\ memJob[j] \in {"unscheduled", "scheduled", "cleared"} => memMade[j] < MaxAttempts
    /\ memJob[j] = "inflight" => memMade[j] \in 1..MaxAttempts

MemInv == MemTypeOK /\ TimersFollowRunning /\ AttemptsLeft

LEMMA MemJobsStep ==
  ASSUME MemInv, [MemNext]_memVars
  PROVE  MemInv'
<1> USE MemJobsAssumption DEF MemInv, MemTypeOK, TimersFollowRunning, AttemptsLeft, Pending
<1>1. ASSUME NEW j \in MemJobs, MemEnqueue(j) PROVE MemInv'
  BY <1>1 DEF MemEnqueue, Scheduled
<1>2. ASSUME NEW j \in MemJobs, MemCancel(j) PROVE MemInv'
  BY <1>2 DEF MemCancel
<1>3. CASE MemStart
  BY <1>3 DEF MemStart
<1>4. CASE MemStop
  BY <1>4 DEF MemStop
<1>5. ASSUME NEW j \in MemJobs, MemRun(j) PROVE MemInv'
  BY <1>5 DEF MemRun
<1>6. ASSUME NEW j \in MemJobs, MemSucceeds(j) \/ MemDies(j) PROVE MemInv'
  BY <1>6 DEF MemSucceeds, MemDies
<1>7. ASSUME NEW j \in MemJobs, MemRetry(j) PROVE MemInv'
  BY <1>7 DEF MemRetry, Scheduled
<1>8. ASSUME NEW j \in MemJobs, NEW k \in MemJobs, MemReplay(j, k) PROVE MemInv'
  BY <1>8 DEF MemReplay, Scheduled
<1>9. CASE UNCHANGED memVars
  BY <1>9 DEF memVars
<1> QED
  BY <1>1, <1>2, <1>3, <1>4, <1>5, <1>6, <1>7, <1>8, <1>9 DEF MemNext, MemStep

LEMMA MemInvariant == MemSpec => []MemInv
<1>1. ASSUME MemInit PROVE MemInv
  <2>1. 0 \in 0..MaxAttempts /\ 0 < MaxAttempts
    BY MemJobsAssumption
  <2>2. MemTypeOK
    BY <1>1, <2>1 DEF MemInit, MemTypeOK
  <2>3. TimersFollowRunning /\ AttemptsLeft
    BY <1>1, <2>1 DEF MemInit, TimersFollowRunning, AttemptsLeft
  <2> QED
    BY <2>2, <2>3 DEF MemInv
<1> QED
  BY <1>1, MemJobsStep, PTL DEF MemSpec

\* No job runs more often than its retry limit allows, whatever start(), stop(),
\* cancel() and replays of dead letters come between its attempts.
THEOREM MemTypeCorrect == MemSpec => [](MemTypeOK /\ AttemptsLeft)
<1>1. MemInv => MemTypeOK /\ AttemptsLeft
  BY DEF MemInv
<1> QED
  BY <1>1, MemInvariant, PTL

\* The safety half of AcceptedJobsEnd: while the queue runs, a job that is
\* pending has a live timer or a running handler, unless a stop() took its
\* timer away, so a retry or a replay is never put back with nothing to wake it.
JobsKeepTimers ==
  memRunning => \A j \in MemJobs : memJob[j] \in {"absent", "scheduled", "inflight", "cleared"}

THEOREM RunningJobsKeepTimers == MemSpec => []JobsKeepTimers
<1>1. MemInv => JobsKeepTimers
  BY DEF MemInv, MemTypeOK, TimersFollowRunning, Pending, JobsKeepTimers
<1> QED
  BY <1>1, MemInvariant, PTL
=============================================================================
