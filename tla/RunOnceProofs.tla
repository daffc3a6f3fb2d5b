---------------------------- MODULE RunOnceProofs ----------------------------
(***************************************************************************)
(* A key is in at most one worker's hands, for any workers and keys.  The  *)
(* strengthening: while a worker owns a key the store says so, which no    *)
(* other worker's claim can overwrite and, as claims outlive runs, no      *)
(* expiry can free.                                                        *)
(***************************************************************************)
EXTENDS RunOnce, TLAPS

OwnedIsMarked ==
  ClaimsOutliveRuns =>
    \A w \in Workers : wpc[w] \in Owning => entry[work[w]] # "free"

OnceInv == OnceTypeOK /\ OwnedIsMarked /\ OneRunAtATime

LEMMA OnceTypeStep ==
  ASSUME OnceTypeOK, [OnceNext]_onceVars
  PROVE  OnceTypeOK'
<1>1. CASE UNCHANGED onceVars
  BY <1>1 DEF onceVars, OnceTypeOK
<1>2. ASSUME NEW w \in Workers, NEW k \in Keys, Begin(w, k) PROVE OnceTypeOK'
  BY <1>2 DEF Begin, OnceTypeOK, WorkerSteps
<1>3. ASSUME NEW w \in Workers, Claimed(w) \/ Succeed(w) \/ Throw(w) \/ CompleteFails(w)
      PROVE OnceTypeOK'
  BY <1>3 DEF Claimed, Succeed, Throw, CompleteFails, Proceed, OnceTypeOK, WorkerSteps
<1>4. ASSUME NEW w \in Workers,
             NotClaimed(w) \/ Complete(w) \/ Release(w) \/ ReleaseFails(w) \/ Crash(w)
      PROVE OnceTypeOK'
  BY <1>4 DEF NotClaimed, Complete, Release, ReleaseFails, Crash, Leave, OnceTypeOK, WorkerSteps
<1>5. ASSUME NEW k \in Keys, Expire(k) PROVE OnceTypeOK'
  BY <1>5 DEF Expire, OnceTypeOK
<1> QED BY <1>1, <1>2, <1>3, <1>4, <1>5 DEF OnceNext, OnceStep

LEMMA OwnershipStep ==
  ASSUME OnceInv, [OnceNext]_onceVars
  PROVE  OwnedIsMarked' /\ OneRunAtATime'
<1> USE DEF OnceInv, OwnedIsMarked, OneRunAtATime
<1>1. CASE UNCHANGED onceVars
  BY <1>1 DEF onceVars
<1>2. ASSUME NEW w \in Workers, NEW k \in Keys, Begin(w, k)
      PROVE  OwnedIsMarked' /\ OneRunAtATime'
  BY <1>2 DEF Begin, Owning, OnceTypeOK
<1>3. ASSUME NEW w \in Workers, Claimed(w)
      PROVE  OwnedIsMarked' /\ OneRunAtATime'
  \* nobody owned the key: it was free
  BY <1>3 DEF Claimed, Proceed, Owning, OnceTypeOK
<1>4. ASSUME NEW w \in Workers, NotClaimed(w) \/ ReleaseFails(w) \/ Crash(w)
      PROVE  OwnedIsMarked' /\ OneRunAtATime'
  BY <1>4 DEF NotClaimed, ReleaseFails, Crash, Leave, Owning, OnceTypeOK
<1>5. ASSUME NEW w \in Workers, Succeed(w) \/ Throw(w)
      PROVE  OwnedIsMarked' /\ OneRunAtATime'
  BY <1>5 DEF Succeed, Throw, Proceed, Owning, OnceTypeOK
<1>6. ASSUME NEW w \in Workers, CompleteFails(w)
      PROVE  OwnedIsMarked' /\ OneRunAtATime'
  BY <1>6 DEF CompleteFails, Proceed, Owning, OnceTypeOK
<1>7. ASSUME NEW w \in Workers, Complete(w)
      PROVE  OwnedIsMarked' /\ OneRunAtATime'
  BY <1>7 DEF Complete, Leave, Owning, OnceTypeOK
<1>8. ASSUME NEW w \in Workers, Release(w)
      PROVE  OwnedIsMarked' /\ OneRunAtATime'
  \* only w owned the key it frees
  BY <1>8 DEF Release, Leave, Owning, OnceTypeOK
<1>9. ASSUME NEW k \in Keys, Expire(k)
      PROVE  OwnedIsMarked' /\ OneRunAtATime'
  BY <1>9 DEF Expire, Owning, OnceTypeOK
<1> QED BY <1>1, <1>2, <1>3, <1>4, <1>5, <1>6, <1>7, <1>8, <1>9 DEF OnceNext, OnceStep

THEOREM OnceInvariant == OnceSpec => []OnceInv
<1>1. OnceInit => OnceInv
  BY RunOnceAssumption DEF OnceInit, OnceInv, OnceTypeOK, OwnedIsMarked, OneRunAtATime, WorkerSteps, Owning
<1>2. OnceInv /\ [OnceNext]_onceVars => OnceInv'
  BY OnceTypeStep, OwnershipStep DEF OnceInv
<1> QED BY <1>1, <1>2, PTL DEF OnceSpec

\* At most one worker at a time runs, completes or releases a key, for any
\* number of workers and keys, when claims outlive the runs they protect.
THEOREM OneRunAtATimeHolds == OnceSpec => []OneRunAtATime
BY OnceInvariant, PTL DEF OnceInv
=============================================================================
