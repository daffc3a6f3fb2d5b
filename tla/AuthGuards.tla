------------------------------ MODULE AuthGuards ------------------------------
(***************************************************************************)
(* BruteForceProtector.guard over the cache, for one identifier, and        *)
(* ApiKeyService over its store, for the keys of one tenant.  One action is *)
(* one command on the cache, which may reject with or without its effect,   *)
(* one statement on the store, or the end of the guarded attempt.  Issuing  *)
(* more keys, and verify, change nothing here.                              *)
(***************************************************************************)
EXTENDS Naturals, FiniteSets

CONSTANTS
  Guessers,       \* concurrent callers of guard
  BfMax,          \* maxAttempts
  MaxLost,        \* bound: commands of recordFailure that fail in one window
  Rotators,       \* concurrent callers of rotate and revoke
  ApiKeys, FirstKey, NoKey

ASSUME AuthAssumption ==
  /\ BfMax \in Nat \ {0} /\ MaxLost \in Nat /\ IsFiniteSet(Guessers)
  /\ FirstKey \in ApiKeys /\ NoKey \notin ApiKeys

VARIABLES
  bfAttempts,     \* the attempts counter, up to BfMax: more is no different
  bfLocked,       \* the lockout key
  bfStep,         \* [Guessers -> step of guard]
  bfFailed,       \* failures since the counter was cleared or the lock lifted
  bfLost,         \* of these, recordings that failed or died half-way
  akActive,       \* active keys
  akUsed,         \* keys that exist
  akStep,         \* [Rotators -> step]
  akOld, akNew,   \* [Rotators -> key it rotates, and its replacement]
  akRevoked       \* whether anyone called revoke

bfVars == <<bfAttempts, bfLocked, bfStep, bfFailed, bfLost>>
akVars == <<akActive, akUsed, akStep, akOld, akNew, akRevoked>>
authVars == <<bfVars, akVars>>

AuthInit ==
  /\ bfAttempts = 0 /\ bfLocked = FALSE /\ bfFailed = 0 /\ bfLost = 0
  /\ bfStep = [g \in Guessers |-> "idle"]
  /\ akActive = {FirstKey} /\ akUsed = {FirstKey} /\ akRevoked = FALSE
  /\ akStep = [r \in Rotators |-> "idle"]
  /\ akOld = [r \in Rotators |-> NoKey]
  /\ akNew = [r \in Rotators |-> NoKey]

BfGo(g, step) == bfStep' = [bfStep EXCEPT ![g] = step]
Cleared == bfFailed' = 0 /\ bfLost' = 0
Loses == bfLost < MaxLost /\ bfLost' = bfLost + 1
OneMore == IF bfAttempts < BfMax THEN bfAttempts + 1 ELSE bfAttempts

\* guard: check() refuses while the lockout key is there.
Check(g) ==
  /\ bfStep[g] = "idle"
  /\ ~bfLocked
  /\ BfGo(g, "attempt")
  /\ UNCHANGED <<bfAttempts, bfLocked, bfFailed, bfLost, akVars>>

AttemptSucceeds(g) ==
  /\ bfStep[g] = "attempt"
  /\ BfGo(g, "delAttempts")
  /\ UNCHANGED <<bfAttempts, bfLocked, bfFailed, bfLost, akVars>>

AttemptFails(g) ==
  /\ bfStep[g] = "attempt"
  /\ BfGo(g, "incr")
  /\ bfFailed' = bfFailed + 1
  /\ UNCHANGED <<bfAttempts, bfLocked, bfLost, akVars>>

\* reset(): both keys, one after the other.
DelAttempts(g) ==
  /\ bfStep[g] = "delAttempts"
  /\ bfAttempts' = 0
  /\ Cleared
  /\ BfGo(g, "delLockout")
  /\ UNCHANGED <<bfLocked, akVars>>

DelLockout(g) ==
  /\ bfStep[g] = "delLockout"
  /\ bfLocked' = FALSE
  /\ Cleared
  /\ BfGo(g, "idle")
  /\ UNCHANGED <<bfAttempts, akVars>>

\* A del of reset rejects: guard catches that too and counts it as a failure,
\* which is the first one if the key is gone all the same.
ResetFails(g) ==
  /\ BfGo(g, "incr")
  /\ \/ /\ bfStep[g] \in {"delAttempts", "delLockout"}
        /\ bfFailed' = bfFailed + 1
        /\ UNCHANGED <<bfAttempts, bfLocked, bfLost>>
     \/ /\ bfStep[g] = "delAttempts"
        /\ bfAttempts' = 0 /\ bfFailed' = 1 /\ bfLost' = 0
        /\ UNCHANGED bfLocked
     \/ /\ bfStep[g] = "delLockout"
        /\ bfLocked' = FALSE /\ bfFailed' = 1 /\ bfLost' = 0
        /\ UNCHANGED bfAttempts
  /\ UNCHANGED akVars

\* Mutant: the counter is read, and the lockout decided by what was read.
CountBefore(g) ==
  /\ bfStep[g] = "incr"
  /\ bfAttempts' = OneMore
  /\ BfGo(g, IF bfAttempts >= BfMax THEN "lock" ELSE "idle")
  /\ UNCHANGED <<bfLocked, bfFailed, bfLost, akVars>>

\* recordFailure: one atomic incr,
CountFailure(g) ==
  /\ bfStep[g] = "incr"
  /\ bfAttempts' = OneMore
  /\ BfGo(g, IF bfAttempts' >= BfMax THEN "lock" ELSE "idle")
  /\ UNCHANGED <<bfLocked, bfFailed, bfLost, akVars>>

\* then setIfAbsent: a lock that is there is not made longer.
Lockout(g) ==
  /\ bfStep[g] = "lock"
  /\ bfLocked' = TRUE
  /\ BfGo(g, "idle")
  /\ UNCHANGED <<bfAttempts, bfFailed, bfLost, akVars>>

\* The incr rejects, done or not, or the process dies before its answer: no
\* lockout follows, whatever the count.
CountFails(g) ==
  /\ bfStep[g] = "incr"
  /\ Loses
  /\ bfAttempts' \in {bfAttempts, OneMore}
  /\ BfGo(g, "idle")
  /\ UNCHANGED <<bfLocked, bfFailed, akVars>>

\* The same of setIfAbsent: the counter is full and nothing may be locked.
LockoutFails(g) ==
  /\ bfStep[g] = "lock"
  /\ Loses
  /\ bfLocked' \in {bfLocked, TRUE}
  /\ BfGo(g, "idle")
  /\ UNCHANGED <<bfAttempts, bfFailed, akVars>>

\* The process dies during the attempt or the reset.
GuardDies(g) ==
  /\ bfStep[g] \in {"attempt", "delAttempts", "delLockout"}
  /\ BfGo(g, "idle")
  /\ UNCHANGED <<bfAttempts, bfLocked, bfFailed, bfLost, akVars>>

\* windowSeconds after the first failure.
WindowEnds ==
  /\ bfAttempts > 0
  /\ bfAttempts' = 0
  /\ Cleared
  /\ UNCHANGED <<bfLocked, bfStep, akVars>>

LockoutEnds ==
  /\ bfLocked
  /\ bfLocked' = FALSE
  /\ Cleared
  /\ UNCHANGED <<bfAttempts, bfStep, akVars>>

AkGo(r, step, old, new) ==
  /\ akStep' = [akStep EXCEPT ![r] = step]
  /\ akOld' = [akOld EXCEPT ![r] = old]
  /\ akNew' = [akNew EXCEPT ![r] = new]

\* rotate: requireOwned finds the key, revoked or not.
FindKey(r, k) ==
  /\ akStep[r] = "idle"
  /\ k \in akUsed
  /\ AkGo(r, "insert", k, NoKey)
  /\ UNCHANGED <<bfVars, akActive, akUsed, akRevoked>>

\* Mutant: the old key goes before its replacement is there.
RevokeFirst(r, k) ==
  /\ akStep[r] = "insert"
  /\ k \notin akUsed
  /\ akActive' = akActive \ {akOld[r]}
  /\ AkGo(r, "revoke", akOld[r], k)
  /\ UNCHANGED <<bfVars, akUsed, akRevoked>>

\* The replacement, active,
InsertKey(r, k) ==
  /\ akStep[r] = "insert"
  /\ k \notin akUsed
  /\ akUsed' = akUsed \cup {k}
  /\ akActive' = akActive \cup {k}
  /\ AkGo(r, "revoke", akOld[r], k)
  /\ UNCHANGED <<bfVars, akRevoked>>

\* and only then the old key is revoked, whatever became of it meanwhile.
RevokeOld(r) ==
  /\ akStep[r] = "revoke"
  /\ akActive' = akActive \ {akOld[r]}
  /\ AkGo(r, "idle", NoKey, NoKey)
  /\ UNCHANGED <<bfVars, akUsed, akRevoked>>

RevokeKey(k) ==
  /\ k \in akActive
  /\ akActive' = akActive \ {k}
  /\ akRevoked' = TRUE
  /\ UNCHANGED <<bfVars, akUsed, akStep, akOld, akNew>>

\* A statement fails or the process dies: nothing is undone.
RotateFails(r) ==
  /\ akStep[r] # "idle"
  /\ AkGo(r, "idle", NoKey, NoKey)
  /\ UNCHANGED <<bfVars, akActive, akUsed, akRevoked>>

BfNext ==
  \/ \E g \in Guessers :
       \/ Check(g) \/ AttemptSucceeds(g) \/ AttemptFails(g) \/ DelAttempts(g) \/ DelLockout(g)
       \/ ResetFails(g) \/ CountFailure(g) \/ Lockout(g) \/ CountFails(g) \/ LockoutFails(g)
       \/ GuardDies(g)
  \/ WindowEnds \/ LockoutEnds

AkNext ==
  \/ \E r \in Rotators, k \in ApiKeys : FindKey(r, k) \/ InsertKey(r, k)
  \/ \E r \in Rotators : RevokeOld(r) \/ RotateFails(r)
  \/ \E k \in ApiKeys : RevokeKey(k)

AuthSpec == AuthInit /\ [][BfNext \/ AkNext]_authVars

-----------------------------------------------------------------------------
AuthTypeOK ==
  /\ bfAttempts \in 0..BfMax /\ bfLocked \in BOOLEAN
  /\ bfFailed \in Nat /\ bfLost \in 0..MaxLost
  /\ bfStep \in [Guessers -> {"idle", "attempt", "delAttempts", "delLockout", "incr", "lock"}]
  /\ akActive \subseteq akUsed /\ akUsed \subseteq ApiKeys /\ akRevoked \in BOOLEAN
  /\ akStep \in [Rotators -> {"idle", "insert", "revoke"}]
  /\ akOld \in [Rotators -> ApiKeys \cup {NoKey}] /\ akNew \in [Rotators -> ApiKeys \cup {NoKey}]

\* While the window and the lock last, only attempts that were let in before the
\* lock came go past maxAttempts, one for every other guesser, and one more for
\* every recording that failed or died, however failures, successes and their
\* resets interleave.
GuessesBounded == bfFailed < BfMax + Cardinality(Guessers) + bfLost

\* The comment of the class promises more, "an atomic counter, so parallel guesses
\* cannot race past `maxAttempts`": no failure beyond maxAttempts while the window
\* and the lock last.  The code breaks this.
GuessesWithinMax == bfFailed <= BfMax

\* "A failed insert never leaves the tenant keyless": rotations, concurrent ones
\* and ones that fail or die at any statement, leave a key that works.  (Nor does
\* the code let a revoke be final: a rotation that read the key before it, or
\* reads it after, brings an active replacement.)
RotationKeepsAKey == akActive = {} => akRevoked
=============================================================================
