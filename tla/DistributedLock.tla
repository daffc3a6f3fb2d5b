--------------------------- MODULE DistributedLock ---------------------------
(***************************************************************************)
(* RedisDistributedLock of @mariachi/cache on one key.  The key holds a    *)
(* random token: of a caller of acquireToken or withLock, who keeps it in  *)
(* a variable of its own (held), or of an instance that called acquire,    *)
(* which remembers the last one per key in its tokens map (localTokens).   *)
(* Every release and every extension is a Redis script that compares the   *)
(* token first.  The TTL is abstracted to ExpireLock, which may come at    *)
(* any time unless locks outlive the work they protect (lockOutlives).     *)
(* A second key holds an owned lock, whose value names its owner.          *)
(***************************************************************************)
EXTENDS Naturals

CONSTANTS
  LockCallers,     \* concurrent callers, each with a name for owned locks
  LockInstances,   \* processes with a RedisDistributedLock
  Tokens,          \* the random tokens: more of them than are ever in use
  NoToken

ASSUME LockAssumption == NoToken \notin Tokens \cup LockCallers

VARIABLES
  lockKey,         \* what Redis holds under the key
  held,            \* [LockCallers -> token of the caller's withLock]
  localTokens,     \* [LockInstances -> this.tokens.get(key)]
  lockOutlives,    \* whether TTL and extensions outlast the runs: set in Init
  ownedLock,       \* the owner Redis holds under the second key
  asking           \* [LockCallers -> step of acquireOwned]

tokenVars == <<lockKey, held, localTokens, lockOutlives>>
ownedVars == <<ownedLock, asking>>
lockVars == <<tokenVars, ownedVars>>

LockInit ==
  /\ lockKey = NoToken
  /\ held = [c \in LockCallers |-> NoToken]
  /\ localTokens = [i \in LockInstances |-> NoToken]
  /\ lockOutlives \in BOOLEAN
  /\ ownedLock = NoToken
  /\ asking = [c \in LockCallers |-> "no"]

\* SET key token PX ttl NX.
SetIfFree(t) ==
  /\ lockKey = NoToken
  /\ lockKey' = t

\* Mutant: DEL without comparing.
DelAlways(t) == lockKey' = NoToken

\* RELEASE_SCRIPT.
DelIfEqual(t) == lockKey' = IF lockKey = t THEN NoToken ELSE lockKey

\* randomBytes(16): a token nobody has.
FreshToken(t) ==
  /\ t \in Tokens \ {lockKey}
  /\ \A c \in LockCallers : held[c] # t
  /\ \A i \in LockInstances : localTokens[i] # t

AcquireToken(c) ==
  /\ held[c] = NoToken
  /\ UNCHANGED <<localTokens, lockOutlives, ownedVars>>
  /\ \E t \in Tokens :
    /\ FreshToken(t)
    /\ SetIfFree(t)
    /\ held' = [held EXCEPT ![c] = t]

ReleaseToken(c) ==
  /\ held[c] # NoToken
  /\ DelIfEqual(held[c])
  /\ held' = [held EXCEPT ![c] = NoToken]
  /\ UNCHANGED <<localTokens, lockOutlives, ownedVars>>

\* releaseToken(...).catch: Redis could not be reached, fn's result stands.
ReleaseTokenFails(c) ==
  /\ held[c] # NoToken
  /\ held' = [held EXCEPT ![c] = NoToken]
  /\ UNCHANGED <<lockKey, localTokens, lockOutlives, ownedVars>>

\* acquire(key): node-local, the instance remembers the token.
AcquireLocal(i) ==
  /\ UNCHANGED <<held, lockOutlives, ownedVars>>
  /\ \E t \in Tokens :
    /\ FreshToken(t)
    /\ SetIfFree(t)
    /\ localTokens' = [localTokens EXCEPT ![i] = t]

\* release(key): whichever call of this instance acquired last.  A failed
\* script leaves the key but forgets the token all the same (finally).
ReleaseLocal(i) ==
  /\ localTokens[i] # NoToken
  /\ DelIfEqual(localTokens[i]) \/ UNCHANGED lockKey
  /\ localTokens' = [localTokens EXCEPT ![i] = NoToken]
  /\ UNCHANGED <<held, lockOutlives, ownedVars>>

HeldBy(t) == \E c \in LockCallers : held[c] = t

\* The TTL runs out.  With lockOutlives, only once its owner is gone; without,
\* also under a running owner: an extension that fails is ignored by withLock.
ExpireLock ==
  /\ lockKey # NoToken
  /\ lockOutlives => ~HeldBy(lockKey)
  /\ lockKey' = NoToken
  /\ UNCHANGED <<held, localTokens, lockOutlives, ownedVars>>

\* acquireOwned: SET NX of the owner's record; if it is taken, look who has it.
AskOwned(c) ==
  /\ asking[c] = "no"
  /\ \/ /\ ownedLock = NoToken
        /\ ownedLock' = c
        /\ UNCHANGED asking
     \/ /\ ownedLock # NoToken
        /\ asking' = [asking EXCEPT ![c] = "inspect"]
        /\ UNCHANGED ownedLock
  /\ UNCHANGED tokenVars

\* inspect(): the holder's record is the answer; expired meanwhile, try again.
InspectOwned(c) ==
  /\ asking[c] = "inspect"
  /\ asking' = [asking EXCEPT ![c] = IF ownedLock = NoToken THEN "retry" ELSE "no"]
  /\ UNCHANGED <<tokenVars, ownedLock>>

RetryOwned(c) ==
  /\ asking[c] = "retry"
  /\ ownedLock' = IF ownedLock = NoToken THEN c ELSE ownedLock
  /\ asking' = [asking EXCEPT ![c] = "no"]
  /\ UNCHANGED tokenVars

\* RELEASE_OWNED_SCRIPT, sent by whoever knows the owner.
ReleaseOwned(c) ==
  /\ ownedLock = c
  /\ ownedLock' = NoToken
  /\ UNCHANGED <<tokenVars, asking>>

ExpireOwned ==
  /\ ownedLock # NoToken
  /\ ownedLock' = NoToken
  /\ UNCHANGED <<tokenVars, asking>>

TokenNext ==
  \/ \E c \in LockCallers : AcquireToken(c) \/ ReleaseToken(c) \/ ReleaseTokenFails(c)
  \/ \E i \in LockInstances : AcquireLocal(i) \/ ReleaseLocal(i)
  \/ ExpireLock

OwnedNext ==
  \/ \E c \in LockCallers : AskOwned(c) \/ InspectOwned(c) \/ RetryOwned(c) \/ ReleaseOwned(c)
  \/ ExpireOwned

LockSpec == LockInit /\ [][TokenNext \/ OwnedNext]_lockVars

-----------------------------------------------------------------------------
LockTypeOK ==
  /\ lockKey \in Tokens \cup {NoToken}
  /\ held \in [LockCallers -> Tokens \cup {NoToken}]
  /\ localTokens \in [LockInstances -> Tokens \cup {NoToken}]
  /\ lockOutlives \in BOOLEAN
  /\ ownedLock \in LockCallers \cup {NoToken}
  /\ asking \in [LockCallers -> {"no", "inspect", "retry"}]

\* "Only this process instance can release it", "release with releaseToken",
\* "release an owned lock iff owner matches": a lock goes from its holder to
\* nobody, through that holder's own release or its expiry, and to another
\* holder never, however late a former holder's release or retry arrives.
OnlyHoldersRelease ==
  [][/\ lockKey # NoToken /\ lockKey' # lockKey =>
          /\ lockKey' = NoToken
          /\ \/ \E c \in LockCallers : held[c] = lockKey /\ held'[c] = NoToken
             \/ \E i \in LockInstances : localTokens[i] = lockKey /\ localTokens'[i] = NoToken
             \/ ExpireLock
     /\ ownedLock # NoToken /\ ownedLock' # ownedLock =>
          ownedLock' = NoToken /\ (ReleaseOwned(ownedLock) \/ ExpireOwned)]_lockVars
=============================================================================
