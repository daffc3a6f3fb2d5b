------------------------------ MODULE RateLimit ------------------------------
(***************************************************************************)
(* The three scripts of RedisRateLimiter on one key: sliding window, fixed  *)
(* window and token bucket.  A script is one action at the time of the      *)
(* Redis server.  Tokens are counted in units of 1/Window, so that the      *)
(* division of the script is exact; its rounding is Redis's and left out.   *)
(***************************************************************************)
EXTENDS Integers, Functions

CONSTANTS
  Window,        \* windowMs
  MaxRequests,
  Costs,         \* rule.cost
  LastTime       \* bound: the clock of Redis

ASSUME RateAssumption ==
  /\ Window \in Nat \ {0} /\ MaxRequests \in Nat \ {0} /\ LastTime \in Nat \ {0}
  /\ Costs \subseteq Nat \ {0}

VARIABLES
  rlRule,        \* rule.algorithm
  rlNow,
  rlHits,        \* sliding: [time -> members of the set with that score]
  rlStart,       \* fixed: field w
  rlCount,       \* fixed: field c
  rlTokens,      \* bucket: field tokens
  rlStamp,       \* bucket: field ts
  rlExpiry,      \* when the key expires; it is absent from then on
  rlAdmitted,    \* [time -> cost admitted]
  rlRetry,       \* resetAt of one of the refusals since the last admission, or 0
  rlCost,        \* what was refused then,
  rlTaken        \* sliding: and the members there were

rlVars == <<rlRule, rlNow, rlHits, rlStart, rlCount, rlTokens, rlStamp, rlExpiry,
            rlAdmitted, rlRetry, rlCost, rlTaken>>

Times == 0..LastTime
NoHits == [t \in Times |-> 0]
CeilDiv(a, b) == (a + b - 1) \div b
Forgotten == rlRetry' = 0 /\ rlCost' = 0 /\ rlTaken' = 0

RateInit ==
  /\ rlRule \in {"sliding-window", "fixed-window", "token-bucket"}
  /\ rlNow = 1
  /\ rlHits = NoHits /\ rlStart = 0 /\ rlCount = 0 /\ rlTokens = 0 /\ rlStamp = 0
  /\ rlExpiry = 0
  /\ rlAdmitted = NoHits
  /\ rlRetry = 0 /\ rlCost = 0 /\ rlTaken = 0

Present == rlNow < rlExpiry

RateTick ==
  /\ rlNow < LastTime
  /\ rlNow' = rlNow + 1
  /\ UNCHANGED <<rlRule, rlHits, rlStart, rlCount, rlTokens, rlStamp, rlExpiry,
                 rlAdmitted, rlRetry, rlCost, rlTaken>>

\* Mutant: members one window old are counted out a moment early.
KeptEarly(t) == t + Window > rlNow + 1

\* ZREMRANGEBYSCORE -inf .. now - windowMs removes the others.
Kept(t) == t + Window > rlNow

Hits == IF Present THEN [t \in Times |-> IF Kept(t) THEN rlHits[t] ELSE 0] ELSE NoHits
Taken == SumFunctionOnSet(Hits, Times)

\* Start of the aligned window, and what was counted in it.
WindowStart == rlNow - (rlNow % Window)
Current == IF Present /\ rlStart = WindowStart THEN rlCount ELSE 0

\* A bucket that is not there is full.
Bucket ==
  LET full == MaxRequests * Window
      refilled == rlTokens + (rlNow - rlStamp) * MaxRequests
  IN IF ~Present \/ refilled > full THEN full ELSE refilled

Admits(cost) ==
  CASE rlRule = "sliding-window" -> Taken + cost <= MaxRequests
    [] rlRule = "fixed-window"   -> Current + cost <= MaxRequests
    [] rlRule = "token-bucket"   -> Bucket >= cost * Window

\* Mutant: the time to the next token is rounded down.
ResetTooSoon(cost) ==
  rlNow + (IF rlRule = "token-bucket" THEN (cost * Window - Bucket) \div MaxRequests ELSE Window)

\* resetAt of a refusal: the oldest member leaves, the next window starts, or
\* enough tokens have come.
ResetAt(cost) ==
  CASE rlRule = "sliding-window" ->
         LET taken == {t \in Times : Hits[t] > 0}
         IN (IF taken = {} THEN rlNow ELSE CHOOSE t \in taken : \A u \in taken : t <= u) + Window
    [] rlRule = "fixed-window"   -> WindowStart + Window
    [] rlRule = "token-bucket"   -> rlNow + CeilDiv(cost * Window - Bucket, MaxRequests)

Admit(cost) ==
  /\ Admits(cost)
  /\ CASE rlRule = "sliding-window" ->
            /\ rlHits' = [Hits EXCEPT ![rlNow] = @ + cost]
            /\ rlExpiry' = rlNow + Window
            /\ UNCHANGED <<rlStart, rlCount, rlTokens, rlStamp>>
       [] rlRule = "fixed-window" ->
            /\ rlStart' = WindowStart /\ rlCount' = Current + cost
            /\ rlExpiry' = WindowStart + Window
            /\ UNCHANGED <<rlHits, rlTokens, rlStamp>>
       [] rlRule = "token-bucket" ->
            /\ rlTokens' = Bucket - cost * Window /\ rlStamp' = rlNow
            /\ rlExpiry' = rlNow + 2 * Window
            /\ UNCHANGED <<rlHits, rlStart, rlCount>>
  /\ rlAdmitted' = [rlAdmitted EXCEPT ![rlNow] = @ + cost]
  /\ Forgotten
  /\ UNCHANGED <<rlRule, rlNow>>

\* A refusal still purges the set, or writes the refilled bucket back.  The
\* refusal that is followed is this one, or stays an earlier one.
Refuse(cost) ==
  /\ ~Admits(cost)
  /\ rlHits' = IF rlRule = "sliding-window" THEN Hits ELSE rlHits
  /\ IF rlRule = "token-bucket"
     THEN rlTokens' = Bucket /\ rlStamp' = rlNow /\ rlExpiry' = rlNow + 2 * Window
     ELSE UNCHANGED <<rlTokens, rlStamp, rlExpiry>>
  /\ \/ rlRetry' = ResetAt(cost) /\ rlCost' = cost /\ rlTaken' = Taken
     \/ rlRetry > 0 /\ UNCHANGED <<rlRetry, rlCost, rlTaken>>
  /\ UNCHANGED <<rlRule, rlNow, rlStart, rlCount, rlAdmitted>>

\* reset(): DEL.
RateReset ==
  /\ Present
  /\ rlExpiry' = 0
  /\ rlAdmitted' = NoHits
  /\ Forgotten
  /\ UNCHANGED <<rlRule, rlNow, rlHits, rlStart, rlCount, rlTokens, rlStamp>>

RateNext ==
  \/ RateTick
  \/ \E cost \in Costs : Admit(cost) \/ Refuse(cost)
  \/ RateReset

RateSpec == RateInit /\ [][RateNext]_rlVars

-----------------------------------------------------------------------------
RateTypeOK ==
  /\ rlNow \in Times
  /\ \A t \in Times : rlHits[t] \in 0..MaxRequests /\ rlAdmitted[t] \in 0..MaxRequests
  /\ rlStart \in Times /\ rlCount \in 0..MaxRequests
  /\ rlTokens \in 0..(MaxRequests * Window) /\ rlStamp \in Times
  /\ rlExpiry \in Nat /\ rlRetry \in Nat
  /\ rlCost \in Costs \cup {0} /\ rlTaken \in 0..MaxRequests

\* No window lets more through than its rule, across the boundaries of windows,
\* expiring keys and refusals: a sliding window in any span of Window, a fixed
\* one in any aligned span, a bucket in any span its capacity and the refill of
\* that span.
AdmittedWithinRule ==
  CASE rlRule = "sliding-window" ->
         \A a \in Times :
           SumFunctionOnSet(rlAdmitted, {t \in Times : a <= t /\ t < a + Window}) <= MaxRequests
    [] rlRule = "fixed-window" ->
         \A k \in 0..(LastTime \div Window) :
           SumFunctionOnSet(rlAdmitted, {t \in Times : t \div Window = k}) <= MaxRequests
    [] rlRule = "token-bucket" ->
         \A a \in Times : \A b \in a..LastTime :
           SumFunctionOnSet(rlAdmitted, a..b) * Window <= MaxRequests * (Window + (b - a))

\* A client that was refused a request the rule can admit at all, and comes back
\* at resetAt, nobody else having been admitted since: under a fixed window and a
\* bucket it is admitted, whatever the weight.  Under a sliding window resetAt is
\* the time at which the oldest member leaves: a request of weight 1 is admitted,
\* a heavier one finds more room than when it was refused, but may be refused
\* again, with a later resetAt.
RetryIsAdmitted ==
  rlRetry > 0 /\ rlNow >= rlRetry /\ rlCost <= MaxRequests =>
    IF rlRule = "sliding-window" THEN Taken < rlTaken /\ (rlCost = 1 => Admits(1))
    ELSE Admits(rlCost)
=============================================================================
