------------------------------- MODULE RunOnce -------------------------------
(***************************************************************************)
(* runOnce of @mariachi/core over an IdempotencyStore: workers of several  *)
(* processes claim a key, run a function, then mark the key done, or       *)
(* release it if the function threw.  One action is one call of the store  *)
(* (one Redis command) or the end of the function.  A claim carries no     *)
(* owner: release and complete act on whatever is stored under the key.    *)
(*                                                                         *)
(* Used by the billing webhook handler (BillingWebhooks), the webhook      *)
(* server and the auth webhook dispatcher.                                 *)
(***************************************************************************)
EXTENDS Naturals

CONSTANTS
  Workers,            \* concurrent executions of runOnce
  Keys,               \* idempotency keys
  NoWork,             \* the key of a worker that has none
  ClaimsOutliveRuns   \* whether processingTtlMs exceeds every run of fn

ASSUME RunOnceAssumption == NoWork \notin Keys /\ ClaimsOutliveRuns \in BOOLEAN

VARIABLES
  entry,     \* the store: [Keys -> {"free", "processing", "done"}]
  wpc,       \* the step each worker runs next
  work       \* the key it works on

onceVars == <<entry, wpc, work>>

WorkerSteps == {"idle", "claim", "run", "complete", "release"}

\* Steps in which a worker believes it owns its key.
Owning == {"run", "complete", "release"}

OnceInit ==
  /\ entry = [k \in Keys |-> "free"]
  /\ wpc = [w \in Workers |-> "idle"]
  /\ work = [w \in Workers |-> NoWork]

Proceed(w, step) ==
  /\ wpc' = [wpc EXCEPT ![w] = step]
  /\ UNCHANGED work

Leave(w) ==
  /\ wpc' = [wpc EXCEPT ![w] = "idle"]
  /\ work' = [work EXCEPT ![w] = NoWork]

Begin(w, k) ==
  /\ wpc[w] = "idle"
  /\ wpc' = [wpc EXCEPT ![w] = "claim"]
  /\ work' = [work EXCEPT ![w] = k]
  /\ UNCHANGED entry

\* Mutant: the claim overwrites whatever is there.
ClaimUnchecked(w) ==
  /\ wpc[w] = "claim"
  /\ entry' = [entry EXCEPT ![work[w]] = "processing"]
  /\ Proceed(w, "run")

\* CLAIM_SCRIPT, atomic in Redis.
Claimed(w) ==
  /\ wpc[w] = "claim"
  /\ entry[work[w]] = "free"
  /\ entry' = [entry EXCEPT ![work[w]] = "processing"]
  /\ Proceed(w, "run")

\* Another worker holds the key, or it already succeeded.
NotClaimed(w) ==
  /\ wpc[w] = "claim"
  /\ entry[work[w]] # "free"
  /\ Leave(w)
  /\ UNCHANGED entry

\* fn returned; fn threw.
Succeed(w) ==
  /\ wpc[w] = "run"
  /\ Proceed(w, "complete")
  /\ UNCHANGED entry

Throw(w) ==
  /\ wpc[w] = "run"
  /\ Proceed(w, "release")
  /\ UNCHANGED entry

Complete(w) ==
  /\ wpc[w] = "complete"
  /\ entry' = [entry EXCEPT ![work[w]] = "done"]
  /\ Leave(w)

\* complete() is inside the try: when it rejects, whether or not the store
\* applied it, the claim is released like after a throw of fn.
CompleteFails(w) ==
  /\ wpc[w] = "complete"
  /\ \E e \in {entry[work[w]], "done"} : entry' = [entry EXCEPT ![work[w]] = e]
  /\ Proceed(w, "release")

Release(w) ==
  /\ wpc[w] = "release"
  /\ entry' = [entry EXCEPT ![work[w]] = "free"]
  /\ Leave(w)

\* The store cannot be reached: the claim stays until it expires.
ReleaseFails(w) ==
  /\ wpc[w] = "release"
  /\ Leave(w)
  /\ UNCHANGED entry

\* The process dies, at any step.
Crash(w) ==
  /\ wpc[w] # "idle"
  /\ Leave(w)
  /\ UNCHANGED entry

\* Mutant: claims are stored without a TTL.
NeverExpire(k) == FALSE

\* A claim's TTL runs out.  (The completed marker outlives the sender's
\* retries, 7 days against 3, and is not expired here.)
Expire(k) ==
  /\ entry[k] = "processing"
  /\ ClaimsOutliveRuns => \A w \in Workers : ~(work[w] = k /\ wpc[w] \in Owning)
  /\ entry' = [entry EXCEPT ![k] = "free"]
  /\ UNCHANGED <<wpc, work>>

OnceStep(w) ==
  \/ Claimed(w) \/ NotClaimed(w)
  \/ Succeed(w) \/ Throw(w)
  \/ Complete(w) \/ CompleteFails(w)
  \/ Release(w) \/ ReleaseFails(w)

OnceNext ==
  \/ \E w \in Workers : OnceStep(w) \/ Crash(w) \/ \E k \in Keys : Begin(w, k)
  \/ \E k \in Keys : Expire(k)

OnceSpec == OnceInit /\ [][OnceNext]_onceVars

\* A worker's promises settle and the store drops expired keys.  Nothing
\* obliges anyone to call runOnce, or a process to die.
FairOnceSpec ==
  /\ OnceSpec
  /\ \A w \in Workers : WF_onceVars(OnceStep(w))
  /\ \A k \in Keys : WF_onceVars(Expire(k))

-----------------------------------------------------------------------------
\* Types of the store and of the workers.
OnceTypeOK ==
  /\ entry \in [Keys -> {"free", "processing", "done"}]
  /\ wpc \in [Workers -> WorkerSteps]
  /\ work \in [Workers -> Keys \cup {NoWork}]
  /\ \A w \in Workers : wpc[w] # "idle" => work[w] \in Keys

\* "Returns 'claimed' if the caller owns it": a key is never in two workers'
\* hands at once, through failures of the store and crashes, as long as claims
\* outlive the runs they protect.
OneRunAtATime ==
  ClaimsOutliveRuns =>
    \A v, w \in Workers :
      (wpc[v] \in Owning /\ wpc[w] \in Owning /\ work[v] = work[w]) => v = w

\* A claim never blocks its key for good, whatever becomes of its owner.
ClaimsEnd ==
  \A k \in Keys : entry[k] = "processing" ~> entry[k] # "processing"
=============================================================================
