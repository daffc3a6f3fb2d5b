---------------------------- MODULE RequestsProofs ----------------------------
(***************************************************************************)
(* Theorems about requests that are sent again until they succeed: the     *)
(* deliveries of the inbound webhook server, the calls of billing that     *)
(* make something at the provider, and the pages of a repository. For any  *)
(* number of them, of workers, of attempts and of rows: the server         *)
(* implements runOnce, what it records as done was done, a retried call    *)
(* bills once, and a walk over the pages misses no row that stays. Also:   *)
(* how many the rate limiter lets through and when a refused one may come  *)
(* again, what a change of plan that is sent again makes, and that no      *)
(* check allows what has been revoked once every copy of it is gone.       *)
(***************************************************************************)
EXTENDS InboundWebhooks, BillingCalls, RepositoryPages, RateLimit, PlanChange,
        AccessChecks, RunOnceProofs, SumLemmas

(***************************************************************************)
(* The server.  The steps of process() and those of runOnce around it fit: *)
(* a delivery is in process() while its worker owns the claim, and on the  *)
(* same event; a server without a store never touches the claims.  The     *)
(* second half carries the fact that the work was done from the step that  *)
(* did it to the entry of the store and the row of the log.                *)
(***************************************************************************)

Processing == {"log", "handler", "act", "mark", "fail", "return", "throw"}

Claims ==
  /\ deduplicates => \A w \in Workers :
       /\ work[w] = subject[w]
       /\ ipc[w] = "idle" <=> wpc[w] = "idle"
       /\ ipc[w] = "once" <=> wpc[w] = "claim"
       /\ ipc[w] \in Processing <=> wpc[w] = "run"
       /\ ipc[w] = "ending" <=> wpc[w] \in {"complete", "release"}
  /\ ~deduplicates =>
       /\ \A w \in Workers : wpc[w] = "idle" /\ ipc[w] \notin {"once", "ending"}
       /\ \A e \in Keys : entry[e] = "free"
  /\ \A w \in Workers : ipc[w] # "idle" => subject[w] \in Keys

WorkDone ==
  \A w \in Workers :
    /\ ipc[w] \in {"mark", "return"} => subject[w] \in worked
    /\ wpc[w] = "complete" => subject[w] \in worked
    /\ ipc[w] = "idle" => log[w] = "none"

InboundInv == InboundTypeOK /\ Claims /\ WorkDone /\ DeliveredOnce

\* The server calls the store as runOnce does: each of its steps is a step of
\* one runOnce per worker or leaves runOnce alone.
LEMMA InboundStepImplements ==
  ASSUME InboundInv, [InboundNext]_inboundVars
  PROVE  [OnceNext]_onceVars
<1>1. CASE UNCHANGED inboundVars
  BY <1>1 DEF inboundVars
<1>2. ASSUME NEW w \in Workers, NEW e \in Keys, Receive(w, e) PROVE [OnceNext]_onceVars
  BY <1>2 DEF Receive, OnceNext
<1>3. ASSUME NEW w \in Workers, SkipDuplicate(w) \/ ClaimDelivery(w)
      PROVE  [OnceNext]_onceVars
  BY <1>3 DEF SkipDuplicate, ClaimDelivery, OnceNext, OnceStep
<1>4. ASSUME NEW w \in Workers, \/ LogDelivery(w) \/ RunHandler(w) \/ CallProcedure(w)
                                \/ EnqueueJob(w) \/ MarkProcessed(w) \/ MarkFailed(w)
      PROVE  [OnceNext]_onceVars
  BY <1>4 DEF LogDelivery, RunHandler, CallProcedure, EnqueueJob, MarkProcessed, MarkFailed
<1>5. ASSUME NEW w \in Workers, Answered(w) PROVE [OnceNext]_onceVars
  BY <1>5 DEF Answered, OnceNext, OnceStep
<1>6. ASSUME NEW w \in Workers, ConcludeClaim(w) PROVE [OnceNext]_onceVars
  BY <1>6 DEF ConcludeClaim, OnceNext, OnceStep
<1>7. ASSUME NEW w \in Workers, ServerDies(w) PROVE [OnceNext]_onceVars
  BY <1>7 DEF ServerDies, OnceNext
<1>8. ASSUME NEW e \in Keys, StrayEnds(e) PROVE [OnceNext]_onceVars
  BY <1>8 DEF StrayEnds
<1>9. ASSUME NEW e \in Keys, ClaimExpires(e) PROVE [OnceNext]_onceVars
  BY <1>9 DEF ClaimExpires, OnceNext
<1> QED
  BY <1>1, <1>2, <1>3, <1>4, <1>5, <1>6, <1>7, <1>8, <1>9 DEF InboundNext, InboundStep

LEMMA InboundTypeStep ==
  ASSUME InboundInv, [InboundNext]_inboundVars
  PROVE  InboundTypeOK'
<1> USE DEF InboundTypeOK
<1>0. OnceTypeOK'
  BY InboundStepImplements, OnceTypeStep DEF InboundInv
<1>1. CASE UNCHANGED inboundVars
  BY <1>0, <1>1 DEF InboundInv, inboundVars, workVars
<1>2. ASSUME NEW w \in Workers, NEW e \in Keys, Receive(w, e) PROVE InboundTypeOK'
  BY <1>0, <1>2 DEF InboundInv, Receive, workVars, ProcessSteps
<1>3. ASSUME NEW w \in Workers,
             SkipDuplicate(w) \/ ClaimDelivery(w) \/ Answered(w) \/ ConcludeClaim(w)
      PROVE  InboundTypeOK'
  BY <1>0, <1>3 DEF InboundInv, SkipDuplicate, ClaimDelivery, Answered, ConcludeClaim, Forget, Now,
                    workVars, ProcessSteps, Statuses
<1>4. ASSUME NEW w \in Workers, LogDelivery(w) \/ RunHandler(w) \/ MarkProcessed(w) \/ MarkFailed(w)
      PROVE  InboundTypeOK'
  BY <1>0, <1>4 DEF InboundInv, LogDelivery, RunHandler, MarkProcessed, MarkFailed, LogAs, Now,
                    workVars, ProcessSteps, Statuses
<1>5. ASSUME NEW w \in Workers, CallProcedure(w) PROVE InboundTypeOK'
  BY <1>0, <1>5, InboundAssumption DEF InboundInv, CallProcedure, Claims, Now, ProcessSteps
<1>6. ASSUME NEW w \in Workers, EnqueueJob(w) PROVE InboundTypeOK'
  BY <1>0, <1>6, InboundAssumption DEF InboundInv, EnqueueJob, AddJob, Claims, Now, ProcessSteps
<1>7. ASSUME NEW w \in Workers, ServerDies(w) PROVE InboundTypeOK'
  BY <1>0, <1>7, InboundAssumption DEF InboundInv, ServerDies, Forget, ProcessSteps, Statuses
<1>8. ASSUME NEW e \in Keys, StrayEnds(e) PROVE InboundTypeOK'
  BY <1>0, <1>8, InboundAssumption DEF InboundInv, StrayEnds
<1>9. ASSUME NEW e \in Keys, ClaimExpires(e) PROVE InboundTypeOK'
  BY <1>0, <1>9 DEF InboundInv, ClaimExpires, workVars
<1> QED
  BY <1>1, <1>2, <1>3, <1>4, <1>5, <1>6, <1>7, <1>8, <1>9 DEF InboundNext, InboundStep

LEMMA ClaimsStep ==
  ASSUME InboundInv, [InboundNext]_inboundVars
  PROVE  Claims'
<1> USE DEF InboundInv, InboundTypeOK, OnceTypeOK, Claims, Processing, workVars
<1>1. CASE UNCHANGED inboundVars
  BY <1>1 DEF inboundVars, onceVars
<1>2. ASSUME NEW w \in Workers, NEW e \in Keys, Receive(w, e) PROVE Claims'
  BY <1>2 DEF Receive, Begin, onceVars
<1>3. ASSUME NEW w \in Workers, SkipDuplicate(w) PROVE Claims'
  BY <1>3 DEF SkipDuplicate, NotClaimed, Leave, Forget
<1>4. ASSUME NEW w \in Workers, ClaimDelivery(w) PROVE Claims'
  BY <1>4 DEF ClaimDelivery, Claimed, Proceed, Now
<1>5. ASSUME NEW w \in Workers, LogDelivery(w) \/ RunHandler(w) \/ CallProcedure(w)
      PROVE  Claims'
  BY <1>5 DEF LogDelivery, RunHandler, CallProcedure, Now, onceVars
<1>6. ASSUME NEW w \in Workers, EnqueueJob(w) \/ MarkProcessed(w) \/ MarkFailed(w)
      PROVE  Claims'
  BY <1>6 DEF EnqueueJob, MarkProcessed, MarkFailed, Now, onceVars
<1>7. ASSUME NEW w \in Workers, Answered(w) PROVE Claims'
  BY <1>7 DEF Answered, Succeed, Throw, Proceed, Forget, Now, onceVars
<1>8. ASSUME NEW w \in Workers, ConcludeClaim(w) PROVE Claims'
  BY <1>8 DEF ConcludeClaim, Complete, CompleteFails, Release, ReleaseFails, Leave, Proceed, Forget
<1>9. ASSUME NEW w \in Workers, ServerDies(w) PROVE Claims'
  BY <1>9 DEF ServerDies, Crash, Leave, Forget, onceVars
<1>10. ASSUME NEW e \in Keys, StrayEnds(e) \/ ClaimExpires(e) PROVE Claims'
  BY <1>10 DEF StrayEnds, ClaimExpires, Expire, onceVars
<1> QED
  BY <1>1, <1>2, <1>3, <1>4, <1>5, <1>6, <1>7, <1>8, <1>9, <1>10 DEF InboundNext, InboundStep

\* What was worked on stays so.
LEMMA WorkedGrows ==
  ASSUME [InboundNext]_inboundVars
  PROVE  worked \subseteq worked'
<1>1. CASE UNCHANGED inboundVars
  BY <1>1 DEF inboundVars, workVars
<1>2. CASE InboundNext
  BY <1>2 DEF InboundNext, InboundStep, Receive, SkipDuplicate, ClaimDelivery, LogDelivery,
      RunHandler, CallProcedure, EnqueueJob, MarkProcessed, MarkFailed, Answered, ConcludeClaim,
      ServerDies, StrayEnds, ClaimExpires, workVars
<1> QED BY <1>1, <1>2

LEMMA WorkStep ==
  ASSUME InboundInv, [InboundNext]_inboundVars
  PROVE  WorkDone' /\ DeliveredOnce'
<1> USE WorkedGrows DEF InboundInv, InboundTypeOK, OnceTypeOK, Claims, Processing, WorkDone, DeliveredOnce
<1>1. CASE UNCHANGED inboundVars
  BY <1>1 DEF inboundVars, onceVars, workVars
<1>2. ASSUME NEW w \in Workers, NEW e \in Keys, Receive(w, e)
      PROVE  WorkDone' /\ DeliveredOnce'
  BY <1>2 DEF Receive, Begin, onceVars, workVars
<1>3. ASSUME NEW w \in Workers, SkipDuplicate(w) \/ ClaimDelivery(w)
      PROVE  WorkDone' /\ DeliveredOnce'
  BY <1>3 DEF SkipDuplicate, ClaimDelivery, NotClaimed, Claimed, Proceed, Leave, Forget, Now, workVars
<1>4. ASSUME NEW w \in Workers, LogDelivery(w) \/ RunHandler(w)
      PROVE  WorkDone' /\ DeliveredOnce'
  BY <1>4 DEF LogDelivery, RunHandler, LogAs, Now, onceVars, workVars
<1>5. ASSUME NEW w \in Workers, CallProcedure(w)
      PROVE  WorkDone' /\ DeliveredOnce'
  BY <1>5 DEF CallProcedure, Now, onceVars
<1>6. ASSUME NEW w \in Workers, EnqueueJob(w)
      PROVE  WorkDone' /\ DeliveredOnce'
  BY <1>6 DEF EnqueueJob, AddJob, Now, onceVars
<1>7. ASSUME NEW w \in Workers, MarkProcessed(w) \/ MarkFailed(w)
      PROVE  WorkDone' /\ DeliveredOnce'
  BY <1>7 DEF MarkProcessed, MarkFailed, LogAs, Now, onceVars, workVars
<1>8. ASSUME NEW w \in Workers, Answered(w)
      PROVE  WorkDone' /\ DeliveredOnce'
  BY <1>8 DEF Answered, Succeed, Throw, Proceed, Forget, Now, onceVars, workVars
<1>9. ASSUME NEW w \in Workers, ConcludeClaim(w)
      PROVE  WorkDone' /\ DeliveredOnce'
  BY <1>9 DEF ConcludeClaim, Complete, CompleteFails, Release, ReleaseFails, Leave, Proceed, Forget,
              workVars
<1>10. ASSUME NEW w \in Workers, ServerDies(w)
      PROVE  WorkDone' /\ DeliveredOnce'
  BY <1>10 DEF ServerDies, Crash, Leave, Forget, onceVars
<1>11. ASSUME NEW e \in Keys, StrayEnds(e) \/ ClaimExpires(e)
       PROVE  WorkDone' /\ DeliveredOnce'
  BY <1>11 DEF StrayEnds, ClaimExpires, Expire, onceVars, workVars
<1> QED
  BY <1>1, <1>2, <1>3, <1>4, <1>5, <1>6, <1>7, <1>8, <1>9, <1>10, <1>11 DEF InboundNext, InboundStep

LEMMA InboundInvariant == InboundSpec => []InboundInv
<1>1. InboundInit => InboundInv
  BY RunOnceAssumption, InboundAssumption
  DEF InboundInit, OnceInit, InboundInv, InboundTypeOK, OnceTypeOK, Claims, Processing, WorkDone,
      DeliveredOnce, ProcessSteps, Statuses, WorkerSteps
<1>2. InboundInv /\ [InboundNext]_inboundVars => InboundInv'
  BY InboundTypeStep, ClaimsStep, WorkStep DEF InboundInv
<1> QED BY <1>1, <1>2, PTL DEF InboundSpec

\* Types of the inbound webhook server's state.
THEOREM InboundTypeCorrect == InboundSpec => []InboundTypeOK
BY InboundInvariant, PTL DEF InboundInv

\* Whatever queues, logs, stores and instances do, an event never becomes two
\* jobs, and an event the store marks done or a row calls processed has its job
\* or the return of its procedure: for any workers, events and timeouts.
THEOREM DeliveredOnceHolds == InboundSpec => []DeliveredOnce
BY InboundInvariant, PTL DEF InboundInv

\* With or without an idempotency store, the server's use of the store is the
\* one runOnce describes.
THEOREM ServerImplementsRunOnce == InboundSpec => OnceSpec
<1>1. InboundInit => OnceInit
  BY DEF InboundInit
<1>2. InboundInv /\ [InboundNext]_inboundVars => [OnceNext]_onceVars
  BY InboundStepImplements
<1> QED BY <1>1, <1>2, InboundInvariant, PTL DEF InboundSpec, OnceSpec

\* So no event is in the hands of two deliveries at once, as long as claims
\* outlive the runs they protect.
THEOREM OneDeliveryAtATime == InboundSpec => []OneRunAtATime
BY ServerImplementsRunOnce, OneRunAtATimeHolds, PTL
-----------------------------------------------------------------------------
(***************************************************************************)
(* The calls of billing.  What an attempt knows from the awaits behind it: *)
(* which kind of operation it is at, that the provider has made what it is *)
(* about to store, that the usage it reports is recorded.                  *)
(***************************************************************************)

Attempted ==
  \A a \in Attempts :
    /\ cstep[a] # "idle" => cop[a] \in Operations
    /\ cstep[a] \in {"check", "create", "store"} => cop[a] \notin Usages
    /\ cstep[a] \in {"record", "report"} => cop[a] \in Usages
    /\ cstep[a] = "store" => made[cop[a]] = 1
    /\ cstep[a] = "report" => cop[a] \in usageRow

CallsInv == CallsTypeOK /\ Attempted /\ RetriesBillOnce

LEMMA CallsStep ==
  ASSUME CallsInv, [CallsNext]_callsVars
  PROVE  CallsInv'
<1> USE DEF CallsInv, CallsTypeOK, Attempted, RetriesBillOnce, At, To, Over, providerVars
<1>1. CASE UNCHANGED callsVars
  BY <1>1 DEF callsVars
<1>2. ASSUME NEW a \in Attempts, NEW o \in Operations, BeginCall(a, o) PROVE CallsInv'
  BY <1>2, BillingCallsAssumption DEF BeginCall, Operations
<1>3. ASSUME NEW a \in Attempts, CheckExisting(a) PROVE CallsInv'
  BY <1>3 DEF CheckExisting
<1>4. ASSUME NEW a \in Attempts, CreateAtProvider(a) PROVE CallsInv'
  <2>1. CASE UNCHANGED made /\ Over(a)
    BY <1>4, <2>1 DEF CreateAtProvider
  <2>2. CASE MakeOnce(cop[a]) /\ Over(a)
    BY <1>4, <2>2 DEF CreateAtProvider, MakeOnce
  <2>3. CASE MakeOnce(cop[a]) /\ To(a, "store")
    BY <1>4, <2>3 DEF CreateAtProvider, MakeOnce
  <2> QED BY <1>4, <2>1, <2>2, <2>3 DEF CreateAtProvider
<1>5. ASSUME NEW a \in Attempts, StoreResult(a) PROVE CallsInv'
  BY <1>5 DEF StoreResult
<1>6. ASSUME NEW a \in Attempts, RecordUsage(a) PROVE CallsInv'
  BY <1>6 DEF RecordUsage
<1>7. ASSUME NEW a \in Attempts, ReportUsage(a) PROVE CallsInv'
  <2>1. CASE UNCHANGED <<made, told>>
    BY <1>7, <2>1 DEF ReportUsage
  <2>2. CASE MakeOnce(cop[a])
    BY <1>7, <2>2 DEF ReportUsage, MakeOnce, Operations
  <2> QED BY <1>7, <2>1, <2>2 DEF ReportUsage
<1>8. ASSUME NEW a \in Attempts, AttemptDies(a) PROVE CallsInv'
  BY <1>8 DEF AttemptDies
<1>9. ASSUME NEW o \in Operations, Settles(o) \/ EventMirrors(o) PROVE CallsInv'
  BY <1>9 DEF Settles, EventMirrors
<1> QED BY <1>1, <1>2, <1>3, <1>4, <1>5, <1>6, <1>7, <1>8, <1>9 DEF CallsNext

LEMMA CallsInvariant == CallsSpec => []CallsInv
<1>1. CallsInit => CallsInv
  BY BillingCallsAssumption
  DEF CallsInit, CallsInv, CallsTypeOK, Attempted, RetriesBillOnce, Operations
<1>2. CallsInv /\ [CallsNext]_callsVars => CallsInv'
  BY CallsStep
<1> QED BY <1>1, <1>2, PTL DEF CallsSpec

\* Retries bill once: for any operations and any attempts of each, in order, at
\* once or dead at any await, the provider makes one thing, counts no usage
\* without its record, and what a caller was told is stored.
THEOREM RetriesBillOnceHolds == CallsSpec => []RetriesBillOnce
BY CallsInvariant, PTL DEF CallsInv

(***************************************************************************)
(* A walk over a repository.  Rows sort by place, in one total order; a     *)
(* page is the beginning of the rest, so the cursor it leaves has every row *)
(* of the page behind it and no row that it left out.  A row that nobody    *)
(* writes keeps its place: it is behind the cursor just when it was got.    *)
(***************************************************************************)

Steady(i) == /\ i \in RowIds /\ rows[i] # Absent /\ rows[i].tenant = walk.tenant
             /\ ~rows[i].deleted /\ rows[i].stamp \in Nat

BehindCursor ==
  ~walk.ended =>
    /\ walk.first => seen = {}
    /\ ~walk.first => \A i \in steady : i \in seen <=> ~Comes(walk.cursor, Place(i))

PagesTypes ==
  /\ rows \in [RowIds -> Row \cup {Absent}]
  /\ walk \in [tenant : RepoTenants, direction : {"asc", "desc"}, first : BOOLEAN,
               cursor : [stamp : Nat, id : Nat], ended : BOOLEAN]
  /\ \A i \in steady : Steady(i)

PagesInv == PagesTypes /\ BehindCursor /\ PagesMissNothing

\* A measure in Nat over a set with an element has a least value.
LEMMA LeastMeasured ==
  ASSUME NEW S, S # {}, NEW f, \A i \in S : f[i] \in Nat
  PROVE  \E i \in S : \A j \in S : f[i] <= f[j]
<1> DEFINE T == {f[i] : i \in S}
<1>1. T \in SUBSET Nat /\ T # {}
  OBVIOUS
<1> HIDE DEF T
<1>2. IsWellFoundedOn(OpToRel(<, Nat), Nat)
  BY NatLessThanWellFounded
<1>3. PICK n \in T : \A m \in T : ~(<<m, n>> \in OpToRel(<, Nat))
  BY <1>1, <1>2, WFMin
<1>4. \A m \in T : n <= m
  <2>1. T \in SUBSET Nat
    BY <1>1
  <2>2. \A m \in T : ~(m < n)
    BY ONLY <1>3, <2>1 DEF OpToRel
  <2> QED BY <2>1, <2>2
<1>5. PICK i \in S : n = f[i]
  BY <1>3 DEF T
<1>6. \A j \in S : f[j] \in T
  BY DEF T
<1> QED BY <1>4, <1>5, <1>6

InOrder(S, Before) ==
  /\ \A i \in S : <<i, i>> \notin Before
  /\ \A i, j, k \in S : <<i, j>> \in Before /\ <<j, k>> \in Before => <<i, k>> \in Before
  /\ \A i, j \in S : i = j \/ <<i, j>> \in Before \/ <<j, i>> \in Before

Lowest(page, rest, Before, n) ==
  page = {i \in rest : Cardinality({j \in rest : <<j, i>> \in Before}) < n}

ClosedBelow(page, rest, Before) ==
  \A i \in page : \A j \in rest : <<j, i>> \in Before => j \in page

HasALast(page, Before) ==
  \E last \in page : \A j \in page \ {last} : <<j, last>> \in Before

\* The first n of a finite set in a total order: the set has more only past
\* them, there are some if there are any, and one of them is the last.
LEMMA Beginning ==
  ASSUME NEW rest, NEW Before, NEW n, NEW page,
         IsFiniteSet(rest), InOrder(rest, Before), n \in Nat \ {0},
         Lowest(page, rest, Before, n)
  PROVE  /\ ClosedBelow(page, rest, Before)
         /\ rest # {} => page # {}
         /\ page # {} => HasALast(page, Before)
<1> DEFINE Lower(i) == {j \in rest : <<j, i>> \in Before}
<1>1. \A i \in rest : IsFiniteSet(Lower(i)) /\ Cardinality(Lower(i)) \in Nat
  <2> SUFFICES ASSUME NEW i \in rest PROVE IsFiniteSet(Lower(i)) /\ Cardinality(Lower(i)) \in Nat
    OBVIOUS
  <2>1. Lower(i) \subseteq rest
    OBVIOUS
  <2> QED BY <2>1, FS_Subset, FS_CardinalityType
<1>2. PICK count : count = [i \in rest |-> Cardinality(Lower(i))]
  OBVIOUS
<1>3. \A i \in rest : count[i] = Cardinality(Lower(i)) /\ count[i] \in Nat
  BY <1>1, <1>2
<1>4. ASSUME NEW i \in rest, NEW j \in rest, <<j, i>> \in Before
      PROVE  count[j] < count[i]
  <2>1. Lower(j) \cup {j} \subseteq Lower(i) /\ j \notin Lower(j)
    BY <1>4 DEF InOrder
  <2>2. IsFiniteSet(Lower(i)) /\ IsFiniteSet(Lower(j))
    BY <1>1
  <2>3. Cardinality(Lower(j) \cup {j}) = Cardinality(Lower(j)) + 1
    BY <2>1, <2>2, FS_AddElement
  <2>4. Cardinality(Lower(j) \cup {j}) <= Cardinality(Lower(i))
    BY <2>1, <2>2, FS_Subset
  <2> HIDE DEF Lower
  <2> QED BY <1>3, <2>3, <2>4
<1>5. \A i : i \in page <=> i \in rest /\ count[i] < n
  BY <1>3 DEF Lowest
<1>6. \A i \in rest : (\A j \in rest : <<j, i>> \notin Before) => count[i] = 0
  <2> SUFFICES ASSUME NEW i \in rest, \A j \in rest : <<j, i>> \notin Before PROVE count[i] = 0
    OBVIOUS
  <2>1. Lower(i) = {}
    OBVIOUS
  <2> QED BY <1>3, <2>1, FS_EmptySet
<1>7. \A i, j \in rest : i = j \/ <<i, j>> \in Before \/ <<j, i>> \in Before
  BY DEF InOrder
<1> HIDE DEF Lower
<1>8. ASSUME rest # {} PROVE page # {}
  <2>1. PICK i \in rest : \A j \in rest : count[i] <= count[j]
    BY <1>3, <1>8, LeastMeasured
  <2>2. \A j \in rest : <<j, i>> \notin Before
    BY <1>3, <1>4, <2>1
  <2>3. count[i] = 0
    BY <1>6, <2>2
  <2>4. 0 < n
    OBVIOUS
  <2>5. i \in page
    BY ONLY <1>5, <2>1, <2>3, <2>4
  <2> QED BY <2>5
<1>9. ASSUME page # {} PROVE \E last \in page : \A j \in page \ {last} : <<j, last>> \in Before
  <2>1. \A i \in page : i \in rest /\ count[i] \in Nat /\ count[i] < n
    BY ONLY <1>3, <1>5
  <2>2. PICK above : above = [i \in page |-> n - count[i]]
    OBVIOUS
  <2>3. \A i \in page : above[i] = n - count[i]
    BY ONLY <2>2
  <2>4. \A i \in page : above[i] \in Nat
    BY ONLY <2>1, <2>3, n \in Nat
  <2>5. PICK last \in page : \A j \in page : above[last] <= above[j]
    BY <1>9, <2>4, LeastMeasured
  <2>6. \A j \in page : ~(count[last] < count[j])
    BY ONLY <2>1, <2>3, <2>5, n \in Nat
  <2>7. \A j \in page \ {last} : <<j, last>> \in Before
    BY <1>4, <1>7, <2>1, <2>6
  <2> QED BY <2>7
<1>10. ASSUME NEW i \in page, NEW j \in rest, <<j, i>> \in Before PROVE j \in page
  <2>1. i \in rest /\ count[i] \in Nat /\ count[j] \in Nat /\ count[i] < n
    BY <1>3, <1>5
  <2>2. count[j] < count[i]
    BY <1>4, <1>10, <2>1
  <2> QED BY <1>5, <2>1, <2>2
<1> QED BY <1>8, <1>9, <1>10 DEF ClosedBelow, HasALast

Places == [stamp : Nat, id : Nat]

LEMMA PlacesInOrder ==
  /\ \A a \in Places : ~Comes(a, a)
  /\ \A a, b \in Places : Comes(a, b) => ~Comes(b, a)
  /\ \A a, b, c \in Places : Comes(a, b) /\ Comes(b, c) => Comes(a, c)
  /\ \A a, b \in Places : a.id = b.id \/ Comes(a, b) \/ Comes(b, a)
<1>1. \A a \in Places : ~Comes(a, a)
  BY DEF Places, Comes, Less
<1>2. \A a, b \in Places : Comes(a, b) => ~Comes(b, a)
  BY DEF Places, Comes, Less
<1>3. \A a, b, c \in Places : Comes(a, b) /\ Comes(b, c) => Comes(a, c)
  BY DEF Places, Comes, Less
<1>4. \A a, b \in Places : a.id = b.id \/ Comes(a, b) \/ Comes(b, a)
  BY DEF Places, Comes, Less
<1> QED BY <1>1, <1>2, <1>3, <1>4

LEMMA PageStep ==
  ASSUME PagesInv, GetPage
  PROVE  PagesInv'
<1> DEFINE rest == {i \in VisibleTo(walk.tenant) : AfterCursor(i)}
           page == {i \in rest : Cardinality({j \in rest : Comes(Place(j), Place(i))}) < PageLimit}
           last == CHOOSE i \in page : \A j \in page \ {i} : Comes(Place(j), Place(i))
           Before == {p \in rest \X rest : Comes(Place(p[1]), Place(p[2]))}
<1>1. /\ ~walk.ended
      /\ seen' = seen \cup page
      /\ twice' = twice \cup (seen \cap page)
      /\ walk' = IF rest = page THEN [walk EXCEPT !.ended = TRUE]
                 ELSE [walk EXCEPT !.first = FALSE, !.cursor = Place(last)]
      /\ rows' = rows /\ steady' = steady
  BY DEF GetPage
<1>2. /\ rest \subseteq RowIds /\ IsFiniteSet(rest)
      /\ \A i \in rest : Place(i) \in Places /\ Place(i).id = i
  <2>1. rest \subseteq RowIds
    BY DEF VisibleTo
  <2>2. \A i \in rest : rows[i] \in Row
    BY DEF VisibleTo, PagesInv, PagesTypes
  <2>3. \A i \in rest : Place(i) \in Places /\ Place(i).id = i
    BY <2>1, <2>2, RepoAssumption DEF Place, Row, Places
  <2> QED BY <2>1, <2>3, RepoAssumption, FS_Subset
<1>3. /\ \A i \in page : \A j \in rest : Comes(Place(j), Place(i)) => j \in page
      /\ rest # {} => page # {}
      /\ page # {} => last \in page /\ \A j \in page \ {last} : Comes(Place(j), Place(last))
  <2>1. \A i, j \in rest : <<i, j>> \in Before <=> Comes(Place(i), Place(j))
    OBVIOUS
  <2>2. \A i \in rest : <<i, i>> \notin Before
    BY <1>2, <2>1, PlacesInOrder
  <2>3. \A i, j, k \in rest : <<i, j>> \in Before /\ <<j, k>> \in Before => <<i, k>> \in Before
    <3> SUFFICES ASSUME NEW i \in rest, NEW j \in rest, NEW k \in rest,
                        <<i, j>> \in Before, <<j, k>> \in Before
                 PROVE  <<i, k>> \in Before
      OBVIOUS
    <3> HIDE DEF rest, Before
    <3>1. Comes(Place(i), Place(j)) /\ Comes(Place(j), Place(k))
      BY <2>1
    <3>2. Comes(Place(i), Place(k))
      BY <1>2, <3>1, PlacesInOrder
    <3> QED BY <2>1, <3>2
  <2>4. \A i, j \in rest : i = j \/ <<i, j>> \in Before \/ <<j, i>> \in Before
    <3> SUFFICES ASSUME NEW i \in rest, NEW j \in rest, i # j
                 PROVE  <<i, j>> \in Before \/ <<j, i>> \in Before
      OBVIOUS
    <3> HIDE DEF rest, Before
    <3>1. Comes(Place(i), Place(j)) \/ Comes(Place(j), Place(i))
      BY <1>2, PlacesInOrder
    <3> QED BY <2>1, <3>1
  <2>5. \A i \in rest : {j \in rest : <<j, i>> \in Before} = {j \in rest : Comes(Place(j), Place(i))}
    BY <2>1
  <2>6. Lowest(page, rest, Before, PageLimit)
    BY <2>5 DEF Lowest
  <2>7. page \subseteq rest
    OBVIOUS
  <2> HIDE DEF rest, page, last, Before
  <2>8. PageLimit \in Nat \ {0} /\ IsFiniteSet(rest) /\ InOrder(rest, Before)
    BY <1>2, <2>2, <2>3, <2>4, RepoAssumption DEF InOrder
  <2>9. /\ ClosedBelow(page, rest, Before)
        /\ rest # {} => page # {}
        /\ page # {} => HasALast(page, Before)
    BY ONLY <2>6, <2>8, Beginning
  <2>10. page # {} => \E l \in page : \A j \in page \ {l} : Comes(Place(j), Place(l))
    BY <2>1, <2>7, <2>9 DEF HasALast
  <2>11. \A i \in page : \A j \in rest : Comes(Place(j), Place(i)) => j \in page
    BY <2>1, <2>7, <2>9 DEF ClosedBelow
  <2>12. page # {} => last \in page /\ \A j \in page \ {last} : Comes(Place(j), Place(last))
    BY <2>10 DEF last
  <2> QED BY <2>9, <2>11, <2>12
<1>4. steady \subseteq VisibleTo(walk.tenant)
  BY DEF PagesInv, PagesTypes, Steady, VisibleTo
<1>5. \A i \in steady : i \in seen \/ i \in rest
  BY <1>1, <1>4 DEF PagesInv, BehindCursor, AfterCursor
<1>6. \A i \in steady \cap page : i \notin seen
  BY <1>1 DEF PagesInv, BehindCursor, AfterCursor
<1>7. page \subseteq rest
  OBVIOUS
<1> HIDE DEF rest, page, last
<1>8. PagesTypes'
  <2>1. rest # page => Place(last) \in Places
    BY <1>2, <1>3, <1>7
  <2>2. walk'.tenant = walk.tenant /\ walk' \in [tenant : RepoTenants, direction : {"asc", "desc"},
          first : BOOLEAN, cursor : [stamp : Nat, id : Nat], ended : BOOLEAN]
    BY <1>1, <2>1 DEF PagesInv, PagesTypes, Places
  <2> QED BY <1>1, <2>2 DEF PagesInv, PagesTypes, Steady
<1>9. PagesMissNothing'
  <2>1. (steady \cap twice)' = {}
    BY <1>1, <1>6 DEF PagesInv, PagesMissNothing
  <2>2. walk'.ended => (steady \subseteq seen)'
    <3>1. CASE rest = page
      BY <1>1, <1>5, <3>1
    <3>2. CASE rest # page
      BY <1>1, <3>2 DEF PagesInv, PagesTypes
    <3> QED BY <3>1, <3>2
  <2> QED BY <2>1, <2>2 DEF PagesMissNothing
<1>10. BehindCursor'
  <2>1. CASE rest = page
    BY <1>1, <2>1 DEF BehindCursor, PagesInv, PagesTypes
  <2>2. CASE rest # page
    <3>1. /\ walk'.first = FALSE /\ walk'.cursor = Place(last) /\ walk'.ended = FALSE
          /\ walk'.direction = walk.direction
      BY <1>1, <2>2 DEF PagesInv, PagesTypes
    <3>2. last \in page /\ last \in rest
      BY <1>3, <1>7, <2>2
    <3>3. ASSUME NEW i \in steady
          PROVE  i \in seen \cup page <=> ~Comes(Place(last), Place(i))
      <4>1. Place(i) \in Places /\ Place(i).id = i
        BY RepoAssumption DEF PagesInv, PagesTypes, Steady, Place, Places
      <4>2. CASE i \in page
        BY <1>2, <1>3, <3>2, <4>1, <4>2, PlacesInOrder
      <4>3. CASE i \in seen
        <5>1. ~walk.first /\ ~Comes(walk.cursor, Place(i)) /\ walk.cursor \in Places
          BY <1>1, <4>3 DEF PagesInv, BehindCursor, PagesTypes, Places
        <5>2. Comes(walk.cursor, Place(last))
          BY <3>2, <5>1 DEF rest, AfterCursor
        <5> QED BY <1>2, <3>2, <4>1, <4>3, <5>1, <5>2, PlacesInOrder
      <4>4. CASE i \notin seen \cup page
        <5>1. i \in rest /\ i # last
          BY <1>5, <3>2, <4>4
        <5>2. ~Comes(Place(i), Place(last))
          BY <1>3, <3>2, <4>4, <5>1
        <5> QED BY <1>2, <3>2, <4>1, <4>4, <5>1, <5>2, PlacesInOrder
      <4> QED BY <4>2, <4>3, <4>4
    <3>4. \A i : Place(i)' = Place(i)
      BY <1>1 DEF Place
    <3>5. \A i : Comes(walk.cursor, Place(i))' <=> Comes(Place(last), Place(i))
      BY <1>1, <3>1 DEF Comes, Place, Less
    <3> QED BY <1>1, <3>1, <3>3, <3>5 DEF BehindCursor
  <2> QED BY <2>1, <2>2
<1> QED BY <1>8, <1>9, <1>10 DEF PagesInv

LEMMA RowsWrittenStep ==
  ASSUME PagesInv, NEW i \in RowIds, NEW row \in Row \cup {Absent}, Write(i, row)
  PROVE  PagesInv'
<1>1. /\ rows' = [rows EXCEPT ![i] = row] /\ steady' = steady \ {i}
      /\ walk' = walk /\ seen' = seen /\ twice' = twice
  BY DEF Write
<1>2. PagesTypes'
  BY <1>1 DEF PagesInv, PagesTypes, Steady
<1>3. PagesMissNothing'
  BY <1>1 DEF PagesInv, PagesMissNothing
<1>4. \A j \in steady' : Comes(walk.cursor, Place(j))' <=> Comes(walk.cursor, Place(j))
  BY <1>1 DEF Comes, Less, Place, PagesInv, PagesTypes, Steady
<1>5. BehindCursor'
  BY <1>1, <1>4 DEF PagesInv, BehindCursor
<1> QED BY <1>2, <1>3, <1>5 DEF PagesInv

LEMMA RepoStep ==
  ASSUME PagesInv, [RepoNext]_repoVars
  PROVE  PagesInv'
<1>1. \A i \in RowIds : rows[i] # Absent => rows[i] \in Row
  BY DEF PagesInv, PagesTypes
<1>2. ASSUME NEW t \in RepoTenants, NEW i \in RowIds,
             CreateRow(t, i) \/ UpdateRow(t, i) \/ SoftDelete(t, i) \/ Restore(t, i) \/ HardDelete(t, i)
      PROVE  PagesInv'
  <2>1. CASE CreateRow(t, i)
    BY <2>1, RowsWrittenStep DEF CreateRow, Row
  <2>2. CASE UpdateRow(t, i)
    BY <1>1, <2>2, RowsWrittenStep DEF UpdateRow, VisibleTo, Row
  <2>3. CASE SoftDelete(t, i)
    BY <1>1, <2>3, RowsWrittenStep DEF SoftDelete, VisibleTo, Row
  <2>4. CASE Restore(t, i)
    BY <1>1, <2>4, RowsWrittenStep DEF Restore, Row
  <2>5. CASE HardDelete(t, i)
    BY <2>5, RowsWrittenStep DEF HardDelete
  <2> QED BY <1>2, <2>1, <2>2, <2>3, <2>4, <2>5
<1>3. CASE UNCHANGED repoVars
  <2>1. /\ rows' = rows /\ walk' = walk /\ seen' = seen /\ twice' = twice /\ steady' = steady
    BY <1>3 DEF repoVars
  <2> QED BY <2>1 DEF PagesInv, PagesTypes, BehindCursor, PagesMissNothing, Steady, Comes, Less, Place
<1> QED BY <1>2, <1>3, PageStep DEF RepoNext

\* A walk page by page gets every row that stays as it is, and none twice: for
\* any table, page size and direction, whatever others write meanwhile.
THEOREM PagesMissNothingHolds == RepoSpec => []PagesMissNothing
<1>1. RepoInit => PagesInv
  <2> SUFFICES ASSUME RepoInit PROVE PagesInv
    OBVIOUS
  <2>1. rows \in [RowIds -> Row \cup {Absent}]
    BY DEF RepoInit, Row
  <2>2. /\ walk \in [tenant : RepoTenants, direction : {"asc", "desc"}, first : BOOLEAN,
                     cursor : [stamp : Nat, id : Nat], ended : BOOLEAN]
        /\ walk.first /\ ~walk.ended /\ seen = {} /\ twice = {} /\ steady = VisibleTo(walk.tenant)
    BY DEF RepoInit, Start
  <2>3. \A i \in steady : Steady(i)
    BY <2>1, <2>2, RepoAssumption DEF VisibleTo, Steady, Row
  <2> QED BY <2>1, <2>2, <2>3 DEF PagesInv, PagesTypes, BehindCursor, PagesMissNothing
<1>2. PagesInv /\ [RepoNext]_repoVars => PagesInv'
  BY RepoStep
<1>3. PagesInv => PagesMissNothing
  BY DEF PagesInv
<1> QED BY <1>1, <1>2, <1>3, PTL DEF RepoSpec

-----------------------------------------------------------------------------
(***************************************************************************)
(* The rate limiter.  What each rule keeps in Redis is a count of what it  *)
(* admitted: the members of the sliding window are the admissions that may *)
(* still share a window with a later one, the counter is the sum of its    *)
(* aligned window, and the tokens are what every span that ends now has    *)
(* left.  A key that expired is as good as the state it stood for.         *)
(***************************************************************************)

Admitted(S) == SumFunctionOnSet(rlAdmitted, S)
Span(a) == {t \in Times : a <= t /\ t < a + Window}
Aligned(k) == {t \in Times : t \div Window = k}
InThisWindow == Admitted(Aligned(rlNow \div Window))
EndingNow(a) == Admitted(a..rlNow)
Full == MaxRequests * Window

\* A refusal is followed, of a request the rule can admit.
Owed == rlRetry > 0 /\ rlCost <= MaxRequests

RateTypes ==
  /\ rlRule \in {"sliding-window", "fixed-window", "token-bucket"}
  /\ rlNow \in Times
  /\ rlHits \in [Times -> Nat] /\ rlAdmitted \in [Times -> Nat]
  /\ rlStart \in Nat /\ rlCount \in Nat /\ rlTokens \in Nat /\ rlStamp \in Nat
  /\ rlExpiry \in Nat /\ rlRetry \in Nat /\ rlCost \in Nat /\ rlTaken \in Nat
  /\ rlStart <= rlNow /\ rlStamp <= rlNow
  /\ \A t \in Times : t > rlNow => rlHits[t] = 0 /\ rlAdmitted[t] = 0

SlidingInv ==
  /\ \A a \in Times : Admitted(Span(a)) <= MaxRequests
  /\ \A t \in Times : rlAdmitted[t] > 0 \/ (Present /\ rlHits[t] > 0) => t + Window <= rlExpiry
  /\ \A t \in Times : Kept(t) => Hits[t] = rlAdmitted[t]
  /\ Taken <= MaxRequests
  /\ Owed => /\ Taken <= rlTaken /\ rlTaken <= MaxRequests
             /\ IF rlNow < rlRetry THEN \E o \in Times : rlRetry = o + Window /\ Hits[o] > 0
                                   ELSE Taken < rlTaken

FixedInv ==
  /\ \A k \in Nat : Admitted(Aligned(k)) <= MaxRequests
  /\ Present => rlExpiry = rlStart + Window
  /\ InThisWindow = Current
  /\ Owed /\ Present => rlStart + Window <= rlRetry

BucketInv ==
  /\ \A a \in Times : \A b \in a..LastTime :
       Admitted(a..b) * Window <= MaxRequests * (Window + (b - a))
  /\ Present => rlExpiry = rlStamp + 2 * Window
  /\ \A a \in 0..rlNow : EndingNow(a) * Window + Bucket <= MaxRequests * (Window + (rlNow - a))
  /\ Owed => IF rlNow < rlRetry THEN rlCost * Window <= Bucket + (rlRetry - rlNow) * MaxRequests
                                ELSE rlCost * Window <= Bucket

RateInv ==
  /\ RateTypes
  /\ rlRule = "sliding-window" => SlidingInv
  /\ rlRule = "fixed-window" => FixedInv
  /\ rlRule = "token-bucket" => BucketInv

LEMMA TimesFinite == \A S \in SUBSET Times : IsFiniteSet(S)
<1>1. 0 \in Int /\ LastTime \in Int
  BY RateAssumption
<1>2. IsFiniteSet(0..LastTime)
  BY ONLY <1>1, FS_Interval
<1> QED BY <1>2, FS_Subset DEF Times

LEMMA SumNatural ==
  ASSUME NEW f \in [Times -> Nat], NEW S \in SUBSET Times
  PROVE  SumFunctionOnSet(f, S) \in Nat
<1>1. IsFiniteSet(S) /\ {} \in SUBSET S /\ \A x \in S : f[x] \in Int /\ 0 <= f[x]
  BY TimesFinite
<1>2. SumFunctionOnSet(f, {}) <= SumFunctionOnSet(f, S) /\ SumFunctionOnSet(f, S) \in Int
  BY <1>1, SumBelow, SumType
<1> QED BY <1>2, SumEmpty

\* Sums of what was admitted, and of what is in the window, before and after a step.
LEMMA RateSums ==
  ASSUME RateTypes
  PROVE  /\ \A S \in SUBSET Times : Admitted(S) \in Nat
         /\ Hits \in [Times -> Nat] /\ Taken \in Nat
         /\ Window \in Nat \ {0} /\ MaxRequests \in Nat \ {0} /\ rlNow \in Nat
<1>1. Window \in Nat \ {0} /\ MaxRequests \in Nat \ {0} /\ rlNow \in Nat
  BY RateAssumption DEF RateTypes, Times
<1>2. Hits \in [Times -> Nat] /\ rlAdmitted \in [Times -> Nat]
  BY DEF RateTypes, Hits, NoHits
<1> QED BY <1>1, <1>2, SumNatural DEF Taken, Admitted

LEMMA RateSumsNext ==
  ASSUME RateTypes'
  PROVE  /\ \A S \in SUBSET Times : Admitted(S)' \in Nat
         /\ Hits' \in [Times -> Nat] /\ Taken' \in Nat /\ rlNow' \in Nat
<1>1. rlNow' \in Nat
  BY ONLY RateTypes', RateAssumption DEF RateTypes, Times
<1>2. Hits' \in [Times -> Nat] /\ rlAdmitted' \in [Times -> Nat]
  BY DEF RateTypes, Hits, NoHits
<1> QED BY <1>1, <1>2, SumNatural DEF Taken, Admitted

\* Nothing was admitted after now, or at all.
LEMMA NothingAdmitted ==
  ASSUME NEW f, NEW S \in SUBSET Times, \A t \in S : f[t] = 0
  PROVE  SumFunctionOnSet(f, S) = 0
<1>1. IsFiniteSet(S)
  BY TimesFinite
<1>2. {} \in SUBSET S /\ \A x \in S : f[x] \in Int
  OBVIOUS
<1>3. SumFunctionOnSet(f, S) = SumFunctionOnSet(f, {})
  BY <1>1, <1>2, SumOutside
<1> QED BY <1>3, SumEmpty

\* An admission counts in the sums over the spans of now.
LEMMA AdmissionCounts ==
  ASSUME RateTypes, NEW cost \in Nat,
         rlAdmitted' = [rlAdmitted EXCEPT ![rlNow] = @ + cost],
         NEW S \in SUBSET Times
  PROVE  Admitted(S)' = IF rlNow \in S THEN Admitted(S) + cost ELSE Admitted(S)
<1>1. IsFiniteSet(S) /\ cost \in Int
  BY TimesFinite
<1>2. PICK f, h : f = rlAdmitted /\ h = rlAdmitted'
  OBVIOUS
<1>3. /\ \A t \in S : f[t] \in Int
      /\ h[rlNow] = f[rlNow] + cost
      /\ \A t \in S \ {rlNow} : h[t] = f[t]
  BY <1>2 DEF RateTypes
<1>4. SumFunctionOnSet(h, S)
        = IF rlNow \in S THEN SumFunctionOnSet(f, S) + cost ELSE SumFunctionOnSet(f, S)
  BY ONLY <1>1, <1>3, SumChange
<1> QED BY <1>2, <1>4 DEF Admitted

\* The sliding window.  A tick takes the members that are one window old out of
\* what counts, and the member a refusal named has left when its time comes.
LEMMA SlidingTick ==
  ASSUME RateTypes, RateTypes', SlidingInv, RateTick
  PROVE  SlidingInv'
<1>1. /\ rlNow < LastTime /\ rlNow' = rlNow + 1
      /\ rlHits' = rlHits /\ rlAdmitted' = rlAdmitted /\ rlExpiry' = rlExpiry
      /\ rlRetry' = rlRetry /\ rlCost' = rlCost /\ rlTaken' = rlTaken
  BY DEF RateTick
<1>2. /\ Hits \in [Times -> Nat] /\ Hits' \in [Times -> Nat] /\ Taken \in Nat /\ Taken' \in Nat
      /\ Window \in Nat \ {0} /\ rlNow \in Nat /\ MaxRequests \in Nat
  BY RateSums, RateSumsNext
<1>3. \A t \in Times : t \in Nat /\ rlHits[t] \in Nat /\ rlAdmitted[t] \in Nat
  BY ONLY RateTypes, RateAssumption DEF RateTypes, Times
<1>4. /\ \A t \in Times : rlAdmitted[t] > 0 \/ (Present /\ rlHits[t] > 0) => t + Window <= rlExpiry
      /\ \A t \in Times : Kept(t) => Hits[t] = rlAdmitted[t]
      /\ \A a \in Times : Admitted(Span(a)) <= MaxRequests
      /\ Taken <= MaxRequests
  BY DEF SlidingInv
<1>5. rlExpiry \in Nat /\ rlRetry \in Nat /\ rlTaken \in Nat /\ rlNow' \in Nat
  BY <1>1, <1>2 DEF RateTypes
<1>6. (Present' => Present) /\ \A t \in Times : Kept(t)' => Kept(t)
  BY <1>1, <1>2, <1>3, <1>5 DEF Present, Kept
<1>7. ASSUME NEW t \in Times
      PROVE  /\ Kept(t)' => Hits'[t] = rlAdmitted'[t]
             /\ Hits'[t] <= Hits[t]
             /\ Hits[t] > 0 /\ rlNow + 1 < t + Window => Hits'[t] = Hits[t]
             /\ t + Window <= rlNow + 1 => Hits'[t] = 0
  <2>1. Hits[t] = IF Present /\ Kept(t) THEN rlHits[t] ELSE 0
    BY DEF Hits, NoHits
  <2>2. Hits'[t] = IF Present' /\ Kept(t)' THEN rlHits[t] ELSE 0
    BY <1>1 DEF Hits, NoHits
  <2>3. ~Present' /\ Kept(t)' => rlAdmitted[t] = 0
    BY <1>1, <1>3, <1>4, <1>5, <1>2 DEF Present, Kept
  <2>4. Hits[t] > 0 /\ rlNow + 1 < t + Window => Present' /\ Kept(t)'
    BY <1>1, <1>2, <1>3, <1>4, <1>5, <2>1 DEF Present, Kept
  <2>5. t + Window <= rlNow + 1 => ~Kept(t)'
    BY <1>1, <1>2, <1>3 DEF Kept
  <2> QED BY <1>1, <1>3, <1>4, <1>6, <2>1, <2>2, <2>3, <2>4, <2>5
<1>8. IsFiniteSet(Times)
  BY TimesFinite
<1>9. PICK f, h : f = Hits /\ h = Hits'
  OBVIOUS
<1>10. \A t \in Times : f[t] \in Nat /\ h[t] \in Nat /\ h[t] <= f[t]
  BY <1>2, <1>7, <1>9
<1>11. SumFunctionOnSet(h, Times) <= SumFunctionOnSet(f, Times)
  BY <1>8, <1>10, SumBelow
<1>12. Taken' <= Taken
  BY <1>9, <1>11 DEF Taken
<1>13. ASSUME NEW o \in Times, Hits[o] > 0, o + Window <= rlNow + 1
       PROVE  Taken' < Taken
  <2>1. PICK g : g = [t \in Times |-> IF t = o THEN f[t] + (-1) ELSE f[t]]
    OBVIOUS
  <2>2. /\ \A t \in Times : f[t] \in Int /\ -1 \in Int
        /\ g[o] = f[o] + (-1) /\ \A t \in Times \ {o} : g[t] = f[t]
    BY <1>10, <2>1
  <2>3. SumFunctionOnSet(g, Times) = SumFunctionOnSet(f, Times) + (-1)
    BY <1>8, <2>2, SumChange
  <2>4. \A t \in Times : g[t] \in Int /\ h[t] \in Int /\ h[t] <= g[t]
    <3>1. h[o] = 0 /\ f[o] > 0
      BY <1>7, <1>9, <1>13
    <3> QED BY <1>10, <2>1, <3>1
  <2>5. SumFunctionOnSet(h, Times) <= SumFunctionOnSet(g, Times)
    BY <1>8, <2>4, SumBelow
  <2> QED BY <1>2, <1>9, <2>3, <2>5 DEF Taken
<1>14. ASSUME Owed
       PROVE  /\ Taken' <= rlTaken /\ rlTaken <= MaxRequests
              /\ IF rlNow' < rlRetry THEN \E o \in Times : rlRetry = o + Window /\ Hits'[o] > 0
                 ELSE Taken' < rlTaken
  <2>1. /\ Taken <= rlTaken /\ rlTaken <= MaxRequests
        /\ IF rlNow < rlRetry THEN \E o \in Times : rlRetry = o + Window /\ Hits[o] > 0
           ELSE Taken < rlTaken
    BY <1>14 DEF SlidingInv
  <2>2. CASE ~(rlNow < rlRetry)
    BY <1>1, <1>2, <1>5, <1>12, <2>1, <2>2
  <2>3. CASE rlNow < rlRetry
    <3>1. PICK o \in Times : rlRetry = o + Window /\ Hits[o] > 0
      BY <2>1, <2>3
    <3>2. CASE rlNow + 1 < rlRetry
      <4>1. Hits'[o] > 0
        BY <1>7, <3>1, <3>2
      <4>2. Taken' <= rlTaken
        BY <1>2, <1>5, <1>12, <2>1
      <4> QED BY <1>1, <2>1, <3>1, <3>2, <4>1, <4>2
    <3>3. CASE ~(rlNow + 1 < rlRetry)
      <4>1. o + Window <= rlNow + 1
        BY <1>2, <1>3, <1>5, <3>1, <3>3
      <4>2. Taken' < rlTaken
        BY <1>2, <1>5, <1>13, <2>1, <3>1, <4>1
      <4> QED BY <1>1, <1>2, <1>5, <2>1, <3>3, <4>2
    <3> QED BY <3>2, <3>3
  <2> QED BY <2>2, <2>3
<1>15. \A a \in Times : Admitted(Span(a))' <= MaxRequests
  BY <1>1, <1>4 DEF Admitted, Span
<1>16. Taken' <= MaxRequests
  BY <1>2, <1>4, <1>12
<1>17. \A t \in Times : rlAdmitted[t] > 0 \/ (Present' /\ rlHits[t] > 0) => t + Window <= rlExpiry
  BY <1>4, <1>6
<1> QED BY <1>1, <1>7, <1>14, <1>15, <1>16, <1>17 DEF SlidingInv, Owed

\* An admission is one more member, and fits in every window it falls in.
LEMMA SlidingAdmit ==
  ASSUME RateTypes, RateTypes', SlidingInv, rlRule = "sliding-window",
         NEW cost \in Costs, Admit(cost)
  PROVE  SlidingInv'
<1>1. /\ Taken + cost <= MaxRequests
      /\ rlHits' = [Hits EXCEPT ![rlNow] = @ + cost]
      /\ rlAdmitted' = [rlAdmitted EXCEPT ![rlNow] = @ + cost]
      /\ rlExpiry' = rlNow + Window /\ rlRetry' = 0 /\ rlNow' = rlNow
  BY DEF Admit, Admits, Forgotten
<1>2. /\ Hits \in [Times -> Nat] /\ Taken \in Nat /\ Hits' \in [Times -> Nat] /\ Taken' \in Nat
      /\ Window \in Nat \ {0} /\ rlNow \in Nat /\ MaxRequests \in Nat
      /\ cost \in Nat /\ rlNow \in Times
  BY RateSums, RateSumsNext, RateAssumption DEF RateTypes
<1>3. /\ \A t \in Times : Kept(t) => Hits[t] = rlAdmitted[t]
      /\ \A a \in Times : Admitted(Span(a)) <= MaxRequests
  BY DEF SlidingInv
<1>4. \A t \in Times : t \in Nat /\ rlAdmitted[t] \in Nat /\ (t > rlNow => rlAdmitted[t] = 0)
  <2>1. RateTypes
    OBVIOUS
  <2> QED BY ONLY <2>1 DEF RateTypes, Times
<1>5. Kept(rlNow) /\ Present' /\ \A t \in Times : Kept(t)' <=> Kept(t)
  BY <1>1, <1>2 DEF Kept, Present
<1>6. /\ Hits'[rlNow] = Hits[rlNow] + cost
      /\ \A t \in Times \ {rlNow} : Hits'[t] = Hits[t]
  <2>1. \A t \in Times : Hits'[t] = IF Kept(t) THEN rlHits'[t] ELSE 0
    BY <1>5 DEF Hits
  <2>2. \A t \in Times : ~Kept(t) => Hits[t] = 0
    BY DEF Hits, NoHits
  <2> QED BY <1>1, <1>2, <1>5, <2>1, <2>2
<1>7. IsFiniteSet(Times) /\ cost \in Int
  BY <1>2, TimesFinite
<1>8. PICK f, h : f = Hits /\ h = Hits'
  OBVIOUS
<1>9. Taken' = Taken + cost
  <2>1. (\A t \in Times : f[t] \in Int) /\ h[rlNow] = f[rlNow] + cost
        /\ \A t \in Times \ {rlNow} : h[t] = f[t]
    BY <1>2, <1>6, <1>8
  <2>2. SumFunctionOnSet(h, Times)
          = IF rlNow \in Times THEN SumFunctionOnSet(f, Times) + cost ELSE SumFunctionOnSet(f, Times)
    BY ONLY <1>7, <2>1, SumChange
  <2> QED BY <1>2, <1>8, <2>2 DEF Taken
<1>10. ASSUME NEW a \in Times PROVE Admitted(Span(a))' <= MaxRequests
  <2>1. Span(a) \in SUBSET Times /\ Span(a)' = Span(a) /\ a \in Nat
    BY <1>4 DEF Span
  <2>2. Admitted(Span(a)) \in Nat /\ Admitted(Span(a)) <= MaxRequests
    BY <1>3, <2>1, RateSums
  <2>3. Admitted(Span(a))'
          = IF rlNow \in Span(a) THEN Admitted(Span(a)) + cost ELSE Admitted(Span(a))
    BY <1>1, <1>2, <2>1, AdmissionCounts
  <2>4. ASSUME rlNow \in Span(a) PROVE Admitted(Span(a)) <= Taken
    <3>1. PICK g : g = rlAdmitted
      OBVIOUS
    <3>2. PICK S \in SUBSET Times : S = Span(a)
      BY <2>1
    <3>3. \A t \in S : Kept(t)
      BY <1>2, <1>4, <2>1, <2>4, <3>2 DEF Kept, Span
    <3>4. PICK e : e = [t \in Times |-> IF t \in S THEN g[t] ELSE 0]
      OBVIOUS
    <3>5. /\ \A t \in Times : e[t] \in Int /\ f[t] \in Int
          /\ \A t \in S : e[t] <= f[t]
          /\ \A t \in Times \ S : 0 <= f[t]
      BY <1>2, <1>3, <1>4, <1>8, <3>1, <3>3, <3>4
    <3>6. SumFunctionOnSet(e, S) <= SumFunctionOnSet(f, Times)
      BY <1>7, <3>5, SumBelow
    <3>7. IsFiniteSet(S) /\ \A t \in S : e[t] = g[t]
      BY <3>4, TimesFinite
    <3>8. SumFunctionOnSet(e, S) = SumFunctionOnSet(g, S)
      BY <3>7, SumSame
    <3> QED BY <1>8, <3>1, <3>2, <3>6, <3>8 DEF Taken, Admitted
  <2> QED BY <1>1, <1>2, <2>2, <2>3, <2>4
<1>11. \A t \in Times : rlAdmitted'[t] > 0 \/ (Present' /\ rlHits'[t] > 0) => t + Window <= rlExpiry'
  <2>1. \A t \in Times : t > rlNow => rlHits'[t] = 0 /\ rlAdmitted'[t] = 0
    BY <1>1 DEF RateTypes
  <2>2. \A t \in Times : rlHits'[t] \in Nat /\ rlAdmitted'[t] \in Nat
    BY DEF RateTypes
  <2> QED BY <1>1, <1>2, <1>4, <2>1, <2>2
<1>12. \A t \in Times : Kept(t)' => Hits'[t] = rlAdmitted'[t]
  BY <1>1, <1>2, <1>3, <1>5, <1>6 DEF RateTypes
<1>13. Taken' <= MaxRequests /\ ~(rlRetry' > 0)
  BY <1>1, <1>9
<1> QED BY <1>10, <1>11, <1>12, <1>13 DEF SlidingInv, Owed

\* A refusal names the time at which its oldest member leaves.
LEMMA SlidingRefuse ==
  ASSUME RateTypes, RateTypes', SlidingInv, rlRule = "sliding-window",
         NEW cost \in Costs, Refuse(cost)
  PROVE  SlidingInv'
<1>1. /\ ~(Taken + cost <= MaxRequests)
      /\ rlHits' = Hits /\ rlAdmitted' = rlAdmitted /\ rlExpiry' = rlExpiry /\ rlNow' = rlNow
  BY DEF Refuse, Admits
<1>2. /\ Hits \in [Times -> Nat] /\ Taken \in Nat
      /\ Window \in Nat \ {0} /\ rlNow \in Nat /\ MaxRequests \in Nat \ {0} /\ cost \in Nat
  BY RateSums, RateAssumption
<1>3. (Present' <=> Present) /\ \A t \in Times : Kept(t)' <=> Kept(t)
  BY <1>1 DEF Present, Kept
<1>4. Hits' = Hits
  BY <1>1, <1>2, <1>3 DEF Hits, NoHits
<1>5. Taken' = Taken /\ \A a \in Times : Admitted(Span(a))' = Admitted(Span(a))
  BY <1>1, <1>4 DEF Taken, Admitted, Span
<1>6. ASSUME cost <= MaxRequests, rlRetry' = ResetAt(cost)
      PROVE  rlNow' < rlRetry' /\ \E o \in Times : rlRetry' = o + Window /\ Hits'[o] > 0
  <2> DEFINE counted == {t \in Times : Hits[t] > 0}
  <2>1. counted # {}
    <3>1. ASSUME counted = {} PROVE Taken = 0
      <4>1. \A t \in Times : Hits[t] = 0
        BY <1>2, <3>1
      <4> QED BY <4>1, NothingAdmitted DEF Taken
    <3> QED BY <1>1, <1>2, <1>6, <3>1
  <2>2. counted \in SUBSET Nat
    BY DEF Times
  <2>3. ResetAt(cost) = (CHOOSE t \in counted : \A u \in counted : t <= u) + Window
    BY <2>1 DEF ResetAt
  <2> HIDE DEF counted
  <2>4. PICK o \in counted : ResetAt(cost) = o + Window
    BY <2>1, <2>2, <2>3, Oldest
  <2>5. o \in Times /\ Hits[o] > 0
    BY DEF counted
  <2>6. Kept(o)
    BY <2>5 DEF Hits, NoHits
  <2>7. rlRetry' = o + Window /\ rlNow < o + Window
    BY <1>1, <1>2, <1>6, <2>2, <2>4, <2>6 DEF Kept
  <2> QED BY <1>1, <1>4, <2>5, <2>7
<1>7. \/ rlRetry' = ResetAt(cost) /\ rlCost' = cost /\ rlTaken' = Taken
      \/ UNCHANGED <<rlRetry, rlCost, rlTaken>>
  BY DEF Refuse
<1>8. ASSUME Owed'
      PROVE  /\ Taken' <= rlTaken' /\ rlTaken' <= MaxRequests
             /\ IF rlNow' < rlRetry' THEN \E o \in Times : rlRetry' = o + Window /\ Hits'[o] > 0
                ELSE Taken' < rlTaken'
  <2>1. CASE rlRetry' = ResetAt(cost) /\ rlCost' = cost /\ rlTaken' = Taken
    <3>1. cost <= MaxRequests
      BY <1>8, <2>1 DEF Owed
    <3> QED BY <1>2, <1>5, <1>6, <2>1, <3>1 DEF SlidingInv
  <2>2. CASE UNCHANGED <<rlRetry, rlCost, rlTaken>>
    <3>1. Owed
      BY <1>8, <2>2 DEF Owed
    <3> QED BY <1>1, <1>4, <1>5, <2>2, <3>1 DEF SlidingInv
  <2> QED BY <1>7, <2>1, <2>2
<1>9. \A t \in Times : Present' /\ rlHits'[t] > 0 => Present /\ rlHits[t] > 0
  BY <1>1, <1>3 DEF Hits, NoHits
<1>10. \A t \in Times : rlAdmitted'[t] > 0 \/ (Present' /\ rlHits'[t] > 0) => t + Window <= rlExpiry'
  BY <1>1, <1>9 DEF SlidingInv
<1> QED BY <1>1, <1>3, <1>4, <1>5, <1>8, <1>10 DEF SlidingInv

\* The fixed window.  The counter goes with its aligned window; no member of
\* the next one was admitted before it starts.
LEMMA FixedTick ==
  ASSUME RateTypes, RateTypes', FixedInv, RateTick
  PROVE  FixedInv'
<1>1. /\ rlNow < LastTime /\ rlNow' = rlNow + 1 /\ rlAdmitted' = rlAdmitted
      /\ rlStart' = rlStart /\ rlCount' = rlCount /\ rlExpiry' = rlExpiry
      /\ rlRetry' = rlRetry /\ rlCost' = rlCost
  BY DEF RateTick
<1>2. /\ Window \in Nat \ {0} /\ rlNow \in Nat /\ rlNow' \in Nat /\ rlNow <= rlNow'
      /\ rlStart \in Nat /\ rlCount \in Nat /\ rlExpiry \in Nat /\ rlStart <= rlNow
  BY <1>1, RateSums, RateSumsNext DEF RateTypes
<1>3. PICK q \in Nat, p \in Nat, x \in Nat, y \in Nat :
           /\ q = rlNow \div Window /\ p = rlNow' \div Window
           /\ x = rlNow - (rlNow % Window) /\ y = rlNow' - (rlNow' % Window)
           /\ x <= rlNow /\ rlNow < x + Window /\ y <= rlNow' /\ rlNow' < y + Window
           /\ q <= p /\ (q = p => x = y) /\ (q # p => rlNow < y)
  <2>1. WindowsOf(rlNow, rlNow', Window)
    BY <1>2, WindowsInOrder
  <2> QED BY <2>1 DEF WindowsOf
<1>4. WindowStart = x /\ WindowStart' = y
  BY <1>3 DEF WindowStart
<1>5. /\ \A k \in Nat : Admitted(Aligned(k)) <= MaxRequests
      /\ Present => rlExpiry = rlStart + Window
      /\ Admitted(Aligned(q)) = Current
      /\ Owed /\ Present => rlStart + Window <= rlRetry
  BY <1>3 DEF FixedInv, InThisWindow
<1>6. Present' => Present
  BY <1>1, <1>2 DEF Present
<1>7. \A k \in Nat : Admitted(Aligned(k))' = Admitted(Aligned(k))
  BY <1>1 DEF Admitted, Aligned
<1>8. Admitted(Aligned(p)) = Current'
  <2>1. CASE p = q
    <3>1. y = x
      BY <1>3, <2>1
    <3>2. Present /\ rlStart = x => Present'
      BY <1>1, <1>2, <1>3, <1>5, <3>1 DEF Present
    <3>3. Current' = Current
      BY <1>1, <1>4, <1>6, <3>1, <3>2 DEF Current
    <3> QED BY <1>5, <2>1, <3>3
  <2>2. CASE p # q
    <3>1. rlStart # y
      <4>1. rlNow < y
        BY ONLY <1>3, <2>2, Zenon
      <4> QED BY ONLY <1>2, <4>1, y \in Nat
    <3>2. Current' = 0
      BY <1>1, <1>4, <3>1 DEF Current
    <3>3. ASSUME NEW t \in Aligned(p) PROVE rlAdmitted[t] = 0
      <4>1. t \in Times /\ t \in Nat /\ t \div Window = p
        BY DEF Aligned, Times
      <4>2. ASSUME t <= rlNow PROVE FALSE
        <5>1. \E i \in Nat, j \in Nat : i = t \div Window /\ j = rlNow \div Window /\ i <= j
          <6>1. WindowsOf(t, rlNow, Window)
            BY <1>2, <4>1, <4>2, WindowsInOrder
          <6> QED BY <6>1, Zenon DEF WindowsOf
        <5>2. p <= q
          BY <1>3, <4>1, <5>1
        <5> QED BY <1>3, <2>2, <5>2
      <4> QED BY <1>2, <4>1, <4>2 DEF RateTypes
    <3>4. Aligned(p) \in SUBSET Times
      BY DEF Aligned
    <3> QED BY <3>2, <3>3, <3>4, NothingAdmitted DEF Admitted
  <2> QED BY <2>1, <2>2
<1>9. InThisWindow' = Current'
  BY <1>1, <1>3, <1>7, <1>8 DEF InThisWindow, Admitted, Aligned
<1> QED BY <1>1, <1>5, <1>6, <1>7, <1>9 DEF FixedInv, Owed

\* An admission counts in its own window.
LEMMA FixedAdmit ==
  ASSUME RateTypes, RateTypes', FixedInv, rlRule = "fixed-window",
         NEW cost \in Costs, Admit(cost)
  PROVE  FixedInv'
<1>1. /\ Current + cost <= MaxRequests
      /\ rlStart' = WindowStart /\ rlCount' = Current + cost /\ rlExpiry' = WindowStart + Window
      /\ rlAdmitted' = [rlAdmitted EXCEPT ![rlNow] = @ + cost]
      /\ rlRetry' = 0 /\ rlNow' = rlNow
  BY DEF Admit, Admits, Forgotten
<1>2. /\ Window \in Nat \ {0} /\ rlNow \in Nat /\ rlNow \in Times /\ cost \in Nat
  BY RateSums, RateAssumption DEF RateTypes
<1>3. PICK q \in Nat, x \in Nat :
           q = rlNow \div Window /\ x = rlNow - (rlNow % Window) /\ x <= rlNow /\ rlNow < x + Window
  <2>1. rlNow <= rlNow
    BY <1>2
  <2>2. WindowsOf(rlNow, rlNow, Window)
    BY <1>2, <2>1, WindowsInOrder
  <2> QED BY <2>2 DEF WindowsOf
<1>4. WindowStart = x /\ WindowStart' = x
  BY <1>1, <1>3 DEF WindowStart
<1>5. Present' /\ Current' = Current + cost
  BY <1>1, <1>3, <1>4 DEF Present, Current
<1>6. ASSUME NEW k \in Nat
      PROVE  Admitted(Aligned(k))' = IF k = q THEN Current + cost ELSE Admitted(Aligned(k))
  <2>1. /\ Aligned(k) \in SUBSET Times /\ Aligned(k)' = Aligned(k)
        /\ rlNow \in Aligned(k) <=> k = q
    BY <1>2, <1>3 DEF Aligned
  <2>2. Admitted(Aligned(k))'
          = IF rlNow \in Aligned(k) THEN Admitted(Aligned(k)) + cost ELSE Admitted(Aligned(k))
    BY <1>1, <1>2, <2>1, AdmissionCounts
  <2>3. Admitted(Aligned(q)) = Current
    BY <1>3 DEF FixedInv, InThisWindow
  <2> QED BY <2>1, <2>2, <2>3
<1>7. \A k \in Nat : Admitted(Aligned(k))' <= MaxRequests
  BY <1>1, <1>6 DEF FixedInv
<1>8. InThisWindow' = Current'
  <2>1. InThisWindow' = Admitted(Aligned(q))'
    BY <1>1, <1>3 DEF InThisWindow, Admitted, Aligned
  <2> QED BY <1>5, <1>6, <2>1
<1>9. rlExpiry' = rlStart' + Window /\ ~(rlRetry' > 0)
  BY <1>1
<1> QED BY <1>7, <1>8, <1>9 DEF FixedInv, Owed

\* A refusal names the start of the next window.
LEMMA FixedRefuse ==
  ASSUME RateTypes, RateTypes', FixedInv, rlRule = "fixed-window",
         NEW cost \in Costs, Refuse(cost)
  PROVE  FixedInv'
<1>1. /\ ~(Current + cost <= MaxRequests)
      /\ rlStart' = rlStart /\ rlCount' = rlCount /\ rlExpiry' = rlExpiry
      /\ rlAdmitted' = rlAdmitted /\ rlNow' = rlNow
      /\ \/ rlRetry' = WindowStart + Window /\ rlCost' = cost
         \/ rlRetry' = rlRetry /\ rlCost' = rlCost
  BY DEF Refuse, Admits, ResetAt
<1>2. /\ Window \in Nat \ {0} /\ MaxRequests \in Nat \ {0} /\ rlStart \in Nat /\ cost \in Nat
  BY RateSums, RateAssumption DEF RateTypes
<1>3. (Present' <=> Present) /\ WindowStart' = WindowStart
  BY <1>1 DEF Present, WindowStart
<1>4. Current' = Current
  BY <1>1, <1>3 DEF Current
<1>5. cost <= MaxRequests => Present /\ rlStart = WindowStart
  BY <1>1, <1>2 DEF Current
<1>6. Owed' /\ Present' => rlStart' + Window <= rlRetry'
  <2>1. CASE rlRetry' = WindowStart + Window /\ rlCost' = cost
    BY <1>1, <1>2, <1>5, <2>1 DEF Owed
  <2>2. CASE rlRetry' = rlRetry /\ rlCost' = rlCost
    BY <1>1, <1>3, <2>2 DEF FixedInv, Owed
  <2> QED BY <1>1, <2>1, <2>2
<1>7. \A k \in Nat : Admitted(Aligned(k))' = Admitted(Aligned(k))
  BY <1>1 DEF Admitted, Aligned
<1>8. InThisWindow' = InThisWindow
  BY <1>1 DEF InThisWindow, Admitted, Aligned
<1>9. /\ Present => rlExpiry = rlStart + Window
      /\ InThisWindow = Current
      /\ \A k \in Nat : Admitted(Aligned(k)) <= MaxRequests
  BY DEF FixedInv
<1> QED BY <1>1, <1>3, <1>4, <1>6, <1>7, <1>8, <1>9 DEF FixedInv

\* What a bucket holds, and how it fills.
LEMMA BucketHolds ==
  ASSUME RateTypes
  PROVE  /\ Full \in Nat /\ Bucket \in Nat /\ Bucket <= Full
         /\ MaxRequests <= Full /\ Window <= Full
         /\ Bucket = IF ~Present \/ rlTokens + (rlNow - rlStamp) * MaxRequests > Full THEN Full
                     ELSE rlTokens + (rlNow - rlStamp) * MaxRequests
<1>1. /\ Window \in Nat \ {0} /\ MaxRequests \in Nat \ {0}
      /\ rlNow \in Nat /\ rlTokens \in Nat /\ rlStamp \in Nat /\ rlStamp <= rlNow
  BY RateSums DEF RateTypes
<1>2. Full \in Nat /\ MaxRequests <= Full /\ Window <= Full
  <2>1. MaxRequests * 1 <= MaxRequests * Window /\ MaxRequests * Window \in Nat
    BY <1>1, Products
  <2>2. Window * 1 <= Window * MaxRequests
    BY <1>1, Products
  <2> QED BY <1>1, <2>1, <2>2 DEF Full
<1>3. (rlNow - rlStamp) * MaxRequests \in Nat
  <2>1. rlNow - rlStamp \in Nat
    BY <1>1
  <2> QED BY <1>1, <2>1
<1>4. Bucket = IF ~Present \/ rlTokens + (rlNow - rlStamp) * MaxRequests > Full THEN Full
               ELSE rlTokens + (rlNow - rlStamp) * MaxRequests
  BY DEF Bucket, Full
<1> QED BY <1>1, <1>2, <1>3, <1>4

\* A tick adds MaxRequests units, up to what the bucket can hold: also when the
\* key expires, for two windows refill any bucket.
LEMMA BucketFills ==
  ASSUME RateTypes, RateTypes', RateTick, Present => rlExpiry = rlStamp + 2 * Window
  PROVE  Bucket' = IF Bucket + MaxRequests > Full THEN Full ELSE Bucket + MaxRequests
<1>1. /\ rlNow' = rlNow + 1 /\ rlTokens' = rlTokens /\ rlStamp' = rlStamp /\ rlExpiry' = rlExpiry
  BY DEF RateTick
<1>2. /\ Window \in Nat \ {0} /\ MaxRequests \in Nat \ {0}
      /\ rlNow \in Nat /\ rlTokens \in Nat /\ rlStamp \in Nat /\ rlStamp <= rlNow /\ rlExpiry \in Nat
  BY RateSums DEF RateTypes
<1>3. PICK d \in Nat, m \in Nat : d = rlNow - rlStamp /\ m = d * MaxRequests
  BY <1>2
<1>4. (rlNow' - rlStamp') * MaxRequests = m + MaxRequests
  <2>1. rlNow' - rlStamp' = d + 1 /\ (d + 1) * MaxRequests = d * MaxRequests + MaxRequests
    BY <1>1, <1>2, <1>3
  <2> QED BY <1>3, <2>1
<1>5. /\ Full \in Nat /\ MaxRequests <= Full
      /\ Bucket = IF ~Present \/ rlTokens + m > Full THEN Full ELSE rlTokens + m
  BY <1>3, BucketHolds
<1>6. Bucket' = IF ~Present' \/ rlTokens + (m + MaxRequests) > Full THEN Full
                ELSE rlTokens + (m + MaxRequests)
  BY <1>1, <1>4 DEF Bucket, Full
<1>7. Present' => Present
  BY <1>1, <1>2 DEF Present
<1>8. ASSUME Present, ~Present' PROVE Full <= m + MaxRequests
  <2>1. d + 1 = 2 * Window
    BY <1>1, <1>2, <1>3, <1>8 DEF Present
  <2>2. Window <= d + 1 /\ d + 1 \in Nat
    BY ONLY <2>1, <1>2, d \in Nat
  <2>3. MaxRequests * Window <= MaxRequests * (d + 1)
    BY <1>2, <2>2, Products
  <2>4. MaxRequests * (d + 1) = m + MaxRequests
    BY <1>2, <1>3
  <2> QED BY <2>3, <2>4 DEF Full
<1> QED BY ONLY <1>2, <1>5, <1>6, <1>7, <1>8, m \in Nat

LEMMA BucketTick ==
  ASSUME RateTypes, RateTypes', BucketInv, RateTick
  PROVE  BucketInv'
<1>1. /\ rlNow < LastTime /\ rlNow' = rlNow + 1 /\ rlAdmitted' = rlAdmitted
      /\ rlStamp' = rlStamp /\ rlExpiry' = rlExpiry
      /\ rlRetry' = rlRetry /\ rlCost' = rlCost
  BY DEF RateTick
<1>2. /\ Window \in Nat \ {0} /\ MaxRequests \in Nat \ {0} /\ rlNow \in Nat /\ rlRetry \in Nat
      /\ rlExpiry \in Nat /\ LastTime \in Nat /\ rlCost \in Nat
  BY RateSums, RateAssumption DEF RateTypes
<1>3. Bucket' = IF Bucket + MaxRequests > Full THEN Full ELSE Bucket + MaxRequests
  BY BucketFills DEF BucketInv
<1>4. Bucket \in Nat /\ Bucket <= Full /\ Full \in Nat /\ Window <= Full
  BY BucketHolds
<1>5. PICK b \in Nat : b = Bucket'
  BY <1>2, <1>3, <1>4
<1>6. b <= Bucket + MaxRequests /\ Bucket <= b /\ (b = Full \/ b = Bucket + MaxRequests)
  BY ONLY <1>2, <1>3, <1>4, <1>5
<1>7. Present' => Present
  BY <1>1, <1>2 DEF Present
<1>8. ASSUME NEW a \in 0..rlNow'
      PROVE  EndingNow(a)' * Window + b <= MaxRequests * (Window + (rlNow' - a))
  <2>1. a \in Nat /\ a <= rlNow + 1
    BY <1>1, <1>2, <1>8
  <2>2. CASE a = rlNow + 1
    <3>1. a..rlNow' \in SUBSET Times /\ \A t \in a..rlNow' : rlAdmitted'[t] = 0
      BY <1>1, <1>2, <2>2 DEF RateTypes, Times
    <3>2. EndingNow(a)' = 0
      <4>1. EndingNow(a)' = SumFunctionOnSet(rlAdmitted', a..rlNow')
        BY DEF EndingNow, Admitted
      <4> QED BY <3>1, <4>1, NothingAdmitted
    <3>3. MaxRequests * (Window + (rlNow' - a)) = Full
      BY <1>1, <1>2, <2>2 DEF Full
    <3> QED BY <1>2, <1>4, <1>6, <1>3, <1>5, <3>2, <3>3
  <2>3. CASE a # rlNow + 1
    <3>1. a \in 0..rlNow /\ rlNow - a \in Nat
      BY <1>2, <2>1, <2>3
    <3>2. EndingNow(a)' = EndingNow(a)
      <4>1. /\ a..rlNow \in SUBSET (a..rlNow') /\ IsFiniteSet(a..rlNow')
            /\ \A t \in a..rlNow' : rlAdmitted[t] \in Int
            /\ \A t \in (a..rlNow') \ (a..rlNow) : rlAdmitted[t] = 0
        <5>1. a..rlNow' \in SUBSET Times
          BY <1>1, <1>2, <2>1 DEF Times
        <5>2. \A t \in a..rlNow' : rlAdmitted[t] \in Int
          BY <5>1 DEF RateTypes
        <5>3. \A t \in (a..rlNow') \ (a..rlNow) : t \in Times /\ t > rlNow
          BY <1>1, <1>2, <2>1, <5>1
        <5>4. \A t \in (a..rlNow') \ (a..rlNow) : rlAdmitted[t] = 0
          BY <5>3 DEF RateTypes
        <5> QED BY <1>1, <1>2, <2>1, <5>1, <5>2, <5>4, TimesFinite
      <4>2. SumFunctionOnSet(rlAdmitted, a..rlNow') = SumFunctionOnSet(rlAdmitted, a..rlNow)
        BY <4>1, SumOutside
      <4> QED BY <1>1, <4>2 DEF EndingNow, Admitted
    <3>3. EndingNow(a) * Window + Bucket <= MaxRequests * (Window + (rlNow - a))
      BY <3>1 DEF BucketInv
    <3>4. EndingNow(a) * Window \in Nat
      <4>1. a..rlNow \in SUBSET Times
        BY <1>1, <1>2, <2>1 DEF Times
      <4>2. EndingNow(a) \in Nat
        BY <4>1, RateSums DEF EndingNow
      <4> QED BY <1>2, <4>2
    <3>5. PICK n \in Nat : n = rlNow - a /\ rlNow' - a = n + 1
      BY <1>1, <1>2, <2>1, <3>1
    <3>6. MaxRequests * (Window + (n + 1)) = MaxRequests * (Window + n) + MaxRequests
          /\ MaxRequests * (Window + n) \in Nat
      BY <1>2
    <3> QED BY <1>2, <1>4, <1>6, <3>2, <3>3, <3>4, <3>5, <3>6
  <2> QED BY <2>2, <2>3
<1>9. ASSUME Owed
      PROVE  IF rlNow' < rlRetry THEN rlCost * Window <= b + (rlRetry - rlNow') * MaxRequests
             ELSE rlCost * Window <= b
  <2> DEFINE price == rlCost * Window
  <2>1. IF rlNow < rlRetry THEN price <= Bucket + (rlRetry - rlNow) * MaxRequests
        ELSE price <= Bucket
    BY <1>9 DEF BucketInv
  <2>4. price \in Nat /\ price <= Full
    <3>1. Window * rlCost <= Window * MaxRequests
      BY <1>2, <1>9, Products DEF Owed
    <3> QED BY <1>2, <3>1 DEF Full
  <2> HIDE DEF price
  <2>2. CASE ~(rlNow < rlRetry)
    <3>1. price <= b /\ ~(rlNow' < rlRetry)
      BY <1>1, <1>2, <1>4, <1>6, <2>1, <2>2, <2>4
    <3> QED BY <3>1 DEF price
  <2>3. CASE rlNow < rlRetry
    <3>1. PICK d \in Nat, m \in Nat : rlRetry = rlNow + 1 + d /\ m = d * MaxRequests
      <4>1. rlRetry - rlNow - 1 \in Nat /\ rlRetry = rlNow + 1 + (rlRetry - rlNow - 1)
        BY <1>2, <2>3
      <4>2. \A k \in Nat : k * MaxRequests \in Nat
        BY <1>2
      <4> QED BY <4>1, <4>2
    <3>2. (rlRetry - rlNow) * MaxRequests = m + MaxRequests /\ (rlRetry - rlNow') * MaxRequests = m
      <4>1. rlRetry - rlNow = d + 1 /\ rlRetry - rlNow' = d
        BY <1>1, <1>2, <3>1
      <4>2. (d + 1) * MaxRequests = d * MaxRequests + MaxRequests
        BY <1>2
      <4> QED BY <3>1, <4>1, <4>2
    <3>3. rlNow' < rlRetry => d > 0
      BY <1>1, <1>2, <3>1
    <3>4. ~(rlNow' < rlRetry) => m = 0
      BY <1>1, <1>2, <3>1
    <3>5. price <= Bucket + (m + MaxRequests)
      BY <2>1, <2>3, <3>2
    <3>6. price <= b + m
      BY ONLY <1>2, <1>4, <1>6, <2>4, <3>5, m \in Nat, b \in Nat
    <3>7. IF rlNow' < rlRetry THEN price <= b + (rlRetry - rlNow') * MaxRequests ELSE price <= b
      BY ONLY <1>2, <2>4, <3>2, <3>4, <3>6, m \in Nat, b \in Nat
    <3> QED BY <3>7 DEF price
  <2> QED BY <2>2, <2>3 DEF price
<1>10. \A a \in Times : \A c \in a..LastTime :
         Admitted(a..c)' * Window <= MaxRequests * (Window + (c - a))
  BY <1>1 DEF BucketInv, Admitted
<1>11. Present' => rlExpiry' = rlStamp' + 2 * Window
  BY <1>1, <1>7 DEF BucketInv
<1> QED BY <1>1, <1>5, <1>8, <1>9, <1>10, <1>11 DEF BucketInv, Owed

\* An admission takes its tokens, and a span that goes past it only has more.
LEMMA BucketAdmit ==
  ASSUME RateTypes, RateTypes', BucketInv, rlRule = "token-bucket",
         NEW cost \in Costs, Admit(cost)
  PROVE  BucketInv'
<1>1. /\ Bucket >= cost * Window
      /\ rlTokens' = Bucket - cost * Window /\ rlStamp' = rlNow /\ rlExpiry' = rlNow + 2 * Window
      /\ rlAdmitted' = [rlAdmitted EXCEPT ![rlNow] = @ + cost]
      /\ rlRetry' = 0 /\ rlNow' = rlNow
  BY DEF Admit, Admits, Forgotten
<1>2. /\ Window \in Nat \ {0} /\ MaxRequests \in Nat \ {0} /\ rlNow \in Nat /\ cost \in Nat
      /\ rlNow \in Times /\ LastTime \in Nat /\ rlNow <= LastTime
  BY RateSums, RateAssumption DEF RateTypes, Times
<1>3. Bucket \in Nat /\ Bucket <= Full /\ Full \in Nat
  BY BucketHolds
<1>4. PICK taken \in Nat : taken = cost * Window
  BY <1>2
<1>5. Bucket' = Bucket - taken
  <2>1. (rlNow' - rlStamp') * MaxRequests = 0
    BY <1>1, <1>2
  <2>2. Present'
    BY <1>1, <1>2 DEF Present
  <2>3. Bucket' = IF rlTokens' + 0 > Full THEN Full ELSE rlTokens' + 0
    BY <2>1, <2>2 DEF Bucket, Full
  <2>4. rlTokens' = Bucket - taken
    BY <1>1, <1>4
  <2> QED BY ONLY <1>3, <2>3, <2>4, taken \in Nat
<1>6. ASSUME NEW a \in 0..rlNow
      PROVE  /\ EndingNow(a)' \in Nat
             /\ EndingNow(a)' * Window + Bucket' <= MaxRequests * (Window + (rlNow - a))
  <2>1. a..rlNow \in SUBSET Times /\ rlNow \in a..rlNow
    BY <1>2 DEF Times
  <2>2. PICK n \in Nat : n = EndingNow(a)
    BY <2>1, RateSums DEF EndingNow
  <2>3. EndingNow(a)' = n + cost
    <3>1. PICK S \in SUBSET Times : S = a..rlNow /\ rlNow \in S
      BY <2>1
    <3>2. Admitted(S)' = Admitted(S) + cost
      BY <1>1, <1>2, <3>1, AdmissionCounts
    <3> QED BY <1>1, <2>2, <3>1, <3>2 DEF EndingNow, Admitted
  <2>4. (n + cost) * Window = n * Window + taken /\ n * Window \in Nat
    BY <1>2, <1>4
  <2>5. n * Window + Bucket <= MaxRequests * (Window + (rlNow - a))
    BY <2>2 DEF BucketInv
  <2>6. PICK m \in Int : m = MaxRequests * (Window + (rlNow - a))
    BY <1>2
  <2> QED BY <1>2, <1>3, <1>5, <2>3, <2>4, <2>5, <2>6
<1>7. ASSUME NEW a \in Times, NEW b \in a..LastTime
      PROVE  Admitted(a..b)' * Window <= MaxRequests * (Window + (b - a))
  <2>1. a \in Nat /\ b \in Nat /\ a <= b /\ a..b \in SUBSET Times
    BY <1>2 DEF Times
  <2>2. Admitted(a..b)' = IF rlNow \in a..b THEN Admitted(a..b) + cost ELSE Admitted(a..b)
    <3>1. PICK S \in SUBSET Times : S = a..b
      BY <2>1
    <3>2. Admitted(S)' = IF rlNow \in S THEN Admitted(S) + cost ELSE Admitted(S)
      BY <1>1, <1>2, AdmissionCounts
    <3> QED BY <3>1, <3>2 DEF Admitted
  <2>3. CASE rlNow \notin a..b
    BY <2>2, <2>3 DEF BucketInv
  <2>4. CASE rlNow \in a..b
    <3>1. a \in 0..rlNow /\ rlNow <= b
      BY <1>2, <2>1, <2>4
    <3>2. Admitted(a..b)' = EndingNow(a)'
      <4>1. PICK h : h = rlAdmitted'
        OBVIOUS
      <4>2. /\ a..rlNow \in SUBSET (a..b) /\ IsFiniteSet(a..b)
            /\ \A t \in (a..b) \ (a..rlNow) : t \in Times /\ t > rlNow
        BY <1>2, <2>1, <3>1, TimesFinite
      <4>3. (\A t \in a..b : h[t] \in Int) /\ \A t \in (a..b) \ (a..rlNow) : h[t] = 0
        <5>1. \A t \in Times : h[t] \in Nat /\ (t > rlNow => h[t] = 0)
          BY <1>1, <4>1 DEF RateTypes
        <5> QED BY <2>1, <4>2, <5>1
      <4>4. SumFunctionOnSet(h, a..b) = SumFunctionOnSet(h, a..rlNow)
        BY <4>2, <4>3, SumOutside
      <4> QED BY <1>1, <4>1, <4>4 DEF Admitted, EndingNow
    <3>3. PICK n \in Nat : n = EndingNow(a)' /\ n * Window + Bucket' <= MaxRequests * (Window + (rlNow - a))
      BY <1>6, <3>1
    <3>4. Bucket' \in Nat
      BY <1>1, <1>3, <1>4, <1>5
    <3>5. PICK x \in Nat, y \in Nat : x = Window + (rlNow - a) /\ y = Window + (b - a) /\ x <= y
      BY <1>2, <2>1, <3>1
    <3>6. MaxRequests * x <= MaxRequests * y /\ MaxRequests * x \in Nat /\ MaxRequests * y \in Nat
      BY <1>2, <3>5, Products
    <3>7. n * Window \in Nat /\ n * Window + Bucket' <= MaxRequests * x
      BY <1>2, <3>3, <3>5
    <3>8. n * Window <= MaxRequests * y
      BY ONLY <3>4, <3>6, <3>7
    <3> QED BY <3>2, <3>3, <3>5, <3>8
  <2> QED BY <2>3, <2>4
<1>8. ~(rlRetry' > 0) /\ rlExpiry' = rlStamp' + 2 * Window
  BY <1>1
<1> QED BY <1>1, <1>6, <1>7, <1>8 DEF BucketInv, Owed

\* A refusal writes the bucket back, and names the time at which it holds a
\* request.
LEMMA BucketRefuse ==
  ASSUME RateTypes, RateTypes', BucketInv, rlRule = "token-bucket",
         NEW cost \in Costs, Refuse(cost)
  PROVE  BucketInv'
<1>1. /\ ~(Bucket >= cost * Window)
      /\ rlTokens' = Bucket /\ rlStamp' = rlNow /\ rlExpiry' = rlNow + 2 * Window
      /\ rlAdmitted' = rlAdmitted /\ rlNow' = rlNow
      /\ \/ rlRetry' = rlNow + CeilDiv(cost * Window - Bucket, MaxRequests) /\ rlCost' = cost
         \/ rlRetry' = rlRetry /\ rlCost' = rlCost
  BY DEF Refuse, Admits, ResetAt
<1>2. /\ Window \in Nat \ {0} /\ MaxRequests \in Nat \ {0} /\ rlNow \in Nat
      /\ cost \in Nat /\ cost * Window \in Nat
  BY RateSums, RateAssumption
<1>3. Bucket \in Nat /\ Bucket <= Full /\ Full \in Nat
  BY BucketHolds
<1>4. Bucket' = Bucket
  <2>1. (rlNow' - rlStamp') * MaxRequests = 0
    BY <1>1, <1>2
  <2>2. Present'
    BY <1>1, <1>2 DEF Present
  <2>3. Bucket' = IF rlTokens' + 0 > Full THEN Full ELSE rlTokens' + 0
    BY <2>1, <2>2 DEF Bucket, Full
  <2> QED BY ONLY <1>1, <1>3, <2>3
<1>5. ASSUME rlRetry' = rlNow + CeilDiv(cost * Window - Bucket, MaxRequests)
      PROVE  rlNow < rlRetry' /\ cost * Window <= Bucket + (rlRetry' - rlNow) * MaxRequests
  <2> DEFINE price == cost * Window
  <2>8. price \in Nat /\ ~(Bucket >= price)
    BY <1>1, <1>2
  <2> HIDE DEF price
  <2>1. PICK n \in Nat : n = price - Bucket /\ n > 0
    BY <1>3, <2>8
  <2>2. PICK top \in Nat : top = n + MaxRequests - 1
    BY <1>2
  <2>3. PICK q \in Nat, r \in Nat, m \in Nat :
          q = top \div MaxRequests /\ r = top % MaxRequests /\ m = MaxRequests * q
          /\ r < MaxRequests /\ top = m + r
    BY <1>2, Dividing
  <2>4. n <= m
    <3>1. r < MaxRequests /\ top = m + r
      BY <2>3
    <3> QED BY ONLY <1>2, <2>2, <3>1, n \in Nat, r \in Nat, m \in Nat
  <2>5. q > 0
    <3>1. ASSUME q = 0 PROVE FALSE
      <4>1. m = 0
        BY <1>2, <2>3, <3>1
      <4> QED BY <2>1, <2>4, <4>1
    <3> QED BY <3>1
  <2>6. rlRetry' = rlNow + q
    <3>1. cost * Window - Bucket = n
      BY <2>1 DEF price
    <3> QED BY <1>5, <2>2, <2>3, <3>1 DEF CeilDiv
  <2>7. rlRetry' - rlNow = q /\ q * MaxRequests = m
    <3>1. m = MaxRequests * q
      BY <2>3
    <3> QED BY ONLY <1>2, <2>6, <3>1, q \in Nat
  <2>9. rlNow < rlRetry' /\ price <= Bucket + (rlRetry' - rlNow) * MaxRequests
    BY ONLY <1>2, <1>3, <2>1, <2>4, <2>5, <2>6, <2>7, <2>8, q \in Nat, m \in Nat
  <2> QED BY <2>9 DEF price
<1>6. Owed' => IF rlNow < rlRetry' THEN rlCost' * Window <= Bucket + (rlRetry' - rlNow) * MaxRequests
               ELSE rlCost' * Window <= Bucket
  <2>1. CASE rlRetry' = rlNow + CeilDiv(cost * Window - Bucket, MaxRequests) /\ rlCost' = cost
    BY <1>5, <2>1
  <2>2. CASE rlRetry' = rlRetry /\ rlCost' = rlCost
    BY <2>2 DEF BucketInv, Owed
  <2> QED BY <1>1, <2>1, <2>2
<1>7. /\ \A a \in Times : \A b \in a..LastTime :
           Admitted(a..b)' * Window <= MaxRequests * (Window + (b - a))
      /\ \A a \in 0..rlNow : EndingNow(a)' * Window + Bucket <= MaxRequests * (Window + (rlNow - a))
  BY <1>1 DEF BucketInv, Admitted, EndingNow
<1> QED BY <1>1, <1>4, <1>6, <1>7 DEF BucketInv

\* A state in which the key is not there and nothing was admitted satisfies all
\* of it.
Fresh == ~Present /\ rlAdmitted = NoHits /\ rlRetry = 0

LEMMA FreshIsFine ==
  ASSUME RateTypes, Fresh
  PROVE  RateInv
<1>1. /\ MaxRequests \in Nat /\ Window \in Nat \ {0} /\ rlNow \in Nat /\ LastTime \in Nat
      /\ \A t \in Times : rlAdmitted[t] = 0 /\ Hits[t] = 0
  BY RateSums, RateAssumption DEF Fresh, NoHits, Hits
<1>2. \A S \in SUBSET Times : Admitted(S) = 0
  BY <1>1, NothingAdmitted DEF Admitted
<1>3. Taken = 0
  BY <1>1, NothingAdmitted DEF Taken
<1>4. SlidingInv
  BY <1>1, <1>2, <1>3 DEF SlidingInv, Fresh, Owed, Span
<1>5. FixedInv
  <2>1. \A k : Admitted(Aligned(k)) = 0
    BY <1>2 DEF Aligned
  <2>2. Current = 0 /\ InThisWindow = 0
    BY <2>1 DEF Current, Fresh, InThisWindow
  <2> QED BY <1>1, <2>1, <2>2 DEF FixedInv, Fresh, Owed
<1>6. BucketInv
  <2>1. Bucket = Full /\ Full \in Nat
    BY BucketHolds DEF Fresh
  <2>2. ASSUME NEW a \in Nat, NEW b \in Nat, a <= b
        PROVE  Full <= MaxRequests * (Window + (b - a)) /\ 0 <= Full
    <3>1. Window <= Window + (b - a) /\ Window + (b - a) \in Nat
      BY <1>1, <2>2
    <3> QED BY <1>1, <2>1, <3>1, Products DEF Full
  <2>3. ASSUME NEW a \in Times, NEW b \in a..LastTime
        PROVE  Admitted(a..b) * Window <= MaxRequests * (Window + (b - a))
    <3>1. a \in Nat /\ b \in Nat /\ a <= b /\ a..b \in SUBSET Times
      BY <1>1 DEF Times
    <3>2. Admitted(a..b) * Window = 0
      BY <1>1, <1>2, <3>1
    <3>3. Full <= MaxRequests * (Window + (b - a)) /\ 0 <= Full
      BY <2>2, <3>1
    <3>4. PICK m \in Int : m = MaxRequests * (Window + (b - a))
      BY <1>1, <3>1
    <3> QED BY <2>1, <3>2, <3>3, <3>4
  <2>4. ASSUME NEW a \in 0..rlNow
        PROVE  EndingNow(a) * Window + Bucket <= MaxRequests * (Window + (rlNow - a))
    <3>1. a \in Nat /\ a <= rlNow /\ a..rlNow \in SUBSET Times
      BY <1>1 DEF RateTypes, Times
    <3>2. EndingNow(a) * Window = 0
      BY <1>1, <1>2, <3>1 DEF EndingNow
    <3>3. Full <= MaxRequests * (Window + (rlNow - a))
      BY <1>1, <2>2, <3>1
    <3> QED BY <2>1, <3>2, <3>3
  <2>5. ~Present /\ ~Owed
    BY DEF Fresh, Owed
  <2> QED BY <2>3, <2>4, <2>5 DEF BucketInv
<1> QED BY <1>4, <1>5, <1>6 DEF RateInv

LEMMA ResetAtType ==
  ASSUME RateTypes, NEW cost \in Costs, ~Admits(cost)
  PROVE  ResetAt(cost) \in Nat
<1>1. /\ Window \in Nat \ {0} /\ MaxRequests \in Nat \ {0} /\ rlNow \in Nat
      /\ cost \in Nat /\ rlRule \in {"sliding-window", "fixed-window", "token-bucket"}
  BY RateSums, RateAssumption DEF RateTypes
<1>2. CASE rlRule = "sliding-window"
  <2> DEFINE counted == {t \in Times : Hits[t] > 0}
  <2>1. counted \in SUBSET Nat
    BY DEF Times
  <2>2. ResetAt(cost) = (IF counted = {} THEN rlNow
                      ELSE CHOOSE t \in counted : \A u \in counted : t <= u) + Window
    BY <1>2 DEF ResetAt
  <2> HIDE DEF counted
  <2>3. counted # {} => (CHOOSE t \in counted : \A u \in counted : t <= u) \in Nat
    BY <2>1, Oldest
  <2> QED BY <1>1, <2>2, <2>3
<1>3. CASE rlRule = "fixed-window"
  <2>1. rlNow <= rlNow
    BY <1>1
  <2>2. WindowsOf(rlNow, rlNow, Window)
    BY <1>1, <2>1, WindowsInOrder
  <2>3. WindowStart \in Nat
    BY <2>2 DEF WindowsOf, WindowStart
  <2>4. ResetAt(cost) = WindowStart + Window
    BY <1>3 DEF ResetAt
  <2> QED BY <1>1, <2>3, <2>4
<1>4. CASE rlRule = "token-bucket"
  <2>1. Bucket \in Nat /\ cost * Window \in Nat /\ Bucket < cost * Window
    BY <1>1, <1>4, BucketHolds DEF Admits
  <2>2. PICK top \in Nat : top = cost * Window - Bucket + MaxRequests - 1
    BY <1>1, <2>1
  <2>3. top \div MaxRequests \in Nat
    BY <1>1, Dividing
  <2>4. ResetAt(cost) = rlNow + (top \div MaxRequests)
    BY <1>4, <2>2 DEF ResetAt, CeilDiv
  <2> QED BY <1>1, <2>3, <2>4
<1> QED BY <1>1, <1>2, <1>3, <1>4

LEMMA RateTypesAdmit ==
  ASSUME RateTypes, NEW cost \in Costs, Admit(cost)
  PROVE  RateTypes'
<1>1. /\ rlAdmitted' = [rlAdmitted EXCEPT ![rlNow] = @ + cost]
      /\ rlRetry' = 0 /\ rlCost' = 0 /\ rlTaken' = 0 /\ rlNow' = rlNow /\ rlRule' = rlRule
  BY DEF Admit, Forgotten
<1>2. /\ Window \in Nat \ {0} /\ rlNow \in Nat /\ rlNow \in Times /\ cost \in Nat
      /\ rlAdmitted \in [Times -> Nat] /\ Hits \in [Times -> Nat] /\ rlHits \in [Times -> Nat]
      /\ rlStart \in Nat /\ rlCount \in Nat /\ rlTokens \in Nat /\ rlStamp \in Nat
      /\ rlStart <= rlNow /\ rlStamp <= rlNow
      /\ rlRule \in {"sliding-window", "fixed-window", "token-bucket"}
      /\ \A t \in Times : t > rlNow => rlHits[t] = 0 /\ rlAdmitted[t] = 0
  BY RateSums, RateAssumption DEF RateTypes
<1>3. rlAdmitted' \in [Times -> Nat] /\ \A t \in Times : t > rlNow => rlAdmitted'[t] = 0
  BY <1>1, <1>2
<1>4. CASE rlRule = "sliding-window"
  <2>1. /\ rlHits' = [Hits EXCEPT ![rlNow] = @ + cost] /\ rlExpiry' = rlNow + Window
        /\ UNCHANGED <<rlStart, rlCount, rlTokens, rlStamp>>
    BY <1>4 DEF Admit
  <2>2. \A t \in Times : t > rlNow => Hits[t] = 0
    BY <1>2 DEF Hits, NoHits
  <2>3. rlHits' \in [Times -> Nat] /\ \A t \in Times : t > rlNow => rlHits'[t] = 0
    BY <1>2, <2>1, <2>2
  <2> QED BY <1>1, <1>2, <1>3, <2>1, <2>3 DEF RateTypes
<1>5. CASE rlRule = "fixed-window"
  <2>1. /\ rlStart' = WindowStart /\ rlCount' = Current + cost /\ rlExpiry' = WindowStart + Window
        /\ UNCHANGED <<rlHits, rlTokens, rlStamp>>
    BY <1>5 DEF Admit
  <2>2. rlNow <= rlNow
    BY <1>2
  <2>3. WindowsOf(rlNow, rlNow, Window)
    BY <1>2, <2>2, WindowsInOrder
  <2>4. WindowStart \in Nat /\ WindowStart <= rlNow
    BY <2>3 DEF WindowsOf, WindowStart
  <2>5. Current \in Nat
    BY <1>2 DEF Current
  <2> QED BY <1>1, <1>2, <1>3, <2>1, <2>4, <2>5 DEF RateTypes
<1>6. CASE rlRule = "token-bucket"
  <2>1. /\ Bucket >= cost * Window
        /\ rlTokens' = Bucket - cost * Window /\ rlStamp' = rlNow /\ rlExpiry' = rlNow + 2 * Window
        /\ UNCHANGED <<rlHits, rlStart, rlCount>>
    BY <1>6 DEF Admit, Admits
  <2>2. rlTokens' \in Nat
    <3>1. PICK taken \in Nat : taken = cost * Window
      BY <1>2
    <3> QED BY <2>1, <3>1, BucketHolds
  <2> QED BY <1>1, <1>2, <1>3, <2>1, <2>2 DEF RateTypes
<1> QED BY <1>2, <1>4, <1>5, <1>6

LEMMA RateTypesRefuse ==
  ASSUME RateTypes, NEW cost \in Costs, Refuse(cost)
  PROVE  RateTypes'
<1>1. /\ rlHits' = IF rlRule = "sliding-window" THEN Hits ELSE rlHits
      /\ IF rlRule = "token-bucket"
         THEN rlTokens' = Bucket /\ rlStamp' = rlNow /\ rlExpiry' = rlNow + 2 * Window
         ELSE UNCHANGED <<rlTokens, rlStamp, rlExpiry>>
      /\ UNCHANGED <<rlRule, rlNow, rlStart, rlCount, rlAdmitted>>
  BY DEF Refuse
<1>2. rlRetry' \in Nat /\ rlCost' \in Nat /\ rlTaken' \in Nat
  BY ResetAtType, RateSums, RateAssumption DEF Refuse, RateTypes
<1>3. Hits \in [Times -> Nat] /\ rlNow \in Nat /\ Window \in Nat /\ Bucket \in Nat
  BY RateSums, BucketHolds
<1>4. \A t \in Times : t > rlNow => Hits[t] = 0
  BY DEF Hits, NoHits, RateTypes
<1>5. rlHits' \in [Times -> Nat] /\ \A t \in Times : t > rlNow => rlHits'[t] = 0
  BY <1>1, <1>3, <1>4 DEF RateTypes
<1>6. rlTokens' \in Nat /\ rlStamp' \in Nat /\ rlExpiry' \in Nat /\ rlStamp' <= rlNow
  BY <1>1, <1>3 DEF RateTypes
<1> QED BY <1>1, <1>2, <1>5, <1>6 DEF RateTypes

LEMMA RateStep ==
  ASSUME RateInv, [RateNext]_rlVars
  PROVE  RateInv' \/ (RateTypes' /\ Fresh')
<1>1. RateTypes
  BY DEF RateInv
<1>2. rlRule' = rlRule
  BY DEF RateNext, RateTick, Admit, Refuse, RateReset, rlVars
<1>3. CASE RateTick
  <2>1. RateTypes'
    <3>1. rlNow' \in Times /\ \A t \in Times : t > rlNow' => t > rlNow
      BY <1>1, <1>3, RateAssumption DEF RateTypes, RateTick, Times
    <3>2. rlNow \in Nat /\ rlNow' = rlNow + 1
      BY <1>1, <1>3, RateSums DEF RateTick
    <3> QED BY <1>1, <1>3, <3>1, <3>2 DEF RateTypes, RateTick
  <2> QED BY <1>1, <1>2, <1>3, <2>1, SlidingTick, FixedTick, BucketTick DEF RateInv
<1>4. ASSUME NEW cost \in Costs, Admit(cost) PROVE RateInv'
  <2>1. RateTypes'
    BY <1>1, <1>4, RateTypesAdmit
  <2> QED BY <1>1, <1>2, <1>4, <2>1, SlidingAdmit, FixedAdmit, BucketAdmit DEF RateInv
<1>5. ASSUME NEW cost \in Costs, Refuse(cost) PROVE RateInv'
  <2>1. RateTypes'
    BY <1>1, <1>5, RateTypesRefuse
  <2> QED BY <1>1, <1>2, <1>5, <2>1, SlidingRefuse, FixedRefuse, BucketRefuse DEF RateInv
<1>6. CASE RateReset
  <2>1. Fresh'
    BY <1>1, <1>6 DEF RateReset, Forgotten, Fresh, Present, RateTypes, Times
  <2>2. RateTypes'
    BY <1>1, <1>6 DEF RateReset, Forgotten, RateTypes, NoHits
  <2> QED BY <2>1, <2>2
<1>7. CASE UNCHANGED rlVars
  BY <1>7 DEF rlVars, RateInv, RateTypes, SlidingInv, FixedInv, BucketInv, Owed, Admitted, Span, Aligned,
              InThisWindow, EndingNow, Taken, Hits, Present, Kept, Current, WindowStart, Bucket
<1> QED BY <1>3, <1>4, <1>5, <1>6, <1>7 DEF RateNext

LEMMA RateAlways == RateSpec => []RateInv
<1>1. RateInit => RateTypes /\ Fresh
  <2>1. RateInit => RateTypes
    BY RateAssumption DEF RateInit, RateTypes, Times, NoHits
  <2> QED BY <2>1 DEF RateInit, Fresh, Present
<1>2. RateTypes /\ Fresh => RateInv
  BY FreshIsFine
<1>3. RateInv /\ [RateNext]_rlVars => RateInv' \/ (RateTypes /\ Fresh)'
  BY RateStep
<1> QED BY <1>1, <1>2, <1>3, PTL DEF RateSpec

\* No rule lets more through than it says, in any window or span, however
\* ticks, expiries, refusals and resets fall.
THEOREM AdmittedWithinRuleHolds == RateSpec => []AdmittedWithinRule
<1>1. RateInv => AdmittedWithinRule
  <2> SUFFICES ASSUME RateInv PROVE AdmittedWithinRule
    OBVIOUS
  <2>1. \A k \in 0..(LastTime \div Window) : k \in Nat
    OBVIOUS
  <2>2. rlRule \in {"sliding-window", "fixed-window", "token-bucket"}
    BY DEF RateInv, RateTypes
  <2> QED BY <2>1, <2>2 DEF RateInv, SlidingInv, FixedInv, BucketInv, AdmittedWithinRule,
                            Admitted, Span, Aligned
<1> QED BY <1>1, RateAlways, PTL

\* Whoever was refused what a rule can admit, comes back at resetAt and finds
\* nobody admitted since: a fixed window and a bucket admit any weight, a sliding
\* window admits weight 1, and has more room for a heavier request than it had.
THEOREM RetryIsAdmittedHolds == RateSpec => []RetryIsAdmitted
<1>1. RateInv => RetryIsAdmitted
  <2> SUFFICES ASSUME RateInv, Owed, rlNow >= rlRetry
               PROVE  IF rlRule = "sliding-window" THEN Taken < rlTaken /\ (rlCost = 1 => Admits(1))
                      ELSE Admits(rlCost)
    BY DEF RetryIsAdmitted, Owed
  <2>1. /\ RateTypes /\ rlRule \in {"sliding-window", "fixed-window", "token-bucket"}
        /\ rlNow \in Nat /\ rlRetry \in Nat /\ Window \in Nat \ {0} /\ MaxRequests \in Nat \ {0}
        /\ Taken \in Nat /\ rlTaken \in Nat /\ rlCost \in Nat /\ ~(rlNow < rlRetry)
    BY RateSums DEF RateInv, RateTypes
  <2>2. CASE rlRule = "sliding-window"
    <3>1. Taken < rlTaken /\ rlTaken <= MaxRequests
      BY <2>1, <2>2 DEF RateInv, SlidingInv
    <3>2. Taken + 1 <= MaxRequests
      BY <2>1, <3>1
    <3> QED BY <2>2, <3>1, <3>2 DEF Admits
  <2>3. CASE rlRule = "fixed-window"
    <3>1. ~Present
      BY <2>1, <2>3 DEF RateInv, FixedInv, Present, RateTypes
    <3>2. Current + rlCost <= MaxRequests
      BY <2>1, <3>1 DEF Current, Owed
    <3> QED BY <2>3, <3>2 DEF Admits
  <2>4. CASE rlRule = "token-bucket"
    <3>1. rlCost * Window <= Bucket /\ Bucket \in Nat /\ rlCost * Window \in Nat
      BY <2>1, <2>4, BucketHolds DEF RateInv, BucketInv
    <3>2. Bucket >= rlCost * Window
      BY <3>1
    <3> QED BY <2>4, <3>2 DEF Admits
  <2> QED BY <2>1, <2>2, <2>3, <2>4
<1> QED BY <1>1, RateAlways, PTL

-----------------------------------------------------------------------------
(***************************************************************************)
(* A change of plan.  A subscription's items differ in their ids and in    *)
(* their prices, whatever several callers did to it: then the changes      *)
(* computed from them make the set they were computed for.                 *)
(***************************************************************************)

Patches == ItemPatches \cup FirstPatches
Quantity == Quantities \cup {DefaultQuantity}
Updated == [id : Nat, price : Prices \cup {Unset}, quantity : Quantity \cup {Unset}]
Created == [price : Prices, quantity : Quantities \cup {Unset}]
Changes == [deleted : SUBSET Nat, updated : SUBSET Updated, created : SUBSET Created]

PlanInv ==
  /\ items \subseteq Item /\ items # {} /\ made_ids \in Nat
  /\ \A x, y \in items : x.id = y.id \/ x.price = y.price => x = y
  /\ \A x \in items : x.id <= made_ids
  /\ patch \in [Changers -> Patches]
  /\ read \in [Changers -> SUBSET Item]
  /\ \A c \in Changers : pstep[c] = "update" => read[c] # {}
  /\ DOMAIN sent = Changers /\ DOMAIN pstep = Changers

LEMMA FirstItemIs ==
  ASSUME NEW s \in SUBSET Item, s # {}
  PROVE  FirstItem(s) \in s
<1>1. {item.id : item \in s} \in SUBSET Nat /\ {item.id : item \in s} # {}
  BY DEF Item
<1>2. PICK n \in {item.id : item \in s} : \A m \in Nat : m < n => m \notin {item.id : item \in s}
  BY <1>1, FirstFailure
<1>3. PICK first \in s : n = first.id
  OBVIOUS
<1>4. \A other \in s : first.id <= other.id
  BY <1>1, <1>2, <1>3 DEF Item
<1> QED BY <1>3, <1>4 DEF FirstItem

\* What an update does to an item.
LEMMA ChangedItem ==
  ASSUME NEW item, NEW changes
  PROVE  Changed(item, changes) = item \/
         \E ch \in changes.updated :
           /\ ch.id = item.id
           /\ Changed(item, changes) = [id |-> item.id, price |-> Or(ch.price, item.price),
                                        quantity |-> Or(ch.quantity, item.quantity)]
BY DEF Changed

\* The first form: the first item with the price and quantity given.
LEMMA FirstChanges ==
  ASSUME NEW s \in SUBSET Item, s # {}, NEW p \in FirstPatches, NEW ids,
         \A x, y \in s : x.id = y.id => x = y
  PROVE  Fulfils(s, p, Stay(s, ItemChanges(s, p)) \cup New(ItemChanges(s, p), ids))
<1>1. PICK first \in s : first = FirstItem(s)
  BY FirstItemIs
<1>2. ~ReplacesSet(p)
  BY DEF ReplacesSet, FirstPatches
<1>3. PICK ch : ch = [id |-> first.id, price |-> p.price, quantity |-> p.quantity]
  OBVIOUS
<1>4. PICK changes : changes = [deleted |-> {}, updated |-> {ch}, created |-> {}]
  OBVIOUS
<1>5. ItemChanges(s, p) = changes
  BY <1>1, <1>2, <1>3, <1>4 DEF ItemChanges
<1>6. New(changes, ids) = {}
  BY <1>4 DEF New
<1>7. Stay(s, changes) = {Changed(item, changes) : item \in s}
  BY <1>4 DEF Stay
<1>8. Changed(first, changes) = [id |-> first.id, price |-> Or(p.price, first.price),
                                 quantity |-> Or(p.quantity, first.quantity)]
  BY <1>3, <1>4 DEF Changed
<1>9. \A item \in s \ {first} : Changed(item, changes) = item
  BY <1>3, <1>4 DEF Changed
<1>10. Stay(s, changes) = (s \ {first}) \cup {Changed(first, changes)}
  BY <1>7, <1>9
<1> QED BY <1>1, <1>2, <1>5, <1>6, <1>8, <1>10 DEF Fulfils

\* The other form: what is kept, updated and created is what is wanted.
LEMMA SetChanges ==
  ASSUME NEW s \in SUBSET Item, NEW p \in ItemPatches, NEW ids,
         \A x, y \in s : x.id = y.id \/ x.price = y.price => x = y
  PROVE  Fulfils(s, p, Stay(s, ItemChanges(s, p)) \cup New(ItemChanges(s, p), ids))
<1>1. PICK w : w = p.wanted
  OBVIOUS
<1>2. ReplacesSet(p) /\ DOMAIN w \subseteq Prices
  BY <1>1 DEF ReplacesSet, ItemPatches
<1>3. PICK changes : changes = ReplaceItems(s, w)
  OBVIOUS
<1>4. ItemChanges(s, p) = changes
  BY <1>1, <1>2, <1>3 DEF ItemChanges
<1>5. /\ changes.deleted = {item.id : item \in s \ KeptItems(s, w)}
      /\ changes.updated = Updates(s, w) /\ changes.created = Creates(s, w)
  BY <1>3 DEF ReplaceItems
<1>6. \A item \in s : item.id \notin changes.deleted <=> item.price \in DOMAIN w
  BY <1>5 DEF KeptItems
<1>7. ASSUME NEW item \in s, item.price \in DOMAIN w
      PROVE  /\ Changed(item, changes).id = item.id
             /\ Changed(item, changes).price = item.price
             /\ Changed(item, changes).quantity = Or(w[item.price], item.quantity)
  <2>1. CASE Given(w[item.price])
    <3>1. PICK ch : ch = [id |-> item.id, price |-> Unset, quantity |-> w[item.price]]
      OBVIOUS
    <3>2. ch \in changes.updated /\ ch.id = item.id
      BY <1>5, <1>7, <2>1, <3>1 DEF Updates, KeptItems
    <3>3. \A x \in changes.updated : x.id = item.id => x = ch
      BY <1>5, <3>1 DEF Updates, KeptItems
    <3>4. Changed(item, changes) = [id |-> item.id, price |-> Or(ch.price, item.price),
                                    quantity |-> Or(ch.quantity, item.quantity)]
      BY <3>2, <3>3 DEF Changed
    <3> QED BY <2>1, <3>1, <3>4 DEF Or, Given
  <2>2. CASE ~Given(w[item.price])
    <3>1. \A x \in changes.updated : x.id # item.id
      BY <1>5, <2>2 DEF Updates, KeptItems
    <3>2. Changed(item, changes) = item
      BY <3>1 DEF Changed
    <3> QED BY <2>2, <3>2 DEF Or
  <2> QED BY <2>1, <2>2
<1>8. PICK after : after = Stay(s, changes) \cup New(changes, ids)
  OBVIOUS
<1>9. ASSUME NEW new \in after
      PROVE  /\ new.price \in DOMAIN w
             /\ IF new.price \in PricesOf(s)
                THEN \E old \in s : /\ old.price = new.price /\ old.id = new.id
                                    /\ new.quantity = Or(w[new.price], old.quantity)
                ELSE new.quantity = Or(w[new.price], DefaultQuantity)
  <2>1. CASE new \in Stay(s, changes)
    <3>1. PICK item \in s : item.id \notin changes.deleted /\ new = Changed(item, changes)
      BY <2>1 DEF Stay
    <3>2. item.price \in DOMAIN w /\ item.price \in PricesOf(s)
      BY <1>6, <3>1 DEF PricesOf
    <3> QED BY <1>7, <3>1, <3>2
  <2>2. CASE new \in New(changes, ids)
    <3>1. PICK ch \in changes.created :
            new = [id |-> ids[ch], price |-> ch.price, quantity |-> Or(ch.quantity, DefaultQuantity)]
      BY <2>2 DEF New
    <3>2. PICK q \in DOMAIN w \ PricesOf(s) : ch = [price |-> q, quantity |-> w[q]]
      BY <1>5 DEF Creates
    <3> QED BY <3>1, <3>2
  <2> QED BY <1>8, <2>1, <2>2
<1>10. ASSUME NEW q \in DOMAIN w PROVE \E new \in after : new.price = q
  <2>1. CASE q \in PricesOf(s)
    <3>1. PICK item \in s : item.price = q
      BY <2>1 DEF PricesOf
    <3>2. Changed(item, changes) \in Stay(s, changes) /\ Changed(item, changes).price = q
      BY <1>6, <1>7, <3>1 DEF Stay
    <3> QED BY <1>8, <3>2
  <2>2. CASE q \notin PricesOf(s)
    <3>1. PICK ch : ch = [price |-> q, quantity |-> w[q]]
      OBVIOUS
    <3>2. ch \in changes.created
      BY <1>5, <2>2, <3>1 DEF Creates
    <3>3. PICK new : new = [id |-> ids[ch], price |-> ch.price,
                            quantity |-> Or(ch.quantity, DefaultQuantity)]
      OBVIOUS
    <3>4. new \in New(changes, ids) /\ new.price = q
      BY <3>1, <3>2, <3>3 DEF New
    <3> QED BY <1>8, <3>4
  <2> QED BY <2>1, <2>2
<1>11. PricesOf(after) = DOMAIN w
  <2>1. \A new \in after : new.price \in DOMAIN w
    BY <1>9
  <2>2. \A q \in DOMAIN w : \E new \in after : new.price = q
    BY <1>10
  <2> QED BY ONLY <2>1, <2>2 DEF PricesOf
<1> QED BY <1>1, <1>2, <1>4, <1>8, <1>9, <1>11 DEF Fulfils

\* What a caller sends.
LEMMA ItemChangesType ==
  ASSUME NEW s \in SUBSET Item, s # {}, NEW p \in Patches
  PROVE  /\ ItemChanges(s, p) \in Changes
         /\ IsFiniteSet(ItemChanges(s, p).created)
<1>1. CASE p \in FirstPatches
  <2>1. ~ReplacesSet(p) /\ p.price \in Prices \cup {Unset} /\ p.quantity \in Quantities \cup {Unset}
    BY <1>1 DEF ReplacesSet, FirstPatches
  <2>2. FirstItem(s).id \in Nat
    BY FirstItemIs DEF Item
  <2>3. [id |-> FirstItem(s).id, price |-> p.price, quantity |-> p.quantity] \in Updated
    BY <2>1, <2>2 DEF Updated, Quantity
  <2>4. IsFiniteSet({})
    BY FS_EmptySet
  <2>5. ItemChanges(s, p) = [deleted |-> {},
          updated |-> {[id |-> FirstItem(s).id, price |-> p.price, quantity |-> p.quantity]},
          created |-> {}]
    BY <2>1 DEF ItemChanges
  <2> QED BY <2>3, <2>4, <2>5 DEF Changes
<1>2. CASE p \in ItemPatches
  <2>1. PICK ps \in SUBSET Prices : p \in [wanted : [ps -> Quantities \cup {Unset}]]
    BY <1>2 DEF ItemPatches
  <2>2. PICK w \in [ps -> Quantities \cup {Unset}] : w = p.wanted /\ ReplacesSet(p)
    BY <2>1 DEF ReplacesSet
  <2>3. PICK old : old = PricesOf(s)
    OBVIOUS
  <2>4. Creates(s, w) = {[price |-> q, quantity |-> w[q]] : q \in ps \ old}
    BY <2>2, <2>3 DEF Creates
  <2>5. Creates(s, w) \in SUBSET Created
    BY <2>2, <2>4 DEF Created
  <2>6. Updates(s, w) \in SUBSET Updated
    BY <2>2 DEF Updates, KeptItems, Updated, Quantity, Item
  <2>7. {item.id : item \in s \ KeptItems(s, w)} \in SUBSET Nat
    BY DEF Item
  <2>8. IsFiniteSet(Creates(s, w))
    <3>1. IsFiniteSet(ps \ old)
      BY PlanAssumption, FS_Subset
    <3>2. PICK f : f = [q \in ps \ old |-> [price |-> q, quantity |-> w[q]]]
      OBVIOUS
    <3>3. f \in Surjection(ps \ old, Creates(s, w))
      BY <2>4, <3>2 DEF Surjection
    <3> QED BY <3>1, <3>3, FS_Surjection
  <2>9. ItemChanges(s, p) = ReplaceItems(s, w)
    BY <2>2 DEF ItemChanges
  <2> QED BY <2>5, <2>6, <2>7, <2>8, <2>9 DEF ReplaceItems, Changes
<1> QED BY <1>1, <1>2 DEF Patches

LEMMA UpdateKeepsItems ==
  ASSUME PlanInv, NEW c \in Changers, UpdateApplies(c)
  PROVE  /\ items' \subseteq Item /\ items' # {} /\ made_ids' \in Nat
         /\ \A x, y \in items' : x.id = y.id \/ x.price = y.price => x = y
         /\ \A x \in items' : x.id <= made_ids'
<1>1. PICK changes \in Changes : changes = ItemChanges(read[c], patch[c]) /\ IsFiniteSet(changes.created)
  <2>1. read[c] \in SUBSET Item /\ read[c] # {} /\ patch[c] \in Patches
    BY DEF PlanInv, UpdateApplies
  <2> QED BY <2>1, ItemChangesType
<1>2. PICK ids \in NewIds(changes) : items' = Stay(items, changes) \cup New(changes, ids)
  BY <1>1 DEF UpdateApplies
<1>3. /\ Accepts(changes, items') /\ made_ids' = made_ids + Cardinality(changes.created)
  BY <1>1 DEF UpdateApplies
<1>4. Cardinality(changes.created) \in Nat /\ made_ids \in Nat
  BY <1>1, FS_CardinalityType DEF PlanInv
<1>5. /\ \A ch \in changes.created : /\ ids[ch] \in Nat /\ made_ids < ids[ch] /\ ids[ch] <= made_ids'
      /\ \A x, y \in changes.created : ids[x] = ids[y] => x = y
  BY <1>2, <1>3, <1>4 DEF NewIds, Injection, IsInjective
<1>6. /\ changes.updated \subseteq Updated /\ changes.created \subseteq Created
  BY DEF Changes
<1>7. ASSUME NEW item \in items
      PROVE  Changed(item, changes) \in Item /\ Changed(item, changes).id = item.id
  <2>1. item \in Item
    BY DEF PlanInv
  <2>2. \A ch \in changes.updated :
          /\ Or(ch.price, item.price) \in Prices
          /\ Or(ch.quantity, item.quantity) \in Quantities \cup {DefaultQuantity}
    BY <1>6, <2>1 DEF Updated, Or, Given, Item, Quantity
  <2>3. CASE Changed(item, changes) = item
    BY <2>1, <2>3
  <2>4. CASE \E ch \in changes.updated :
               Changed(item, changes) = [id |-> item.id, price |-> Or(ch.price, item.price),
                                         quantity |-> Or(ch.quantity, item.quantity)]
    <3>1. PICK q, n : /\ q \in Prices /\ n \in Quantities \cup {DefaultQuantity}
                      /\ Changed(item, changes) = [id |-> item.id, price |-> q, quantity |-> n]
      BY <2>2, <2>4
    <3> QED BY <2>1, <3>1 DEF Item
  <2> QED BY <2>3, <2>4, ChangedItem
<1>8. ASSUME NEW x \in items'
      PROVE  /\ x \in Item /\ x.id <= made_ids'
             /\ \/ \E item \in items : x = Changed(item, changes) /\ x.id = item.id /\ x.id <= made_ids
                \/ \E ch \in changes.created :
                     x = [id |-> ids[ch], price |-> ch.price, quantity |-> Or(ch.quantity, DefaultQuantity)]
  <2>1. CASE x \in Stay(items, changes)
    <3>1. PICK item \in items : x = Changed(item, changes)
      BY <2>1 DEF Stay
    <3>2. x \in Item /\ x.id = item.id /\ item.id <= made_ids /\ item.id \in Nat
      BY <1>7, <3>1 DEF PlanInv, Item
    <3>3. x.id <= made_ids'
      BY <1>3, <1>4, <3>2
    <3> QED BY <3>1, <3>2, <3>3
  <2>2. CASE x \in New(changes, ids)
    <3>1. PICK ch \in changes.created :
            x = [id |-> ids[ch], price |-> ch.price, quantity |-> Or(ch.quantity, DefaultQuantity)]
      BY <2>2 DEF New
    <3>2. ch.price \in Prices /\ Or(ch.quantity, DefaultQuantity) \in Quantities \cup {DefaultQuantity}
      BY <1>6 DEF Created, Or, Given
    <3> QED BY <1>5, <3>1, <3>2 DEF Item
  <2> QED BY <1>2, <2>1, <2>2
<1>9. ASSUME NEW x \in items', NEW y \in items', x.id = y.id PROVE x = y
  <2>1. CASE x.id <= made_ids
    <3>1. \A z \in items' : z.id = x.id => \E item \in items : z = Changed(item, changes) /\ z.id = item.id
      BY <1>4, <1>5, <1>8, <2>1
    <3> QED BY <1>9, <3>1 DEF PlanInv
  <2>2. CASE ~(x.id <= made_ids)
    <3>1. \A z \in items' : z.id = x.id => \E ch \in changes.created :
            z = [id |-> ids[ch], price |-> ch.price, quantity |-> Or(ch.quantity, DefaultQuantity)]
      BY <1>8, <2>2
    <3> QED BY <1>5, <1>9, <3>1
  <2> QED BY <2>1, <2>2
<1>10. /\ items' # {} /\ \A x, y \in items' : x.price = y.price => x = y
  BY <1>3 DEF Accepts
<1>11. made_ids' \in Nat
  BY <1>3, <1>4
<1> QED BY <1>8, <1>9, <1>10, <1>11

LEMMA PlanStep ==
  ASSUME PlanInv, [PlanNext]_planVars
  PROVE  PlanInv'
<1>1. ASSUME NEW c \in Changers, RetrieveItems(c) PROVE PlanInv'
  BY <1>1 DEF RetrieveItems, Ends, PlanInv
<1>2. ASSUME NEW c \in Changers, UpdateApplies(c) PROVE PlanInv'
  <2>1. /\ UNCHANGED <<patch, read, tries>> /\ DOMAIN sent' = DOMAIN sent
        /\ Ends(c, "done") \/ Ends(c, "idle")
    BY <1>2 DEF UpdateApplies
  <2>2. \A d \in Changers : pstep'[d] = "update" => pstep[d] = "update"
    BY <2>1 DEF Ends, PlanInv
  <2> QED BY <1>2, <2>1, <2>2, UpdateKeepsItems DEF PlanInv, Ends
<1>3. ASSUME NEW c \in Changers, UpdateRepeats(c) \/ UpdateFails(c) PROVE PlanInv'
  <2>1. /\ UNCHANGED <<items, made_ids, patch, read, sent, tries>>
        /\ \E step \in {"done", "conflict", "idle"} : Ends(c, step)
    BY <1>3 DEF UpdateRepeats, UpdateFails
  <2>2. \A d \in Changers : pstep'[d] = "update" => pstep[d] = "update"
    BY <2>1 DEF Ends, PlanInv
  <2> QED BY <2>1, <2>2 DEF PlanInv, Ends
<1>4. CASE UNCHANGED planVars
  BY <1>4 DEF planVars, PlanInv
<1> QED BY <1>1, <1>2, <1>3, <1>4 DEF PlanNext

\* An update the provider carries out on the items that its caller read makes
\* what was asked for, and only the first of a key's attempts is carried out:
\* for any prices, quantities, callers and tries.
THEOREM ChangeMakesWantedHolds == PlanSpec => ChangeMakesWanted
<1> DEFINE Wanted(c) ==
      sent'[c] # sent[c] =>
        sent[c] = Unset /\ (items = read[c] => Fulfils(items, patch[c], items'))
<1>1. PlanInit => PlanInv
  <2> SUFFICES ASSUME PlanInit PROVE PlanInv
    OBVIOUS
  <2>1. PICK q \in Prices : items = {[id |-> 1, price |-> q, quantity |-> DefaultQuantity]}
    BY DEF PlanInit
  <2>2. [id |-> 1, price |-> q, quantity |-> DefaultQuantity] \in Item
    BY DEF Item
  <2> QED BY <2>1, <2>2 DEF PlanInit, PlanInv, Patches
<1>2. PlanInv /\ [PlanNext]_planVars => PlanInv'
  BY PlanStep
<1>3. PlanInv /\ [PlanNext]_planVars =>
        [\A c \in Changers :
           sent'[c] # sent[c] =>
             /\ sent[c] = Unset
             /\ items = read[c] => Fulfils(items, patch[c], items')]_planVars
  <2> SUFFICES ASSUME PlanInv, PlanNext, NEW c \in Changers PROVE Wanted(c)
    OBVIOUS
  <2>1. ASSUME NEW d \in Changers, RetrieveItems(d) \/ UpdateRepeats(d) \/ UpdateFails(d) PROVE Wanted(c)
    BY <2>1 DEF RetrieveItems, UpdateRepeats, UpdateFails
  <2>2. ASSUME NEW d \in Changers, UpdateApplies(d), d # c PROVE Wanted(c)
    BY <2>2 DEF UpdateApplies, PlanInv
  <2>3. ASSUME UpdateApplies(c) PROVE Wanted(c)
    <3>1. sent[c] = Unset
      BY <2>3 DEF UpdateApplies, Given
    <3>2. ASSUME items = read[c] PROVE Fulfils(items, patch[c], items')
      <4>1. PICK p \in Patches : p = patch[c]
        BY DEF PlanInv
      <4>2. \E ids : items' = Stay(items, ItemChanges(items, p)) \cup New(ItemChanges(items, p), ids)
        BY <2>3, <3>2, <4>1 DEF UpdateApplies
      <4>3. /\ items \in SUBSET Item /\ items # {}
            /\ \A x, y \in items : x.id = y.id \/ x.price = y.price => x = y
        BY DEF PlanInv
      <4>4. Fulfils(items, p, items')
        <5>1. PICK ids, after :
                after = items' /\ after = Stay(items, ItemChanges(items, p)) \cup New(ItemChanges(items, p), ids)
          BY <4>2
        <5>2. Fulfils(items, p, after)
          BY <4>3, <5>1, FirstChanges, SetChanges DEF Patches
        <5> QED BY <5>1, <5>2
      <4> QED BY <4>1, <4>4
    <3> QED BY <3>1, <3>2
  <2> QED BY <2>1, <2>2, <2>3 DEF PlanNext
<1> QED BY <1>1, <1>2, <1>3, PTL DEF PlanSpec, ChangeMakesWanted
-----------------------------------------------------------------------------
(***************************************************************************)
(* Access checks, for any number of them.  AccessCatchesUp is liveness; it  *)
(* rests on two facts about every step: where no trace of a revoked role,   *)
(* or of a permission taken away, is left, none comes back, although the    *)
(* checks, the shared load and the administrator copy what they read from   *)
(* one place to another.                                                    *)
(***************************************************************************)

NoneAllowed == \A c \in Checks : cpc[c] # "allowed"

\* Neither the table, nor the cache, nor a check under way says it has the role.
RoleGone ==
  /\ ~granted
  /\ roleCache # "yes"
  /\ \A c \in Checks : cpc[c] \in {"store", "decide"} => ~has[c]

\* Neither the row, nor the index, nor an answer on its way has the permission.
PermissionGone ==
  /\ ~permitted
  /\ ~index
  /\ loading # "yes"
  /\ admin # "yes"

LEMMA AccessTypeStep ==
  ASSUME AccessTypeOK, [AccessNext]_accessVars
  PROVE  AccessTypeOK'
<1> USE DEF AccessTypeOK, CheckSteps, Goes, Woken, Read, dataVars, indexVars
<1>1. ASSUME NEW c \in Checks, StartCheck(c) \/ EnsurePermissions(c) PROVE AccessTypeOK'
  BY <1>1 DEF StartCheck, EnsurePermissions
<1>2. ASSUME NEW c \in Checks, LookUpRoles(c) \/ QueryRoles(c) PROVE AccessTypeOK'
  <2>1. cpc' \in [Checks -> CheckSteps] /\ UNCHANGED <<granted, permitted, roleCache, index, indexAge, loading, admin>>
    BY <1>2 DEF LookUpRoles, QueryRoles
  <2>2. (roleCache = "yes") \in BOOLEAN
    OBVIOUS
  <2>3. has' = has \/ \E b \in BOOLEAN : has' = [has EXCEPT ![c] = b]
    BY <1>2, <2>2, Zenon DEF LookUpRoles, QueryRoles
  <2>4. has' \in [Checks -> BOOLEAN]
    BY <2>3
  <2> QED
    BY <2>1, <2>4
<1>3. ASSUME NEW c \in Checks, StoreRoles(c) \/ Decide(c) PROVE AccessTypeOK'
  BY <1>3 DEF StoreRoles, Decide
<1>4. ASSUME NEW c \in Checks, EndCheck(c) \/ Reject(c) PROVE AccessTypeOK'
  BY <1>4 DEF EndCheck, Reject
<1>5. CASE LoadReads \/ LoadArrives \/ LoadFails
  BY <1>5 DEF LoadReads, LoadArrives, LoadFails
<1>6. CASE ChangeGrant \/ EditRole \/ AdminStep
  BY <1>6 DEF ChangeGrant, EditRole, AdminStep, DropCached, RefreshReads, RefreshArrives
<1>7. CASE IndexAges \/ RolesExpire \/ UNCHANGED accessVars
  BY <1>7 DEF IndexAges, RolesExpire, accessVars
<1> QED
  BY <1>1, <1>2, <1>3, <1>4, <1>5, <1>6, <1>7 DEF AccessNext, CheckStep, LoadStep

\* The stores, the caches and the checks keep their types.
THEOREM AccessTypeCorrect == AccessSpec => []AccessTypeOK
<1>1. AccessInit => AccessTypeOK
  BY DEF AccessInit, AccessTypeOK, CheckSteps
<1> QED
  BY <1>1, AccessTypeStep, PTL DEF AccessSpec

LEMMA RoleStaysGone ==
  ASSUME AccessTypeOK, [AccessNext]_accessVars, RoleGone, ~granted', NoneAllowed
  PROVE  RoleGone' /\ NoneAllowed'
<1> USE DEF AccessTypeOK, CheckSteps, RoleGone, NoneAllowed, Goes, Woken, Read, dataVars, indexVars
<1>1. ASSUME NEW c \in Checks, StartCheck(c) \/ EnsurePermissions(c) PROVE RoleGone' /\ NoneAllowed'
  BY <1>1 DEF StartCheck, EnsurePermissions
<1>2. ASSUME NEW c \in Checks, LookUpRoles(c) \/ QueryRoles(c) PROVE RoleGone' /\ NoneAllowed'
  BY <1>2 DEF LookUpRoles, QueryRoles
<1>3. ASSUME NEW c \in Checks, StoreRoles(c) \/ Decide(c) PROVE RoleGone' /\ NoneAllowed'
  BY <1>3 DEF StoreRoles, Decide
<1>4. ASSUME NEW c \in Checks, EndCheck(c) \/ Reject(c) PROVE RoleGone' /\ NoneAllowed'
  BY <1>4 DEF EndCheck, Reject
<1>5. CASE LoadReads \/ LoadArrives \/ LoadFails
  BY <1>5 DEF LoadReads, LoadArrives, LoadFails
<1>6. CASE ChangeGrant \/ EditRole \/ AdminStep
  BY <1>6 DEF ChangeGrant, EditRole, AdminStep, DropCached, RefreshReads, RefreshArrives
<1>7. CASE IndexAges \/ RolesExpire \/ UNCHANGED accessVars
  BY <1>7 DEF IndexAges, RolesExpire, accessVars
<1> QED
  BY <1>1, <1>2, <1>3, <1>4, <1>5, <1>6, <1>7 DEF AccessNext, CheckStep, LoadStep

LEMMA PermissionStaysGone ==
  ASSUME AccessTypeOK, [AccessNext]_accessVars, PermissionGone, ~permitted', NoneAllowed
  PROVE  PermissionGone' /\ NoneAllowed'
<1> USE DEF AccessTypeOK, PermissionGone, NoneAllowed, Goes, Woken, Read, dataVars, indexVars
<1>1. ASSUME NEW c \in Checks, StartCheck(c) \/ CheckStep(c) \/ Reject(c) PROVE PermissionGone' /\ NoneAllowed'
  BY <1>1 DEF StartCheck, CheckStep, EnsurePermissions, LookUpRoles, QueryRoles, StoreRoles, Decide, EndCheck, Reject
<1>2. CASE LoadReads \/ LoadArrives \/ LoadFails
  BY <1>2 DEF LoadReads, LoadArrives, LoadFails
<1>3. CASE ChangeGrant \/ EditRole \/ AdminStep
  BY <1>3 DEF ChangeGrant, EditRole, AdminStep, DropCached, RefreshReads, RefreshArrives
<1>4. CASE IndexAges \/ RolesExpire \/ UNCHANGED accessVars
  BY <1>4 DEF IndexAges, RolesExpire, accessVars
<1> QED
  BY <1>1, <1>2, <1>3, <1>4 DEF AccessNext, LoadStep

\* The safety half of AccessCatchesUp: from a moment at which a revoked role,
\* or a permission taken from it, is gone from every place that held a copy, no
\* check allows for as long as nobody gives it back.
THEOREM RevokedStaysRevoked ==
  AccessSpec => /\ []([]~granted /\ RoleGone /\ NoneAllowed => []NoneAllowed)
                /\ []([]~permitted /\ PermissionGone /\ NoneAllowed => []NoneAllowed)
<1>1. AccessTypeOK /\ [AccessNext]_accessVars /\ RoleGone /\ ~granted' /\ NoneAllowed
        => RoleGone' /\ NoneAllowed'
  BY RoleStaysGone
<1>2. AccessTypeOK /\ [AccessNext]_accessVars /\ PermissionGone /\ ~permitted' /\ NoneAllowed
        => PermissionGone' /\ NoneAllowed'
  BY PermissionStaysGone
<1> QED
  BY <1>1, <1>2, AccessTypeCorrect, PTL DEF AccessSpec
=============================================================================
