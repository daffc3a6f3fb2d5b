------------------------------ MODULE MCRequests ------------------------------
(***************************************************************************)
(* What requests meet one at a time, in one run: an inbound delivery under  *)
(* runOnce, a walk over a repository, an access check, a call that bills,   *)
(* a change of plan.  As in MCServices, focus names the component that a    *)
(* behaviour runs, and the others stay where they start.                    *)
(***************************************************************************)
EXTENDS InboundWebhooks, RepositoryPages, AccessChecks, BillingCalls, PlanChange

VARIABLE focus

requestsVars == <<focus, inboundVars, repoVars, accessVars, callsVars, planVars>>

\* What a component may start with is one thing where it does not run.
RequestsInit ==
  /\ focus \in {"inbound", "repository", "access", "calls", "plan"}
  /\ InboundInit /\ (focus = "inbound" \/ deduplicates)
  /\ RepoInit
  /\ focus = "repository" \/ (rows = [i \in RowIds |-> Absent] /\ walk.direction = "asc")
  /\ focus = "repository" \/ walk.tenant = CHOOSE t \in RepoTenants : TRUE
  /\ AccessInit /\ (focus = "access" \/ (granted /\ permitted))
  /\ CallsInit
  /\ PlanInit
  /\ focus = "plan" \/ (\A c \in Changers : patch[c] = CHOOSE p \in FirstPatches : TRUE)
  /\ focus = "plan" \/ PricesOf(items) = {CHOOSE p \in Prices : TRUE}

RequestsNext ==
  /\ UNCHANGED focus
  /\ \/ focus = "inbound" /\ InboundNext
     \/ focus = "repository" /\ RepoNext
     \/ focus = "access" /\ AccessNext
     \/ focus = "calls" /\ CallsNext
     \/ focus = "plan" /\ PlanNext
  /\ focus # "inbound" => UNCHANGED inboundVars
  /\ focus # "repository" => UNCHANGED repoVars
  /\ focus # "access" => UNCHANGED accessVars
  /\ focus # "calls" => UNCHANGED callsVars
  /\ focus # "plan" => UNCHANGED planVars

RequestsSpec ==
  /\ RequestsInit
  /\ [][RequestsNext]_requestsVars
  \* promises settle, and the store drops expired claims
  /\ \A w \in Workers : WF_inboundVars(focus = "inbound" /\ InboundStep(w))
  /\ \A e \in Keys : WF_inboundVars(focus = "inbound" /\ ClaimExpires(e))
  \* promises settle, and what is cached expires
  /\ \A c \in Checks : WF_accessVars(focus = "access" /\ CheckStep(c))
  /\ WF_accessVars(focus = "access" /\ LoadStep) /\ WF_accessVars(focus = "access" /\ AdminStep)
  /\ WF_accessVars(focus = "access" /\ IndexAges) /\ WF_accessVars(focus = "access" /\ RolesExpire)
=============================================================================
