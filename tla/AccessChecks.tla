----------------------------- MODULE AccessChecks -----------------------------
(***************************************************************************)
(* RBACAdapter of @mariachi/auth over CachedRoleStore: concurrent calls of *)
(* can() in one process for a user, an action and a resource that one role *)
(* allows, while an administrator grants and revokes the role, or edits    *)
(* the role's permissions and calls refreshPermissions.  The role tables   *)
(* (DrizzleRoleStore) and the cache of assignments are shared with other   *)
(* processes; the index of permissions is the process's own.  Token roles, *)
(* inheritance and the superuser scope are left out.                       *)
(***************************************************************************)
EXTENDS Naturals

CONSTANT Checks   \* concurrent calls of can()

VARIABLES
  granted,     \* whether user_roles has the assignment
  permitted,   \* whether the role's row has the permission
  roleCache,   \* rbac:user:tenant: "none", or whether the role is among the cached ones
  index,       \* whether permissionsByRole has the permission
  indexAge,    \* loadedAt: "never", "fresh" or "stale", past permissionTtlMs
  loading,     \* the shared load: "none", "asked", or what it read
  admin,       \* the administrator's next step, or what a refresh of theirs read
  cpc,         \* the step each check runs next
  has          \* whether the roles it got have the role

accessVars == <<granted, permitted, roleCache, index, indexAge, loading, admin, cpc, has>>

CheckSteps == {"idle", "ensure", "wait", "roles", "query", "store", "decide", "allowed", "denied"}
Read(b) == IF b THEN "yes" ELSE "no"

AccessInit ==
  /\ granted \in BOOLEAN /\ permitted \in BOOLEAN
  /\ roleCache = "none"
  /\ index = FALSE /\ indexAge = "never"
  /\ loading = "none" /\ admin = "idle"
  /\ cpc = [c \in Checks |-> "idle"]
  /\ has = [c \in Checks |-> FALSE]

Goes(c, step) == cpc' = [cpc EXCEPT ![c] = step]

dataVars == <<granted, permitted>>
indexVars == <<index, indexAge>>

-----------------------------------------------------------------------------
(* can() *)

StartCheck(c) ==
  /\ cpc[c] = "idle"
  /\ Goes(c, "ensure")
  /\ UNCHANGED <<dataVars, roleCache, indexVars, loading, admin, has>>

\* ensurePermissions: a young index will do; otherwise one load serves all.
EnsurePermissions(c) ==
  /\ cpc[c] = "ensure"
  /\ IF indexAge = "fresh"
       THEN Goes(c, "roles") /\ UNCHANGED loading
       ELSE Goes(c, "wait") /\ loading' = IF loading = "none" THEN "asked" ELSE loading
  /\ UNCHANGED <<dataVars, roleCache, indexVars, admin, has>>

LoadReads ==
  /\ loading = "asked"
  /\ loading' = Read(permitted)
  /\ UNCHANGED <<dataVars, roleCache, indexVars, admin, cpc, has>>

Woken(step) == cpc' = [c \in Checks |-> IF cpc[c] = "wait" THEN step ELSE cpc[c]]

\* The answer replaces the index, however old what it says has become.
LoadArrives ==
  /\ loading \in {"yes", "no"}
  /\ index' = (loading = "yes")
  /\ indexAge' = "fresh"
  /\ loading' = "none"
  /\ Woken("roles")
  /\ UNCHANGED <<dataVars, roleCache, admin, has>>

\* Every check that waits for it rejects.
LoadFails ==
  /\ loading # "none"
  /\ loading' = "none"
  /\ Woken("idle")
  /\ UNCHANGED <<dataVars, roleCache, indexVars, admin, has>>

\* CachedRoleStore.getRoles.
LookUpRoles(c) ==
  /\ cpc[c] = "roles"
  /\ IF roleCache = "none"
       THEN Goes(c, "query") /\ UNCHANGED has
       ELSE Goes(c, "decide") /\ has' = [has EXCEPT ![c] = (roleCache = "yes")]
  /\ UNCHANGED <<dataVars, roleCache, indexVars, loading, admin>>

QueryRoles(c) ==
  /\ cpc[c] = "query"
  /\ has' = [has EXCEPT ![c] = granted]
  /\ Goes(c, "store")
  /\ UNCHANGED <<dataVars, roleCache, indexVars, loading, admin>>

StoreRoles(c) ==
  /\ cpc[c] = "store"
  /\ roleCache' = Read(has[c])
  /\ Goes(c, "decide")
  /\ UNCHANGED <<dataVars, indexVars, loading, admin, has>>

Decide(c) ==
  /\ cpc[c] = "decide"
  /\ Goes(c, IF has[c] /\ index THEN "allowed" ELSE "denied")
  /\ UNCHANGED <<dataVars, roleCache, indexVars, loading, admin, has>>

\* can() has returned, or one of its awaits rejected.
EndCheck(c) ==
  /\ cpc[c] \in {"allowed", "denied"}
  /\ Goes(c, "idle")
  /\ has' = [has EXCEPT ![c] = FALSE]
  /\ UNCHANGED <<dataVars, roleCache, indexVars, loading, admin>>

Reject(c) ==
  /\ cpc[c] \in {"roles", "query", "store"}
  /\ Goes(c, "idle")
  /\ has' = [has EXCEPT ![c] = FALSE]
  /\ UNCHANGED <<dataVars, roleCache, indexVars, loading, admin>>

-----------------------------------------------------------------------------
(* The administrator. *)

\* grant or revoke: the store first, the cache after it.
ChangeGrant ==
  /\ admin = "idle"
  /\ granted' = ~granted
  /\ admin' = "drop"
  /\ UNCHANGED <<permitted, roleCache, indexVars, loading, cpc, has>>

\* The DEL, or its failure, or the end of the process.
DropCached ==
  /\ admin = "drop"
  /\ roleCache' \in {"none", roleCache}
  /\ admin' = "idle"
  /\ UNCHANGED <<dataVars, indexVars, loading, cpc, has>>

\* defineRole, whose caller is told to refresh afterwards.
EditRole ==
  /\ admin = "idle"
  /\ permitted' = ~permitted
  /\ admin' = "asked"
  /\ UNCHANGED <<granted, roleCache, indexVars, loading, cpc, has>>

\* refreshPermissions, which shares no load.
RefreshReads ==
  /\ admin = "asked"
  /\ admin' \in {Read(permitted), "idle"}
  /\ UNCHANGED <<dataVars, roleCache, indexVars, loading, cpc, has>>

RefreshArrives ==
  /\ admin \in {"yes", "no"}
  /\ index' = (admin = "yes")
  /\ indexAge' = "fresh"
  /\ admin' = "idle"
  /\ UNCHANGED <<dataVars, roleCache, loading, cpc, has>>

-----------------------------------------------------------------------------
\* permissionTtlMs, and a mutant: an index that was ever loaded is good for ever.
NeverAges == FALSE /\ UNCHANGED accessVars

IndexAges ==
  /\ indexAge = "fresh"
  /\ indexAge' = "stale"
  /\ UNCHANGED <<dataVars, roleCache, index, loading, admin, cpc, has>>

\* ttlSeconds of the cached assignments.
RolesExpire ==
  /\ roleCache # "none"
  /\ roleCache' = "none"
  /\ UNCHANGED <<dataVars, indexVars, loading, admin, cpc, has>>

CheckStep(c) ==
  EnsurePermissions(c) \/ LookUpRoles(c) \/ QueryRoles(c) \/ StoreRoles(c) \/ Decide(c) \/ EndCheck(c)

LoadStep == LoadReads \/ LoadArrives
AdminStep == DropCached \/ RefreshReads \/ RefreshArrives

AccessNext ==
  \/ \E c \in Checks : StartCheck(c) \/ CheckStep(c) \/ Reject(c)
  \/ LoadStep \/ LoadFails
  \/ ChangeGrant \/ EditRole \/ AdminStep
  \/ IndexAges \/ RolesExpire

\* Promises settle and time passes; nobody has to check or to administer.
AccessSpec ==
  /\ AccessInit
  /\ [][AccessNext]_accessVars
  /\ \A c \in Checks : WF_accessVars(CheckStep(c))
  /\ WF_accessVars(LoadStep) /\ WF_accessVars(AdminStep)
  /\ WF_accessVars(IndexAges) /\ WF_accessVars(RolesExpire)

-----------------------------------------------------------------------------
\* Types of the stores, the caches and the checks.
AccessTypeOK ==
  /\ granted \in BOOLEAN /\ permitted \in BOOLEAN /\ index \in BOOLEAN
  /\ roleCache \in {"none", "yes", "no"}
  /\ indexAge \in {"never", "fresh", "stale"}
  /\ loading \in {"none", "asked", "yes", "no"}
  /\ admin \in {"idle", "drop", "asked", "yes", "no"}
  /\ cpc \in [Checks -> CheckSteps] /\ has \in [Checks -> BOOLEAN]

\* A revoked role, or a permission taken from it, stops allowing: once either is
\* gone for good, from some time on no check allows, although a check may cache
\* assignments it read before the revocation's DEL, the DEL may fail, and a load
\* that started before an edit may overwrite the refresh that followed it.
AccessCatchesUp ==
  <>[]~granted \/ <>[]~permitted => <>[](\A c \in Checks : cpc[c] # "allowed")
=============================================================================
