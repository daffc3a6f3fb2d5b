--------------------------- MODULE RepositoryPages ---------------------------
(***************************************************************************)
(* DrizzleRepository of @mariachi/database-postgres on one tenant-scoped,  *)
(* soft-deletable table: its writes, and a client that walks the table     *)
(* with paginateCursor, one query per page, while others write.  A row     *)
(* sorts by the value of one column (stamp, never null) and then by id.    *)
(* The tenant of a write or a walk is its ctx.tenantId; the crossTenant    *)
(* view, filters, and reads by id are left out.                            *)
(***************************************************************************)
EXTENDS Naturals, FiniteSets

CONSTANTS
  RowIds,       \* a set of naturals: ids are compared
  Stamps,       \* the values of the sort column, naturals
  RepoTenants,
  PageLimit,    \* the limit of a page
  Absent,       \* the row of an id that has none
  MaxWrites     \* bound: writes in a behaviour

ASSUME RepoAssumption ==
  /\ RowIds \subseteq Nat /\ IsFiniteSet(RowIds) /\ Stamps \subseteq Nat
  /\ PageLimit \in Nat \ {0} /\ MaxWrites \in Nat

VARIABLES
  rows,      \* [RowIds -> a row or Absent]
  writes,    \* how many writes there were
  walk,      \* the client's position: its tenant, direction, cursor and whether it ended
  seen,      \* the ids it has got
  twice,     \* those it has got more than once
  steady     \* the ids it should get: visible at its start and untouched since

repoVars == <<rows, writes, walk, seen, twice, steady>>

Row == [tenant : RepoTenants, stamp : Stamps, deleted : BOOLEAN]
Start == [stamp |-> 0, id |-> 0]

\* buildWhere: the tenant's rows that are not soft-deleted.
VisibleTo(t) == {i \in RowIds : rows[i] # Absent /\ rows[i].tenant = t /\ ~rows[i].deleted}

RepoInit ==
  /\ rows \in [RowIds -> {Absent} \cup [tenant : RepoTenants, stamp : Stamps, deleted : {FALSE}]]
  /\ writes = 0
  /\ \E t \in RepoTenants, direction \in {"asc", "desc"} :
       walk = [tenant |-> t, direction |-> direction, first |-> TRUE, cursor |-> Start, ended |-> FALSE]
  /\ seen = {} /\ twice = {}
  /\ steady = VisibleTo(walk.tenant)

-----------------------------------------------------------------------------
(* Writes.  idWhere restricts each to the tenant's rows. *)

Write(i, row) ==
  /\ writes < MaxWrites
  /\ rows' = [rows EXCEPT ![i] = row]
  /\ writes' = writes + 1
  /\ steady' = steady \ {i}
  /\ UNCHANGED <<walk, seen, twice>>

\* create: prepareInsert puts the context's tenant into the row.
CreateRow(t, i) ==
  /\ rows[i] = Absent
  /\ \E s \in Stamps : Write(i, [tenant |-> t, stamp |-> s, deleted |-> FALSE])

\* update: preparePatch drops id and tenant from the patch.
UpdateRow(t, i) ==
  /\ i \in VisibleTo(t)
  /\ \E s \in Stamps : Write(i, [rows[i] EXCEPT !.stamp = s])

SoftDelete(t, i) ==
  /\ i \in VisibleTo(t)
  /\ Write(i, [rows[i] EXCEPT !.deleted = TRUE])

\* restore and hardDelete see the tenant's soft-deleted rows too.
Restore(t, i) ==
  /\ rows[i] # Absent /\ rows[i].tenant = t
  /\ Write(i, [rows[i] EXCEPT !.deleted = FALSE])

HardDelete(t, i) ==
  /\ rows[i] # Absent /\ rows[i].tenant = t
  /\ Write(i, Absent)

-----------------------------------------------------------------------------
(* paginateCursor *)

\* (stamp, id) < (stamp, id), the comparison of the rows and of the ORDER BY.
Less(a, b) == a.stamp < b.stamp \/ (a.stamp = b.stamp /\ a.id < b.id)

Comes(a, b) == IF walk.direction = "asc" THEN Less(a, b) ELSE Less(b, a)

Place(i) == [stamp |-> rows[i].stamp, id |-> i]

\* Mutant: the cursor compares the sort column alone.
AfterStamp(i) ==
  \/ walk.first
  \/ IF walk.direction = "asc" THEN rows[i].stamp > walk.cursor.stamp ELSE rows[i].stamp < walk.cursor.stamp

\* The condition the cursor adds; the first query has none.
AfterCursor(i) == walk.first \/ Comes(walk.cursor, Place(i))

\* limit + 1 rows are read: one more than the page says that there is a next one.
GetPage ==
  LET rest == {i \in VisibleTo(walk.tenant) : AfterCursor(i)}
      page == {i \in rest : Cardinality({j \in rest : Comes(Place(j), Place(i))}) < PageLimit}
      last == CHOOSE i \in page : \A j \in page \ {i} : Comes(Place(j), Place(i))
  IN  /\ ~walk.ended
      /\ seen' = seen \cup page
      /\ twice' = twice \cup (seen \cap page)
      /\ walk' = IF rest = page
                   THEN [walk EXCEPT !.ended = TRUE]
                   ELSE [walk EXCEPT !.first = FALSE, !.cursor = Place(last)]
      /\ UNCHANGED <<rows, writes, steady>>

RepoNext ==
  \/ GetPage
  \/ \E t \in RepoTenants, i \in RowIds :
       CreateRow(t, i) \/ UpdateRow(t, i) \/ SoftDelete(t, i) \/ Restore(t, i) \/ HardDelete(t, i)

RepoSpec == RepoInit /\ [][RepoNext]_repoVars

-----------------------------------------------------------------------------
\* Types of the table and of the walk.
RepoTypeOK ==
  /\ rows \in [RowIds -> Row \cup {Absent}]
  /\ writes \in 0..MaxWrites
  /\ walk.tenant \in RepoTenants /\ walk.direction \in {"asc", "desc"}
  /\ seen \subseteq RowIds /\ twice \subseteq seen /\ steady \subseteq RowIds

\* "Keyset pagination: stable under concurrent inserts": whatever is created,
\* moved, deleted or restored between two pages, a walk that has ended got every
\* row that was its tenant's and visible all along, and none of them twice.
PagesMissNothing ==
  /\ walk.ended => steady \subseteq seen
  /\ steady \cap twice = {}
=============================================================================
