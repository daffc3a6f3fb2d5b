------------------------- MODULE CustomerReplacement -------------------------
(***************************************************************************)
(* CreditLedger composed with ensureCustomer, which may replace the        *)
(* tenant's customer while callers use its ledger, with the billing        *)
(* provider (external) that owns the customers, and with the               *)
(* customer.deleted webhook.  The ensurers are concurrent ensureCustomer   *)
(* calls; one action is one provider call or one SQL statement.            *)
(***************************************************************************)
EXTENDS CreditLedger, Sequences, FiniteSets

CONSTANTS
  Ensurers,            \* concurrent callers of ensureCustomer
  WebhooksConfigured,  \* whether the app runs the billing webhook handler
  MaxEnsures           \* bound on the ensureCustomer calls of a behaviour

ASSUME EnsurersAssumption ==
  /\ Ensurers \cap (Clients \cup {Free}) = {}
  /\ IsFiniteSet(Ensurers)
  /\ WebhooksConfigured \in BOOLEAN
  /\ MaxEnsures \in Nat

VARIABLES
  provider,      \* customers that exist at the provider
  issued,        \* customer ids the provider ever gave out
  created,       \* provider's memory of createCustomer by idempotency key
  deletions,     \* customer.deleted events not delivered yet
  epc,           \* the step each ensurer runs next
  old,           \* the stored customer it found, NoCustomer if none
  fresh,         \* the customer createCustomer gave it
  held,          \* currencies whose locks its replacement takes, in that order
  taken,         \* how many of them it has
  moved,         \* rows its uncommitted UPDATE gives to the new customer
  ensures        \* ensureCustomer calls started so far

providerVars == <<provider, issued, created, deletions>>
ensurerVars == <<epc, old, fresh, held, taken, moved, ensures>>
replacementVars == <<vars, providerVars, ensurerVars>>

EnsurerSteps == {"idle", "find", "verify", "create", "record", "select",
                 "locks", "move", "commit"}

\* Ensurers whose transaction has written the customers table: anyone else who
\* writes the same rows, or the tenant's entry of the unique index, waits.
Writers == {e \in Ensurers : epc[e] \in {"move", "commit"}}

ReplacementInit ==
  /\ Init
  /\ issued = {k \in Customers : Live(k)}
  /\ provider \in {issued, {}}   \* {}: the id was made by another adapter
  /\ \E k \in provider \cup {NoCustomer} :   \* recently created, or long ago
       created = [key \in Customers \cup {NoCustomer} |->
                    IF key = NoCustomer THEN k ELSE NoCustomer]
  /\ deletions = {}
  /\ epc = [e \in Ensurers |-> "idle"]
  /\ old = [e \in Ensurers |-> NoCustomer]
  /\ fresh = [e \in Ensurers |-> NoCustomer]
  /\ held = [e \in Ensurers |-> <<>>]
  /\ taken = [e \in Ensurers |-> 0]
  /\ moved = [e \in Ensurers |-> {}]
  /\ ensures = 0

Goto(e, step) == epc' = [epc EXCEPT ![e] = step]

\* ensureCustomer returns or throws: its locals are gone.
Return(e) ==
  /\ Goto(e, "idle")
  /\ old' = [old EXCEPT ![e] = NoCustomer]
  /\ fresh' = [fresh EXCEPT ![e] = NoCustomer]

EnsureCustomer(e) ==
  /\ epc[e] = "idle"
  /\ ensures < MaxEnsures
  /\ ensures' = ensures + 1
  /\ Goto(e, "find")
  /\ UNCHANGED <<vars, providerVars, old, fresh, held, taken, moved>>

\* findCustomerByTenant; without options.verify the stored customer is enough.
FindCustomer(e) ==
  /\ epc[e] = "find"
  /\ \/ \E k \in Customers :
          /\ Live(k)
          /\ old' = [old EXCEPT ![e] = k]
          /\ Goto(e, "verify")
          /\ UNCHANGED fresh
     \/ (\E k \in Customers : Live(k)) /\ Return(e)
     \/ /\ \A k \in Customers : ~Live(k)
        /\ Goto(e, "create")
        /\ UNCHANGED <<old, fresh>>
  /\ UNCHANGED <<vars, providerVars, held, taken, moved, ensures>>

\* adapter.getCustomer
Verify(e) ==
  /\ epc[e] = "verify"
  /\ \/ old[e] \in provider /\ Return(e)
     \/ old[e] \notin provider /\ Goto(e, "create") /\ UNCHANGED <<old, fresh>>
  /\ UNCHANGED <<vars, providerVars, held, taken, moved, ensures>>

\* Either call to the provider may fail; nothing is stored yet.
ProviderFails(e) ==
  /\ epc[e] \in {"verify", "create"}
  /\ Return(e)
  /\ UNCHANGED <<vars, providerVars, held, taken, moved, ensures>>

\* adapter.createCustomer with the deterministic key of (tenant, old customer):
\* the provider answers a key it remembers with the customer it made then.
CreateCustomer(e) ==
  /\ epc[e] = "create"
  /\ \/ /\ created[old[e]] # NoCustomer
        /\ fresh' = [fresh EXCEPT ![e] = created[old[e]]]
        /\ UNCHANGED providerVars
     \/ /\ created[old[e]] = NoCustomer
        /\ \E k \in Customers \ issued :
             /\ fresh' = [fresh EXCEPT ![e] = k]
             /\ issued' = issued \cup {k}
             /\ provider' = provider \cup {k}
             /\ created' = [created EXCEPT ![old[e]] = k]
             /\ UNCHANGED deletions
  /\ Goto(e, IF old[e] = NoCustomer THEN "record" ELSE "select")
  /\ UNCHANGED <<vars, old, held, taken, moved, ensures>>

\* Mutant: no unique index on the tenant's live customer.
UpsertUnindexed(k, except) == TRUE

\* upsertCustomer inserts a new row as live and leaves deleted_at of an existing
\* one alone; the unique index allows one live customer for the tenant.
UpsertAllowed(k, except) ==
  customers[k] = "absent" => \A j \in Customers \ {k, except} : ~Live(j)
Upserted(k) == IF customers[k] = "absent" THEN "live" ELSE customers[k]

\* The tenant had no customer: one statement, which may violate the index.
RecordCustomer(e) ==
  /\ epc[e] = "record"
  /\ Writers = {}
  /\ customers' = IF UpsertAllowed(fresh[e], NoCustomer)
                    THEN [customers EXCEPT ![fresh[e]] = Upserted(fresh[e])]
                    ELSE customers
  /\ Return(e)
  /\ UNCHANGED <<ledger, clock, lock, callerVars, providerVars, held, taken, moved, ensures>>

-----------------------------------------------------------------------------
\* replaceCustomer, a transaction.

\* select distinct currency from the ledger of the old customer, in any order
SelectHeld(e) ==
  /\ epc[e] = "select"
  /\ LET found == {r.op.currency : r \in {s \in ledger : s.customer = old[e]}}
     IN  \E rows \in Bijection(1..Cardinality(found), found) :
           held' = [held EXCEPT ![e] = rows]
  /\ Goto(e, "locks")
  /\ UNCHANGED <<vars, providerVars, old, fresh, taken, moved, ensures>>

\* The locks are taken one statement each, in the order the rows came back.
LocksLeft(e) == taken[e] < Len(held[e])
NextLock(e) == <<old[e], held[e][taken[e] + 1]>>

LockLedger(e) ==
  /\ epc[e] = "locks"
  /\ LocksLeft(e)
  /\ lock[NextLock(e)] = Free
  /\ lock' = [lock EXCEPT ![NextLock(e)] = e]
  /\ taken' = [taken EXCEPT ![e] = @ + 1]
  /\ UNCHANGED <<customers, ledger, clock, callerVars, providerVars,
                 epc, old, fresh, held, moved, ensures>>

\* Mutant: session locks (pg_advisory_lock), which outlive the transaction.
EndWithoutUnlock(e) ==
  /\ held' = [held EXCEPT ![e] = <<>>]
  /\ taken' = [taken EXCEPT ![e] = 0]
  /\ moved' = [moved EXCEPT ![e] = {}]
  /\ Return(e)
  /\ UNCHANGED <<lock, clock, callerVars, providerVars, ensures>>

\* The transaction is over, one way or the other.
EndReplacement(e) ==
  /\ lock' = [a \in Accounts |-> IF lock[a] = e THEN Free ELSE lock[a]]
  /\ held' = [held EXCEPT ![e] = <<>>]
  /\ taken' = [taken EXCEPT ![e] = 0]
  /\ moved' = [moved EXCEPT ![e] = {}]
  /\ Return(e)
  /\ UNCHANGED <<clock, callerVars, providerVars, ensures>>

\* Mutant: the ledger moves without the locks of its accounts.
SwapWithoutLocks(e) ==
  /\ epc[e] = "locks"
  /\ Writers = {}
  /\ UpsertAllowed(fresh[e], old[e])
  /\ Goto(e, "move")
  /\ UNCHANGED <<vars, providerVars, old, fresh, held, taken, moved, ensures>>

\* The old customer is marked deleted and the new one upserted.
SwapCustomers(e) ==
  /\ epc[e] = "locks"
  /\ ~LocksLeft(e)
  /\ Writers = {}
  /\ UpsertAllowed(fresh[e], old[e])
  /\ Goto(e, "move")
  /\ UNCHANGED <<vars, providerVars, old, fresh, held, taken, moved, ensures>>

\* update ledger set customer_id = new where customer_id = old
MoveLedger(e) ==
  /\ epc[e] = "move"
  /\ moved' = [moved EXCEPT ![e] = {r \in ledger : r.customer = old[e]}]
  /\ Goto(e, "commit")
  /\ UNCHANGED <<vars, providerVars, old, fresh, held, taken, ensures>>

\* Mutant: the entries are copied to the new customer.
CommitCopies(e) ==
  /\ epc[e] = "commit"
  /\ ledger' = ledger \cup {[r EXCEPT !.customer = fresh[e]] : r \in moved[e]}
  /\ customers' = [customers EXCEPT
                     ![old[e]] = IF Live(old[e]) THEN "deleted" ELSE @,
                     ![fresh[e]] = Upserted(fresh[e])]
  /\ EndReplacement(e)

CommitReplacement(e) ==
  /\ epc[e] = "commit"
  /\ ledger' = (ledger \ moved[e]) \cup {[r EXCEPT !.customer = fresh[e]] : r \in moved[e]}
  /\ customers' = [customers EXCEPT
                     ![old[e]] = IF Live(old[e]) THEN "deleted" ELSE @,
                     ![fresh[e]] = Upserted(fresh[e])]
  /\ EndReplacement(e)

\* A statement of the replacement fails: unique violation, lost connection, or
\* Postgres breaking a deadlock.  ensureCustomer throws.
RollbackReplacement(e) ==
  /\ epc[e] \in {"select", "locks", "move", "commit"}
  /\ EndReplacement(e)
  /\ UNCHANGED <<customers, ledger>>

\* What must end in a rollback: the unique index refuses the new customer, or
\* replacements wait for each other's locks in a circle.
UniqueViolation(e) ==
  /\ epc[e] = "locks"
  /\ ~LocksLeft(e)
  /\ Writers = {}
  /\ ~UpsertAllowed(fresh[e], old[e])

WaitsFor(e, f) ==
  /\ epc[e] = "locks"
  /\ LocksLeft(e)
  /\ lock[NextLock(e)] = f
  /\ e # f

Deadlocked(e) ==
  \E circle \in SUBSET Ensurers : \E next \in Bijection(circle, circle) :
    e \in circle /\ \A f \in circle : WaitsFor(f, next[f])

Refuse(e) ==
  /\ UniqueViolation(e) \/ Deadlocked(e)
  /\ EndReplacement(e)
  /\ UNCHANGED <<customers, ledger>>

EnsurerStep(e) ==
  \/ FindCustomer(e)
  \/ Verify(e)
  \/ ProviderFails(e)
  \/ CreateCustomer(e)
  \/ RecordCustomer(e)
  \/ SelectHeld(e)
  \/ LockLedger(e)
  \/ SwapCustomers(e)
  \/ MoveLedger(e)
  \/ CommitReplacement(e)
  \/ Refuse(e)

-----------------------------------------------------------------------------
\* The provider, and the webhook it sends.

DeleteAtProvider(k) ==
  /\ k \in provider
  /\ provider' = provider \ {k}
  /\ deletions' = IF WebhooksConfigured THEN deletions \cup {k} ELSE deletions
  /\ UNCHANGED <<vars, issued, created, ensurerVars>>

\* An idempotency key is remembered for a limited time.  (Bound: forgetting is
\* left out once no customer id is left to answer the key with.)
ForgetKey(k) ==
  /\ created[k] # NoCustomer
  /\ Customers # issued
  /\ created' = [created EXCEPT ![k] = NoCustomer]
  /\ UNCHANGED <<vars, provider, issued, deletions, ensurerVars>>

\* customer.deleted: normalizeAndSync calls markCustomerDeleted.  An event older
\* than the row's lastEventAt is ignored; provider times are whole seconds of
\* another clock, so a row written just before or after may look newer.
MarkCustomerDeleted(k) ==
  /\ k \in deletions
  /\ Writers = {}
  /\ customers' \in {customers, [customers EXCEPT ![k] = IF Live(k) THEN "deleted" ELSE @]}
  /\ deletions' = deletions \ {k}
  /\ UNCHANGED <<ledger, clock, lock, callerVars, provider, issued, created, ensurerVars>>

ReplacementNext ==
  \/ Next /\ UNCHANGED <<providerVars, ensurerVars>>
  \/ \E e \in Ensurers :
       EnsureCustomer(e) \/ EnsurerStep(e) \/ RollbackReplacement(e)
  \/ \E k \in Customers : DeleteAtProvider(k) \/ MarkCustomerDeleted(k)
  \/ \E k \in Customers \cup {NoCustomer} : ForgetKey(k)

ReplacementSpec == ReplacementInit /\ [][ReplacementNext]_replacementVars

-----------------------------------------------------------------------------
\* Types of the composition; a lock may be held by an ensurer too.
ReplacementTypeOK ==
  /\ LedgerTypes(Clients \cup Ensurers \cup {Free})
  /\ provider \subseteq issued /\ issued \subseteq Customers
  /\ created \in [Customers \cup {NoCustomer} -> Customers \cup {NoCustomer}]
  /\ deletions \subseteq Customers
  /\ epc \in [Ensurers -> EnsurerSteps]
  /\ {old, fresh} \subseteq [Ensurers -> Customers \cup {NoCustomer}]
  /\ held \in [Ensurers -> Seq(Currencies)]
  /\ taken \in [Ensurers -> Nat]
  /\ moved \in [Ensurers -> SUBSET Row]

\* The tenant never has two live customers, whichever of concurrent
\* ensureCustomer calls, replacements and webhooks come first.
OneLiveCustomer ==
  \A j, k \in Customers : Live(j) /\ Live(k) => j = k

\* Replacing a customer neither loses, duplicates nor rewrites an entry: every
\* row survives each step, and changes at most its customer, to the one an
\* ensurer is replacing its customer by.
SameEntry(r, s) == s = [r EXCEPT !.customer = s.customer]
RowsPreserved ==
  [][\A r \in ledger :
       \E s \in ledger' :
         /\ SameEntry(r, s)
         /\ \A t \in ledger' : SameEntry(r, t) => t = s
         /\ s.customer = r.customer
              \/ \E e \in Ensurers : old[e] = r.customer /\ fresh[e] = s.customer
    ]_replacementVars

\* "The ledger's locks for the old customer, so no write lands on it while its
\* entries move": true of every currency the old customer had entries in.
NoWriteLandsWhileMoving ==
  [][\A e \in Ensurers :
       (epc[e] \in {"move", "commit"} /\ epc'[e] # "idle") =>
         \A r \in ledger' \ ledger :
           r.customer = old[e] => r.op.currency \notin Range(held[e])
    ]_replacementVars

\* Ensurers wait for advisory locks as callers do, and for a transaction that
\* wrote the customers table; a deadlocked replacement is rolled back.
EnsurerWaits(e) ==
  \/ epc[e] = "record" /\ Writers # {}
  \/ /\ epc[e] = "locks" /\ ~Deadlocked(e)
     /\ IF LocksLeft(e) THEN lock[NextLock(e)] # Free ELSE Writers # {}

\* Ensurers and callers never all wait for each other: while one of them is
\* in the middle of a call, one of them can go on.  (Calls have no loops, so
\* every call returns.)
SomeoneProceeds ==
  (\E c \in Clients : pc[c] # "idle") \/ (\E e \in Ensurers : epc[e] # "idle") =>
    \/ \E c \in Clients : pc[c] # "idle" /\ ~CallerWaits(c)
    \/ \E e \in Ensurers : epc[e] # "idle" /\ ~EnsurerWaits(e)

\* "Replaced by a new one, its credit ledger and usage moving with it", also
\* "when the customer was deleted at the provider": once the tenant has a
\* customer, its entries are with that customer.
LedgerFollowsCustomer ==
  \A r \in ledger : (\E k \in Customers : Live(k)) => Live(r.customer)
=============================================================================
