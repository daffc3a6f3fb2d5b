----------------------- MODULE CustomerReplacementProofs -----------------------
(***************************************************************************)
(* CustomerReplacement for any callers, ensurers, customers, currencies    *)
(* and operations: the tenant has one live customer, its entries survive   *)
(* every replacement, nothing lands on the old customer while they move,   *)
(* no key is applied twice, and not all of them wait for each other.  The  *)
(* proofs about the callers' own steps are those of CreditLedgerProofs,    *)
(* with ensurers as further lock holders.                                  *)
(***************************************************************************)
EXTENDS CustomerReplacement, CreditLedgerProofs, SequenceTheorems, WellFoundedInduction

Holders == Clients \cup Ensurers \cup {Free}

Replacing == {"select", "locks", "move", "commit"}

\* What an ensurer knows at each step, and the locks its transaction holds.
EnsurerControl ==
  \A e \in Ensurers :
    /\ epc[e] = "verify" => old[e] \in Customers
    /\ epc[e] = "record" => fresh[e] \in Customers
    /\ epc[e] \in Replacing => old[e] \in Customers /\ fresh[e] \in Customers
    /\ epc[e] \notin {"locks", "move", "commit"} => taken[e] = 0
    /\ taken[e] <= Len(held[e])
    /\ \A i \in 1..taken[e] : lock[<<old[e], held[e][i]>>] = e
    /\ epc[e] \in {"move", "commit"} => taken[e] = Len(held[e])

\* Writing the customers table excludes every other writer of it.
OneWriter ==
  /\ \A e, f \in Writers : e = f
  /\ \A e \in Writers : UpsertAllowed(fresh[e], old[e])

\* The rows an UPDATE will give to the new customer are still the old one's.
MovesOwnRows ==
  \A e \in Ensurers :
    /\ epc[e] # "commit" => moved[e] = {}
    /\ \A r \in moved[e] : r \in ledger /\ r.customer = old[e]

\* An uncommitted row belongs to its caller's account, and no two rows,
\* committed or not, have the same time.
RowsApart ==
  /\ Stamped
  /\ \A r, s \in ledger : r.at = s.at => r = s
  /\ \A c \in Clients :
       /\ pc[c] # "commit" => draft[c] = {}
       /\ \A r \in draft[c] :
            /\ draft[c] = {r}
            /\ r.op = call[c] /\ r.customer = customer[c]
            /\ \A s \in ledger : s.at # r.at
            /\ \A d \in Clients \ {c} : \A s \in draft[d] : s.at # r.at

\* No two rows, committed or not, have the same key.
KeysApart ==
  /\ KeyAppliedOnce
  /\ \A c \in Clients : \A r \in draft[c] :
       /\ ~UsedBy(r.op.key, ledger)
       /\ \A d \in Clients \ {c} : ~UsedBy(r.op.key, draft[d])

\* No currency is found twice, so no lock is taken twice.
HeldApart ==
  \A e \in Ensurers : \A i, j \in 1..Len(held[e]) : held[e][i] = held[e][j] => i = j

\* Locks are held by transactions that are open, and only those they took.
LocksOwned ==
  /\ CallerLocks
  /\ \A a \in Accounts : \A e \in Ensurers : lock[a] = e =>
       /\ epc[e] \in {"locks", "move", "commit"}
       /\ \E i \in 1..taken[e] : a = <<old[e], held[e][i]>>

ReplacementInv ==
  /\ ReplacementTypeOK
  /\ IsFiniteSet(ledger)
  /\ Control
  /\ EnsurerControl
  /\ OneLiveCustomer
  /\ OneWriter
  /\ MovesOwnRows
  /\ RowsApart
  /\ KeysApart
  /\ HeldApart
  /\ LocksOwned

-----------------------------------------------------------------------------
\* A nonempty set of numbers has a least one, and rows stamped by the clock a
\* newest one: every account with rows has a balance.
LEMMA LeastNat ==
  ASSUME NEW T \in SUBSET Nat, T # {}
  PROVE  \E n \in T : \A m \in T : n <= m
<1>1. IsWellFoundedOn(OpToRel(<, Nat), Nat)
  BY NatLessThanWellFounded
<1>2. PICK n \in T : \A m \in T : ~(<<m, n>> \in OpToRel(<, Nat))
  BY <1>1, WFMin
<1>3. \A m \in T : ~(m < n)
  BY <1>2 DEF OpToRel
<1>4. \A m \in T : n <= m
  BY <1>3
<1> QED
  BY <1>4

LEMMA LedgerHasNewest ==
  ASSUME LedgerTypes(Holders), Stamped
  PROVE  HasNewest
<1> SUFFICES ASSUME NEW a \in Accounts, RowsOf(a) # {}
             PROVE  \E r \in RowsOf(a) : \A s \in RowsOf(a) : s.at <= r.at
  BY DEF HasNewest
<1>1. clock \in Nat /\ \A r \in RowsOf(a) : r.at \in Nat /\ r.at <= clock
  BY DEF LedgerTypes, Stamped, RowsOf, Row
<1> DEFINE ages == {clock - r.at : r \in RowsOf(a)}
<1>2. ages \in SUBSET Nat /\ ages # {}
  BY <1>1
<1>3. PICK n \in ages : \A m \in ages : n <= m
  BY <1>2, LeastNat
<1>4. PICK r \in RowsOf(a) : n = clock - r.at
  BY <1>3
<1>5. \A s \in RowsOf(a) : clock - r.at <= clock - s.at
  BY <1>3, <1>4
<1>6. \A s \in RowsOf(a) : s.at <= r.at
  BY <1>1, <1>5
<1> QED
  BY <1>6

-----------------------------------------------------------------------------
\* Types.
LEMMA ReplacementTypeInit == ReplacementInit => ReplacementTypeOK
<1> SUFFICES ASSUME ReplacementInit PROVE ReplacementTypeOK
  OBVIOUS
<1>1. LedgerTypes(Holders)
  BY DEF ReplacementInit, Init, LedgerTypes, Holders, Steps, Replies
<1>2. created \in [Customers \cup {NoCustomer} -> Customers \cup {NoCustomer}]
  BY DEF ReplacementInit
<1>3. held \in [Ensurers -> Seq(Currencies)]
  BY EmptySeq DEF ReplacementInit
<1> QED
  BY <1>1, <1>2, <1>3 DEF ReplacementInit, ReplacementTypeOK, EnsurerSteps, Holders

\* Callers' steps keep the ledger's types, ensurers being lock holders too.
LEMMA CallerTypeStep ==
  ASSUME ReplacementInv, [Next]_vars
  PROVE  LedgerTypes(Holders)' /\ Control'
<1>1. LedgerTypes(Holders) /\ Control /\ HasNewest
  BY LedgerHasNewest DEF ReplacementInv, ReplacementTypeOK, Holders, RowsApart
<1>2. Clients \subseteq Holders /\ Free \in Holders
  BY DEF Holders
<1> QED
  BY <1>1, <1>2, TypeStep, ControlStep

LEMMA CreateTypes ==
  ASSUME NEW e \in Ensurers, CreateCustomer(e),
         provider \subseteq issued, issued \subseteq Customers, deletions \subseteq Customers,
         created \in [Customers \cup {NoCustomer} -> Customers \cup {NoCustomer}],
         fresh \in [Ensurers -> Customers \cup {NoCustomer}], old[e] \in Customers \cup {NoCustomer}
  PROVE  /\ provider' \subseteq issued' /\ issued' \subseteq Customers /\ deletions' \subseteq Customers
         /\ created' \in [Customers \cup {NoCustomer} -> Customers \cup {NoCustomer}]
         /\ fresh' \in [Ensurers -> Customers \cup {NoCustomer}]
         /\ fresh'[e] \in Customers
<1>1. created[old[e]] \in Customers \cup {NoCustomer}
  OBVIOUS
<1> QED
  BY <1>1 DEF CreateCustomer, providerVars

\* The steps of an ensurer outside the transaction of replaceCustomer.
LEMMA EnsureTypes ==
  ASSUME ReplacementInv, NEW e \in Ensurers,
         \/ EnsureCustomer(e) \/ FindCustomer(e) \/ Verify(e) \/ ProviderFails(e)
         \/ CreateCustomer(e) \/ RecordCustomer(e)
  PROVE  ReplacementTypeOK'
<1> USE DEF ReplacementInv, ReplacementTypeOK
<1>1. CASE EnsureCustomer(e)
  BY <1>1 DEF EnsureCustomer, Goto, EnsurerSteps, providerVars, vars, callerVars, LedgerTypes
<1>2. CASE FindCustomer(e)
  <2>1. LedgerTypes(Holders)' /\ epc' \in [Ensurers -> EnsurerSteps]
    BY <1>2 DEF FindCustomer, Goto, Return, EnsurerSteps, vars, callerVars, LedgerTypes, Holders
  <2> QED
    BY <1>2, <2>1 DEF FindCustomer, Return, providerVars, Holders
<1>3. CASE Verify(e) \/ ProviderFails(e)
  <2>1. LedgerTypes(Holders)' /\ epc' \in [Ensurers -> EnsurerSteps]
    BY <1>3 DEF Verify, ProviderFails, Goto, Return, EnsurerSteps, vars, callerVars, LedgerTypes, Holders
  <2> QED
    BY <1>3, <2>1 DEF Verify, ProviderFails, Return, providerVars, Holders
<1>4. CASE CreateCustomer(e)
  <2>1. LedgerTypes(Holders)' /\ epc' \in [Ensurers -> EnsurerSteps]
    BY <1>4 DEF CreateCustomer, Goto, EnsurerSteps, vars, callerVars, LedgerTypes, Holders
  <2>2. old[e] \in Customers \cup {NoCustomer}
    OBVIOUS
  <2>3. /\ provider' \subseteq issued' /\ issued' \subseteq Customers /\ deletions' \subseteq Customers
        /\ created' \in [Customers \cup {NoCustomer} -> Customers \cup {NoCustomer}]
        /\ fresh' \in [Ensurers -> Customers \cup {NoCustomer}]
    BY <1>4, <2>2, CreateTypes
  <2> QED
    BY <1>4, <2>1, <2>3 DEF CreateCustomer, Holders
<1>5. CASE RecordCustomer(e)
  <2>1. fresh[e] \in Customers
    BY <1>5 DEF RecordCustomer, EnsurerControl
  <2>2. customers' \in [Customers -> {"absent", "live", "deleted"}]
    BY <1>5, <2>1 DEF RecordCustomer, Upserted, LedgerTypes
  <2>3. LedgerTypes(Holders)' /\ epc' \in [Ensurers -> EnsurerSteps]
    BY <1>5, <2>2 DEF RecordCustomer, Return, Goto, EnsurerSteps, callerVars, LedgerTypes, Holders
  <2> QED
    BY <1>5, <2>3 DEF RecordCustomer, Return, providerVars, Holders
<1> QED
  BY <1>1, <1>2, <1>3, <1>4, <1>5

\* A moved row is a row.
LEMMA MovedRowTyped ==
  ASSUME NEW r \in Row, NEW k \in Customers
  PROVE  /\ [r EXCEPT !.customer = k] \in Row
         /\ [r EXCEPT !.customer = k].at = r.at
         /\ [r EXCEPT !.customer = k].op = r.op
         /\ [r EXCEPT !.customer = k].customer = k
  BY DEF Row

\* The currencies of finitely many rows are finitely many ...
LEMMA FoundFinite ==
  ASSUME NEW rows, IsFiniteSet(rows)
  PROVE  IsFiniteSet({r.op.currency : r \in rows})
<1> DEFINE found == {r.op.currency : r \in rows}
           currencyOf == [r \in rows |-> r.op.currency]
<1>1. currencyOf \in Surjection(rows, found)
  BY DEF Surjection
<1> QED
  BY <1>1, FS_Surjection

\* ... and in the order the query returns them, a sequence without duplicates.
LEMMA FoundInOrder ==
  ASSUME NEW S \in SUBSET Currencies, IsFiniteSet(S), NEW rows \in Bijection(1..Cardinality(S), S)
  PROVE  /\ rows \in Seq(Currencies)
         /\ \A i, j \in 1..Len(rows) : rows[i] = rows[j] => i = j
<1> DEFINE n == Cardinality(S)
<1>1. n \in Nat
  BY FS_CardinalityType
<1> HIDE DEF n
<1>2. rows \in [1..n -> Currencies] /\ \A i, j \in 1..n : rows[i] = rows[j] => i = j
  BY DEF Bijection, Injection, IsInjective, n
<1>3. rows \in Seq(Currencies)
  BY <1>1, <1>2, SeqDef
<1>4. Len(rows) = n
  BY <1>1, <1>2, <1>3, LenProperties
<1> QED
  BY <1>2, <1>3, <1>4

LEMMA HeldFound ==
  ASSUME ReplacementInv, NEW e \in Ensurers, SelectHeld(e)
  PROVE  /\ held' \in [Ensurers -> Seq(Currencies)]
         /\ \A i, j \in 1..Len(held'[e]) : held'[e][i] = held'[e][j] => i = j
<1> DEFINE rows == {s \in ledger : s.customer = old[e]}
           found == {r.op.currency : r \in rows}
<1>1. IsFiniteSet(rows) /\ rows \subseteq ledger
  BY FS_Subset DEF ReplacementInv
<1>2. IsFiniteSet(found)
  BY <1>1, FoundFinite
<1>3. \A r \in ledger : r.op.currency \in Currencies
  BY DEF ReplacementInv, ReplacementTypeOK, LedgerTypes, Row, OpType
<1>4. found \in SUBSET Currencies
  BY <1>1, <1>3
<1>5. PICK order \in Bijection(1..Cardinality(found), found) : held' = [held EXCEPT ![e] = order]
  BY DEF SelectHeld
<1> HIDE DEF found
<1>6. order \in Seq(Currencies) /\ \A i, j \in 1..Len(order) : order[i] = order[j] => i = j
  BY <1>2, <1>4, FoundInOrder
<1> QED
  BY <1>5, <1>6 DEF ReplacementInv, ReplacementTypeOK

\* The steps of replaceCustomer.
LEMMA ReplaceTypes ==
  ASSUME ReplacementInv, NEW e \in Ensurers,
         \/ SelectHeld(e) \/ LockLedger(e) \/ SwapCustomers(e) \/ MoveLedger(e)
         \/ CommitReplacement(e) \/ RollbackReplacement(e) \/ Refuse(e)
  PROVE  ReplacementTypeOK'
<1> USE DEF ReplacementInv, ReplacementTypeOK
<1>1. CASE SelectHeld(e)
  <2>1. LedgerTypes(Holders)' /\ epc' \in [Ensurers -> EnsurerSteps]
    BY <1>1 DEF SelectHeld, Goto, EnsurerSteps, vars, callerVars, LedgerTypes, Holders
  <2>2. held' \in [Ensurers -> Seq(Currencies)]
    BY <1>1, HeldFound
  <2> QED
    BY <1>1, <2>1, <2>2 DEF SelectHeld, providerVars, Holders
<1>2. CASE LockLedger(e)
  <2>1. lock' = [lock EXCEPT ![NextLock(e)] = e] /\ taken' = [taken EXCEPT ![e] = @ + 1]
    BY <1>2 DEF LockLedger
  <2>2. LedgerTypes(Holders)'
    BY <1>2, <2>1 DEF LockLedger, callerVars, LedgerTypes, Holders
  <2> QED
    BY <1>2, <2>1, <2>2 DEF LockLedger, providerVars, Holders
<1>3. CASE SwapCustomers(e)
  <2>1. LedgerTypes(Holders)' /\ epc' \in [Ensurers -> EnsurerSteps]
    BY <1>3 DEF SwapCustomers, Goto, EnsurerSteps, vars, callerVars, LedgerTypes, Holders
  <2> QED
    BY <1>3, <2>1 DEF SwapCustomers, providerVars, Holders
<1>4. CASE MoveLedger(e)
  <2>1. LedgerTypes(Holders)' /\ epc' \in [Ensurers -> EnsurerSteps]
    BY <1>4 DEF MoveLedger, Goto, EnsurerSteps, vars, callerVars, LedgerTypes, Holders
  <2>2. moved' \in [Ensurers -> SUBSET Row]
    BY <1>4 DEF MoveLedger, LedgerTypes
  <2> QED
    BY <1>4, <2>1, <2>2 DEF MoveLedger, providerVars, Holders
<1>5. ASSUME EndReplacement(e), customers' \in [Customers -> {"absent", "live", "deleted"}], ledger' \subseteq Row
      PROVE  ReplacementTypeOK'
  <2>1. lock' \in [Accounts -> Holders]
    BY <1>5 DEF EndReplacement, LedgerTypes, Holders
  <2>2. LedgerTypes(Holders)' /\ epc' \in [Ensurers -> EnsurerSteps]
    BY <1>5, <2>1 DEF EndReplacement, Return, Goto, EnsurerSteps, callerVars, LedgerTypes, Holders
  <2>3. <<>> \in Seq(Currencies)
    BY EmptySeq
  <2>4. held' \in [Ensurers -> Seq(Currencies)]
    BY <1>5, <2>3 DEF EndReplacement
  <2> QED
    BY <1>5, <2>2, <2>4 DEF EndReplacement, Return, providerVars, Holders
<1>6. CASE CommitReplacement(e)
  <2>1. old[e] \in Customers /\ fresh[e] \in Customers
    BY <1>6 DEF CommitReplacement, EnsurerControl, Replacing
  <2>2. customers' \in [Customers -> {"absent", "live", "deleted"}]
    BY <1>6, <2>1 DEF CommitReplacement, Upserted, LedgerTypes
  <2>3. ledger' \subseteq Row
    BY <1>6, <2>1, MovedRowTyped DEF CommitReplacement, LedgerTypes
  <2> QED
    BY <1>5, <1>6, <2>2, <2>3 DEF CommitReplacement
<1>7. CASE RollbackReplacement(e) \/ Refuse(e)
  BY <1>5, <1>7 DEF RollbackReplacement, Refuse, LedgerTypes
<1> QED
  BY <1>1, <1>2, <1>3, <1>4, <1>6, <1>7

LEMMA ReplacementTypeStep ==
  ASSUME ReplacementInv, [ReplacementNext]_replacementVars
  PROVE  ReplacementTypeOK'
<1> USE DEF ReplacementInv, ReplacementTypeOK
<1>1. CASE Next /\ UNCHANGED <<providerVars, ensurerVars>>
  BY <1>1, CallerTypeStep DEF providerVars, ensurerVars, Holders
<1>2. ASSUME NEW k \in Customers, DeleteAtProvider(k) \/ MarkCustomerDeleted(k) PROVE ReplacementTypeOK'
  <2>1. LedgerTypes(Holders)'
    BY <1>2 DEF DeleteAtProvider, MarkCustomerDeleted, vars, callerVars, LedgerTypes, Holders
  <2> QED
    BY <1>2, <2>1 DEF DeleteAtProvider, MarkCustomerDeleted, ensurerVars, Holders
<1>3. ASSUME NEW k \in Customers \cup {NoCustomer}, ForgetKey(k) PROVE ReplacementTypeOK'
  <2>1. LedgerTypes(Holders)'
    BY <1>3 DEF ForgetKey, vars, callerVars, LedgerTypes, Holders
  <2> QED
    BY <1>3, <2>1 DEF ForgetKey, ensurerVars, Holders
<1>4. CASE UNCHANGED replacementVars
  <2>1. LedgerTypes(Holders)'
    BY <1>4 DEF replacementVars, vars, callerVars, LedgerTypes, Holders
  <2> QED
    BY <1>4, <2>1 DEF replacementVars, providerVars, ensurerVars, Holders
<1> QED
  BY <1>1, <1>2, <1>3, <1>4, EnsureTypes, ReplaceTypes DEF ReplacementNext, EnsurerStep

-----------------------------------------------------------------------------
\* Locks.  A caller's step takes a free lock or frees its own, so the locks of
\* replacements stay; a replacement's step does the same to the callers' locks.
LEMMA CallersLeaveLocks ==
  ASSUME ReplacementInv, Next, NEW a, lock[a] \in Ensurers
  PROVE  lock'[a] = lock[a]
<1> USE DEF ReplacementInv, ReplacementTypeOK, LedgerTypes
<1>1. PICK c \in Clients : (\E op \in Ops : Call(c, op)) \/ ClientStep(c) \/ Rollback(c)
  BY DEF Next
<1>2. CASE AcquireLock(c)
  BY <1>2, EnsurersAssumption DEF AcquireLock
<1>3. CASE pc[c] \in InTransaction /\ lock' = [lock EXCEPT ![AccountOf(c)] = Free]
  BY <1>3, EnsurersAssumption DEF Control
<1>4. CASE lock' = lock
  BY <1>4
<1> QED
  BY <1>1, <1>2, <1>3, <1>4
  DEF Call, ClientStep, RequireCustomer, ReturnExisting, NoExisting, ReadBalance, Insufficient,
      Unchanged, Duplicate, Writes, InsertEntry, Commit, Rollback, Finish, InTransaction

LEMMA ReplacementsLeaveLocks ==
  ASSUME ReplacementInv, NEW e \in Ensurers, EnsurerStep(e) \/ RollbackReplacement(e),
         NEW a \in Accounts, lock[a] # Free, lock[a] # e
  PROVE  lock'[a] = lock[a]
<1> USE DEF ReplacementInv, ReplacementTypeOK, LedgerTypes
<1>1. CASE LockLedger(e)
  BY <1>1 DEF LockLedger
<1>2. CASE EndReplacement(e)
  BY <1>2 DEF EndReplacement
<1>3. CASE lock' = lock
  BY <1>3
<1> QED
  BY <1>1, <1>2, <1>3
  DEF EnsurerStep, FindCustomer, Verify, ProviderFails, CreateCustomer, RecordCustomer, SelectHeld, SwapCustomers,
      MoveLedger, CommitReplacement, Refuse, RollbackReplacement, vars

LEMMA ReplacementControlStep ==
  ASSUME ReplacementInv, [ReplacementNext]_replacementVars
  PROVE  Control'
<1>1. CASE Next
  BY <1>1, CallerTypeStep
<1>2. ASSUME NEW e \in Ensurers, EnsurerStep(e) \/ RollbackReplacement(e), NEW c \in Clients
      PROVE  /\ UNCHANGED callerVars
             /\ pc[c] \in InTransaction => lock'[AccountOf(c)] = c
  <2>1. UNCHANGED callerVars
    BY <1>2 DEF EnsurerStep, FindCustomer, Verify, ProviderFails, CreateCustomer, RecordCustomer, SelectHeld,
                LockLedger, SwapCustomers, MoveLedger, CommitReplacement, Refuse, RollbackReplacement,
                EndReplacement, vars
  <2>2. ASSUME pc[c] \in InTransaction PROVE lock'[AccountOf(c)] = c
    <3>1. lock[AccountOf(c)] = c /\ c # e /\ c # Free
      BY <2>2, EnsurersAssumption, NamesAssumption DEF ReplacementInv, Control
    <3>2. AccountOf(c) \in Accounts
      <4>1. LedgerTypes(Holders) /\ Control /\ Clients \subseteq Holders /\ Free \in Holders
        BY DEF ReplacementInv, ReplacementTypeOK, Holders
      <4> QED
        BY <2>2, <4>1, AccountTyped
    <3> QED
      BY <1>2, <3>1, <3>2, ReplacementsLeaveLocks
  <2> QED
    BY <2>1, <2>2
<1>3. ASSUME UNCHANGED <<callerVars, lock>> PROVE Control'
  BY <1>3 DEF ReplacementInv, Control, AccountOf, callerVars
<1>4. ASSUME NEW e \in Ensurers, EnsureCustomer(e) PROVE Control'
  BY <1>3, <1>4 DEF EnsureCustomer, vars
<1>5. ASSUME NEW k, DeleteAtProvider(k) \/ MarkCustomerDeleted(k) \/ ForgetKey(k) PROVE Control'
  BY <1>3, <1>5 DEF DeleteAtProvider, MarkCustomerDeleted, ForgetKey, vars
<1>6. CASE UNCHANGED replacementVars
  BY <1>3, <1>6 DEF replacementVars, vars
<1>7. ASSUME NEW e \in Ensurers, EnsurerStep(e) \/ RollbackReplacement(e) PROVE Control'
  BY <1>2, <1>7 DEF ReplacementInv, Control, AccountOf, callerVars
<1> QED
  BY <1>1, <1>4, <1>5, <1>6, <1>7 DEF ReplacementNext

-----------------------------------------------------------------------------
\* Ensurers change only their own locals.
LEMMA OtherEnsurers ==
  ASSUME ReplacementInv, NEW e \in Ensurers,
         EnsureCustomer(e) \/ EnsurerStep(e) \/ RollbackReplacement(e),
         NEW f \in Ensurers, f # e
  PROVE  /\ epc'[f] = epc[f] /\ old'[f] = old[f] /\ fresh'[f] = fresh[f]
         /\ held'[f] = held[f] /\ taken'[f] = taken[f] /\ moved'[f] = moved[f]
<1> USE DEF ReplacementInv, ReplacementTypeOK
<1>1. CASE EnsureCustomer(e) \/ FindCustomer(e) \/ Verify(e) \/ ProviderFails(e)
  BY <1>1 DEF EnsureCustomer, FindCustomer, Verify, ProviderFails, Return, Goto
<1>2. CASE CreateCustomer(e) \/ RecordCustomer(e)
  BY <1>2 DEF CreateCustomer, RecordCustomer, Return, Goto
<1>3. CASE SelectHeld(e) \/ LockLedger(e)
  BY <1>3 DEF SelectHeld, LockLedger, Goto
<1>4. CASE SwapCustomers(e) \/ MoveLedger(e)
  BY <1>4 DEF SwapCustomers, MoveLedger, Goto
<1>5. CASE EndReplacement(e)
  BY <1>5 DEF EndReplacement, Return, Goto
<1> QED
  BY <1>1, <1>2, <1>3, <1>4, <1>5 DEF EnsurerStep, CommitReplacement, Refuse, RollbackReplacement

\* The lock a replacement takes next, and those it has.
LEMMA NextLockTyped ==
  ASSUME ReplacementInv, NEW e \in Ensurers, epc[e] = "locks", LocksLeft(e)
  PROVE  NextLock(e) \in Accounts
<1>1. held[e] \in Seq(Currencies) /\ taken[e] \in Nat /\ old[e] \in Customers
  BY DEF ReplacementInv, ReplacementTypeOK, EnsurerControl, Replacing
<1>2. taken[e] + 1 \in 1..Len(held[e])
  BY <1>1, LenProperties DEF LocksLeft
<1>3. held[e][taken[e] + 1] \in Currencies
  BY <1>1, <1>2, ElementOfSeq
<1> QED
  BY <1>1, <1>3 DEF NextLock, Accounts

LEMMA OwnLocks ==
  ASSUME ReplacementInv, NEW e \in Ensurers, NEW i \in 1..taken[e]
  PROVE  <<old[e], held[e][i]>> \in Accounts /\ lock[<<old[e], held[e][i]>>] = e
<1>1. held[e] \in Seq(Currencies) /\ taken[e] \in Nat /\ taken[e] <= Len(held[e])
  BY DEF ReplacementInv, ReplacementTypeOK, EnsurerControl
<1>2. old[e] \in Customers
  BY <1>1 DEF ReplacementInv, EnsurerControl, Replacing
<1>3. held[e][i] \in Currencies
  BY <1>1, LenProperties, ElementOfSeq
<1> QED
  BY <1>2, <1>3 DEF ReplacementInv, EnsurerControl, Accounts

\* What an ensurer's own steps do to what it knows.
LEMMA OwnControl ==
  ASSUME ReplacementInv, NEW e \in Ensurers, EnsureCustomer(e) \/ EnsurerStep(e) \/ RollbackReplacement(e)
  PROVE  /\ epc'[e] = "verify" => old'[e] \in Customers
         /\ epc'[e] = "record" => fresh'[e] \in Customers
         /\ epc'[e] \in Replacing => old'[e] \in Customers /\ fresh'[e] \in Customers
         /\ epc'[e] \notin {"locks", "move", "commit"} => taken'[e] = 0
         /\ taken'[e] <= Len(held'[e])
         /\ \A i \in 1..taken'[e] : lock'[<<old'[e], held'[e][i]>>] = e
         /\ epc'[e] \in {"move", "commit"} => taken'[e] = Len(held'[e])
<1> USE DEF ReplacementInv, ReplacementTypeOK, EnsurerControl, Replacing
<1>1. CASE EnsureCustomer(e)
  BY <1>1 DEF EnsureCustomer, Goto, vars
<1>2. CASE FindCustomer(e)
  BY <1>2 DEF FindCustomer, Goto, Return, vars
<1>3. CASE Verify(e) \/ ProviderFails(e)
  BY <1>3 DEF Verify, ProviderFails, Goto, Return, vars
<1>4. CASE CreateCustomer(e)
  <2>1. epc[e] = "create" /\ taken[e] = 0 /\ taken' = taken /\ held' = held /\ old' = old
    BY <1>4 DEF CreateCustomer
  <2>2. epc'[e] = (IF old[e] = NoCustomer THEN "record" ELSE "select") /\ old[e] \in Customers \cup {NoCustomer}
    BY <1>4 DEF CreateCustomer, Goto
  <2>3. fresh'[e] \in Customers
    BY <1>4, <2>2, CreateTypes
  <2> QED
    BY <2>1, <2>2, <2>3
<1>5. CASE RecordCustomer(e)
  <2>1. taken[e] = 0 /\ taken' = taken /\ held' = held /\ epc'[e] = "idle"
    BY <1>5 DEF RecordCustomer, Goto, Return
  <2> QED
    BY <2>1
<1>6. CASE SelectHeld(e)
  <2>1. epc[e] = "select" /\ epc'[e] = "locks" /\ taken' = taken /\ UNCHANGED <<old, fresh>>
    BY <1>6 DEF SelectHeld, Goto
  <2>2. taken'[e] = 0 /\ held'[e] \in Seq(Currencies)
    BY <1>6, <2>1, ReplaceTypes
  <2> QED
    BY <2>1, <2>2, LenProperties
<1>7. CASE LockLedger(e)
  <2>1. /\ lock' = [lock EXCEPT ![NextLock(e)] = e]
        /\ taken'[e] = taken[e] + 1 /\ taken[e] < Len(held[e]) /\ taken[e] \in Nat
    BY <1>7 DEF LockLedger, LocksLeft
  <2>2. /\ epc[e] = "locks" /\ UNCHANGED <<epc, old, fresh, held>>
        /\ NextLock(e) \in Accounts
    BY <1>7, NextLockTyped DEF LockLedger
  <2>3. ASSUME NEW i \in 1..taken'[e] PROVE lock'[<<old'[e], held'[e][i]>>] = e
    <3>1. CASE i = taken[e] + 1
      BY <2>1, <2>2, <3>1 DEF LedgerTypes, NextLock
    <3>2. CASE i \in 1..taken[e]
      <4>1. <<old[e], held[e][i]>> \in Accounts /\ lock[<<old[e], held[e][i]>>] = e
        BY <3>2, OwnLocks
      <4> QED
        BY <2>1, <2>2, <4>1 DEF LedgerTypes
    <3> QED
      BY <2>1, <3>1, <3>2
  <2>4. taken'[e] <= Len(held'[e])
    BY <2>1, <2>2, LenProperties
  <2> QED
    BY <2>2, <2>3, <2>4
<1>8. CASE SwapCustomers(e)
  <2>1. taken[e] = Len(held[e])
    BY <1>8, LenProperties DEF SwapCustomers, LocksLeft
  <2> QED
    BY <1>8, <2>1 DEF SwapCustomers, Goto, vars
<1>9. CASE MoveLedger(e)
  BY <1>9 DEF MoveLedger, Goto, vars
<1>10. CASE EndReplacement(e)
  <2>1. held'[e] = <<>> /\ taken'[e] = 0 /\ epc'[e] = "idle"
    BY <1>10 DEF EndReplacement, Goto, Return
  <2> QED
    BY <2>1
<1> QED
  BY <1>1, <1>2, <1>3, <1>4, <1>5, <1>6, <1>7, <1>8, <1>9, <1>10
  DEF EnsurerStep, CommitReplacement, Refuse, RollbackReplacement

LEMMA EnsurerControlStep ==
  ASSUME ReplacementInv, [ReplacementNext]_replacementVars
  PROVE  EnsurerControl'
<1>1. ASSUME UNCHANGED ensurerVars,
             \A a \in Accounts : lock[a] \in Ensurers => lock'[a] = lock[a]
      PROVE  EnsurerControl'
  <2>1. ASSUME NEW f \in Ensurers, NEW i \in 1..taken[f] PROVE lock'[<<old[f], held[f][i]>>] = f
    BY <1>1, OwnLocks
  <2> QED
    BY <1>1, <2>1 DEF ReplacementInv, EnsurerControl, ensurerVars
<1>2. CASE Next /\ UNCHANGED <<providerVars, ensurerVars>>
  BY <1>1, <1>2, CallersLeaveLocks
<1>3. ASSUME NEW k, DeleteAtProvider(k) \/ MarkCustomerDeleted(k) \/ ForgetKey(k) PROVE EnsurerControl'
  BY <1>1, <1>3 DEF DeleteAtProvider, MarkCustomerDeleted, ForgetKey, vars
<1>4. CASE UNCHANGED replacementVars
  BY <1>1, <1>4 DEF replacementVars, vars
<1>5. ASSUME NEW e \in Ensurers, EnsureCustomer(e) \/ EnsurerStep(e) \/ RollbackReplacement(e)
      PROVE  EnsurerControl'
  <2>1. ASSUME NEW f \in Ensurers, f # e, NEW i \in 1..taken'[f]
        PROVE  lock'[<<old'[f], held'[f][i]>>] = f
    <3>1. taken'[f] = taken[f] /\ old'[f] = old[f] /\ held'[f] = held[f]
      BY <1>5, <2>1, OtherEnsurers
    <3>2. /\ <<old[f], held[f][i]>> \in Accounts
          /\ lock[<<old[f], held[f][i]>>] = f /\ f # Free
      BY <2>1, <3>1, OwnLocks, EnsurersAssumption
    <3>3. CASE EnsureCustomer(e)
      BY <3>1, <3>2, <3>3 DEF EnsureCustomer, vars
    <3> QED
      BY <1>5, <2>1, <3>1, <3>2, <3>3, ReplacementsLeaveLocks
  <2> SUFFICES ASSUME NEW f \in Ensurers
               PROVE  /\ epc'[f] = "verify" => old'[f] \in Customers
                      /\ epc'[f] = "record" => fresh'[f] \in Customers
                      /\ epc'[f] \in Replacing => old'[f] \in Customers /\ fresh'[f] \in Customers
                      /\ epc'[f] \notin {"locks", "move", "commit"} => taken'[f] = 0
                      /\ taken'[f] <= Len(held'[f])
                      /\ \A i \in 1..taken'[f] : lock'[<<old'[f], held'[f][i]>>] = f
                      /\ epc'[f] \in {"move", "commit"} => taken'[f] = Len(held'[f])
    BY DEF EnsurerControl
  <2>2. CASE f = e
    BY <1>5, <2>2, OwnControl
  <2>3. CASE f # e
    BY <1>5, <2>1, <2>3, OtherEnsurers DEF ReplacementInv, EnsurerControl
  <2> QED
    BY <2>2, <2>3
<1> QED
  BY <1>2, <1>3, <1>4, <1>5 DEF ReplacementNext

-----------------------------------------------------------------------------
\* The customers table.  Whoever writes it finds no other writer, so what the
\* unique index allowed a replacement is still allowed when it commits.
LEMMA CustomersStep ==
  ASSUME ReplacementInv, [ReplacementNext]_replacementVars
  PROVE  OneLiveCustomer' /\ OneWriter'
<1> USE DEF ReplacementInv
<1>1. ASSUME UNCHANGED <<customers, epc, old, fresh>> PROVE OneLiveCustomer' /\ OneWriter'
  BY <1>1 DEF OneLiveCustomer, OneWriter, Writers, UpsertAllowed, Live
<1>2. CASE Next /\ UNCHANGED <<providerVars, ensurerVars>>
  <2>1. customers' = customers
    BY <1>2 DEF Next, Call, ClientStep, RequireCustomer, AcquireLock, ReturnExisting, NoExisting, ReadBalance,
                Insufficient, Unchanged, Duplicate, InsertEntry, Commit, Rollback, Finish
  <2> QED
    BY <1>1, <1>2, <2>1 DEF ensurerVars
<1>3. ASSUME NEW k, DeleteAtProvider(k) \/ ForgetKey(k) PROVE OneLiveCustomer' /\ OneWriter'
  BY <1>1, <1>3 DEF DeleteAtProvider, ForgetKey, vars, ensurerVars
<1>4. ASSUME NEW k \in Customers, MarkCustomerDeleted(k) PROVE OneLiveCustomer' /\ OneWriter'
  <2>1. \A j \in Customers : Live(j)' => Live(j)
    BY <1>4 DEF MarkCustomerDeleted, Live, ReplacementTypeOK, LedgerTypes
  <2>2. Writers' = {}
    BY <1>4 DEF MarkCustomerDeleted, Writers, ensurerVars
  <2> QED
    BY <2>1, <2>2 DEF OneLiveCustomer, OneWriter
<1>5. CASE UNCHANGED replacementVars
  BY <1>1, <1>5 DEF replacementVars, vars, ensurerVars
<1>6. ASSUME NEW e \in Ensurers, EnsureCustomer(e) \/ EnsurerStep(e) \/ RollbackReplacement(e)
      PROVE  OneLiveCustomer' /\ OneWriter'
  <2>1. ASSUME customers' = customers, epc'[e] \notin {"move", "commit"} PROVE OneLiveCustomer' /\ OneWriter'
    <3>1. Writers' \subseteq Writers
      BY <1>6, <2>1, OtherEnsurers DEF Writers
    <3>2. \A f \in Writers' : fresh'[f] = fresh[f] /\ old'[f] = old[f]
      BY <1>6, <2>1, OtherEnsurers DEF Writers
    <3>3. \A f \in Writers' : UpsertAllowed(fresh[f], old[f])
      BY <3>1 DEF OneWriter
    <3>4. \A f \in Writers' : UpsertAllowed(fresh[f], old[f])'
      BY <2>1, <3>2, <3>3 DEF UpsertAllowed, Live
    <3> QED
      BY <2>1, <3>1, <3>4 DEF OneLiveCustomer, OneWriter, Live
  <2>2. CASE RecordCustomer(e)
    <3>1. Writers' = {}
      BY <2>2, OtherEnsurers DEF RecordCustomer, Return, Goto, Writers, ReplacementTypeOK, EnsurerStep
    <3>2. fresh[e] \in Customers
      BY <2>2 DEF RecordCustomer, EnsurerControl
    <3>3. OneLiveCustomer'
      BY <2>2, <3>2, NamesAssumption
      DEF RecordCustomer, OneLiveCustomer, UpsertAllowed, Upserted, Live, ReplacementTypeOK, LedgerTypes
    <3> QED
      BY <3>1, <3>3 DEF OneWriter
  <2>3. CASE SwapCustomers(e)
    <3>1. Writers' = {e} /\ UpsertAllowed(fresh[e], old[e]) /\ UNCHANGED <<customers, old, fresh>>
      BY <2>3, OtherEnsurers DEF SwapCustomers, Goto, Writers, ReplacementTypeOK, EnsurerStep, vars
    <3> QED
      BY <3>1 DEF OneWriter, OneLiveCustomer, UpsertAllowed, Live
  <2>4. CASE MoveLedger(e)
    <3>1. Writers' = Writers /\ UNCHANGED <<customers, old, fresh>>
      BY <2>4 DEF MoveLedger, Goto, Writers, ReplacementTypeOK, vars
    <3> QED
      BY <3>1 DEF OneWriter, OneLiveCustomer, UpsertAllowed, Live
  <2>5. CASE CommitReplacement(e)
    <3>1. e \in Writers /\ old[e] \in Customers /\ fresh[e] \in Customers
      BY <2>5 DEF CommitReplacement, Writers, EnsurerControl, Replacing
    <3>2. Writers' = {}
      BY <2>5, <3>1, OtherEnsurers DEF CommitReplacement, EndReplacement, Return, Goto, Writers, OneWriter,
                                       ReplacementTypeOK, EnsurerStep
    <3>3. UpsertAllowed(fresh[e], old[e])
      BY <3>1 DEF OneWriter
    <3>4. OneLiveCustomer'
      BY <2>5, <3>1, <3>3
      DEF CommitReplacement, OneLiveCustomer, UpsertAllowed, Upserted, Live, ReplacementTypeOK, LedgerTypes
    <3> QED
      BY <3>2, <3>4 DEF OneWriter
  <2>6. CASE RollbackReplacement(e) \/ Refuse(e)
    BY <2>1, <2>6 DEF RollbackReplacement, Refuse, EndReplacement, Return, Goto, ReplacementTypeOK
  <2>7. CASE \/ EnsureCustomer(e) \/ FindCustomer(e) \/ Verify(e) \/ ProviderFails(e)
             \/ CreateCustomer(e) \/ SelectHeld(e) \/ LockLedger(e)
    BY <2>1, <2>7 DEF EnsureCustomer, FindCustomer, Verify, ProviderFails, CreateCustomer, SelectHeld, LockLedger,
                      Return, Goto, ReplacementTypeOK, vars
  <2> QED
    BY <1>6, <2>2, <2>3, <2>4, <2>5, <2>6, <2>7 DEF EnsurerStep
<1> QED
  BY <1>2, <1>3, <1>4, <1>5, <1>6 DEF ReplacementNext

-----------------------------------------------------------------------------
\* The ledger.  Callers only add the row they drafted; a replacement that
\* commits gives rows to its new customer; nothing else writes it.
LEMMA CallerLedger ==
  ASSUME ReplacementInv, Next
  PROVE  ledger' = ledger \/ \E c \in Clients : Commit(c) /\ ledger' = ledger \cup draft[c]
  BY DEF Next, Call, ClientStep, RequireCustomer, AcquireLock, ReturnExisting, NoExisting, ReadBalance,
         Insufficient, Unchanged, Duplicate, InsertEntry, Commit, Rollback

LEMMA LedgerWrites ==
  ASSUME ReplacementInv, [ReplacementNext]_replacementVars
  PROVE  \/ ledger' = ledger
         \/ Next /\ UNCHANGED ensurerVars /\ \E c \in Clients : Commit(c) /\ ledger' = ledger \cup draft[c]
         \/ \E e \in Ensurers : CommitReplacement(e)
<1>1. CASE Next /\ UNCHANGED <<providerVars, ensurerVars>>
  BY <1>1, CallerLedger
<1>2. ASSUME NEW e \in Ensurers, EnsureCustomer(e) \/ EnsurerStep(e) \/ RollbackReplacement(e), ~CommitReplacement(e)
      PROVE  ledger' = ledger
  BY <1>2 DEF EnsureCustomer, EnsurerStep, FindCustomer, Verify, ProviderFails, CreateCustomer, RecordCustomer,
              SelectHeld, LockLedger, SwapCustomers, MoveLedger, Refuse, RollbackReplacement, vars
<1> QED
  BY <1>1, <1>2 DEF ReplacementNext, DeleteAtProvider, MarkCustomerDeleted, ForgetKey, replacementVars, vars

\* What CommitReplacement leaves in the ledger: each row as it was, or moved.
LEMMA CommittedRows ==
  ASSUME ReplacementInv, NEW e \in Ensurers, CommitReplacement(e)
  PROVE  /\ old[e] \in Customers /\ fresh[e] \in Customers
         /\ \A s \in ledger' : \E r \in ledger :
              /\ s.at = r.at /\ s.op = r.op
              /\ \/ r \notin moved[e] /\ s = r
                 \/ r \in moved[e] /\ s = [r EXCEPT !.customer = fresh[e]] /\ s.customer = fresh[e]
         /\ \A r \in ledger \ moved[e] : r \in ledger'
         /\ \A r \in moved[e] : [r EXCEPT !.customer = fresh[e]] \in ledger' /\ r.customer = old[e]
<1>1. old[e] \in Customers /\ fresh[e] \in Customers
  BY DEF CommitReplacement, ReplacementInv, EnsurerControl, Replacing
<1>2. moved[e] \subseteq ledger /\ ledger \subseteq Row /\ \A r \in moved[e] : r.customer = old[e]
  BY DEF ReplacementInv, MovesOwnRows, ReplacementTypeOK, LedgerTypes
<1>3. ledger' = (ledger \ moved[e]) \cup {[r EXCEPT !.customer = fresh[e]] : r \in moved[e]}
  BY DEF CommitReplacement
<1>4. ASSUME NEW s \in ledger'
      PROVE  \E r \in ledger :
              /\ s.at = r.at /\ s.op = r.op
              /\ \/ r \notin moved[e] /\ s = r
                 \/ r \in moved[e] /\ s = [r EXCEPT !.customer = fresh[e]] /\ s.customer = fresh[e]
  <2>1. CASE s \in ledger \ moved[e]
    BY <2>1
  <2>2. ASSUME NEW r \in moved[e], s = [r EXCEPT !.customer = fresh[e]]
        PROVE  s.at = r.at /\ s.op = r.op /\ s.customer = fresh[e] /\ r \in ledger
    BY <1>1, <1>2, <2>2, MovedRowTyped
  <2> QED
    BY <1>3, <2>1, <2>2
<1> QED
  BY <1>1, <1>2, <1>3, <1>4

\* The ledger is finite: a commit adds at most a row, a replacement none.
LEMMA LedgerFiniteStep ==
  ASSUME ReplacementInv, [ReplacementNext]_replacementVars
  PROVE  IsFiniteSet(ledger)'
<1>1. ASSUME NEW c \in Clients, ledger' = ledger \cup draft[c] PROVE IsFiniteSet(ledger')
  <2>1. draft[c] = {} \/ \E r \in draft[c] : draft[c] = {r}
    BY DEF ReplacementInv, RowsApart
  <2>2. IsFiniteSet({}) /\ \A r : IsFiniteSet({r})
    BY FS_EmptySet, FS_Singleton
  <2>3. IsFiniteSet(draft[c])
    <3>1. CASE draft[c] = {}
      BY <2>2, <3>1
    <3>2. ASSUME NEW r, draft[c] = {r} PROVE IsFiniteSet(draft[c])
      BY <2>2, <3>2
    <3> QED
      BY <2>1, <3>1, <3>2
  <2> QED
    BY <1>1, <2>3, FS_Union DEF ReplacementInv
<1>2. ASSUME NEW e \in Ensurers, CommitReplacement(e) PROVE IsFiniteSet(ledger')
  <2> DEFINE give == [r \in moved[e] |-> [r EXCEPT !.customer = fresh[e]]]
             given == {[r EXCEPT !.customer = fresh[e]] : r \in moved[e]}
  <2>1. IsFiniteSet(moved[e])
    BY FS_Subset DEF ReplacementInv, MovesOwnRows
  <2>2. give \in Surjection(moved[e], given)
    BY DEF Surjection
  <2>3. IsFiniteSet(given)
    BY <2>1, <2>2, FS_Surjection
  <2>4. IsFiniteSet(ledger \ moved[e])
    BY FS_Difference DEF ReplacementInv
  <2>5. ledger' = (ledger \ moved[e]) \cup given
    BY <1>2 DEF CommitReplacement
  <2> QED
    BY <2>3, <2>4, <2>5, FS_Union
<1> QED
  BY <1>1, <1>2, LedgerWrites DEF ReplacementInv

LEMMA MovesOwnRowsStep ==
  ASSUME ReplacementInv, [ReplacementNext]_replacementVars
  PROVE  MovesOwnRows'
<1> USE DEF ReplacementInv
<1>1. ASSUME UNCHANGED ensurerVars, ledger \subseteq ledger' PROVE MovesOwnRows'
  BY <1>1 DEF MovesOwnRows, ensurerVars
<1>2. CASE Next /\ UNCHANGED <<providerVars, ensurerVars>>
  BY <1>1, <1>2, CallerLedger
<1>3. ASSUME NEW k, DeleteAtProvider(k) \/ MarkCustomerDeleted(k) \/ ForgetKey(k) PROVE MovesOwnRows'
  BY <1>1, <1>3 DEF DeleteAtProvider, MarkCustomerDeleted, ForgetKey, vars
<1>4. CASE UNCHANGED replacementVars
  BY <1>1, <1>4 DEF replacementVars, vars
<1>5. ASSUME NEW e \in Ensurers, EnsureCustomer(e) \/ EnsurerStep(e) \/ RollbackReplacement(e)
      PROVE  MovesOwnRows'
  <2>1. /\ epc'[e] # "commit" => moved'[e] = {}
        /\ \A r \in moved'[e] : r \in ledger' /\ r.customer = old'[e]
    <3> USE DEF MovesOwnRows, ReplacementTypeOK
    <3>1. CASE EnsureCustomer(e) \/ FindCustomer(e) \/ Verify(e) \/ ProviderFails(e)
      BY <3>1 DEF EnsureCustomer, FindCustomer, Verify, ProviderFails, Return, Goto
    <3>2. CASE CreateCustomer(e) \/ RecordCustomer(e)
      BY <3>2 DEF CreateCustomer, RecordCustomer, Return, Goto
    <3>3. CASE SelectHeld(e) \/ LockLedger(e) \/ SwapCustomers(e)
      BY <3>3 DEF SelectHeld, LockLedger, SwapCustomers, Goto
    <3>4. CASE MoveLedger(e)
      BY <3>4 DEF MoveLedger, Goto, vars
    <3>5. CASE EndReplacement(e)
      BY <3>5 DEF EndReplacement, Return, Goto
    <3> QED
      BY <1>5, <3>1, <3>2, <3>3, <3>4, <3>5 DEF EnsurerStep, CommitReplacement, Refuse, RollbackReplacement
  <2>2. ASSUME NEW f \in Ensurers, f # e
        PROVE  /\ epc'[f] # "commit" => moved'[f] = {}
               /\ \A r \in moved'[f] : r \in ledger' /\ r.customer = old'[f]
    <3>1. epc'[f] = epc[f] /\ moved'[f] = moved[f] /\ old'[f] = old[f]
      BY <1>5, <2>2, OtherEnsurers
    <3>2. CASE CommitReplacement(e)
      BY <2>2, <3>1, <3>2 DEF CommitReplacement, MovesOwnRows, OneWriter, Writers
    <3>3. CASE ledger' = ledger
      BY <3>1, <3>3 DEF MovesOwnRows
    <3>4. CommitReplacement(e) \/ ledger' = ledger
      BY <1>5 DEF EnsureCustomer, EnsurerStep, FindCustomer, Verify, ProviderFails, CreateCustomer, RecordCustomer,
                  SelectHeld, LockLedger, SwapCustomers, MoveLedger, Refuse, RollbackReplacement, vars
    <3> QED
      BY <3>2, <3>3, <3>4
  <2> QED
    BY <2>1, <2>2 DEF MovesOwnRows
<1> QED
  BY <1>2, <1>3, <1>4, <1>5 DEF ReplacementNext

-----------------------------------------------------------------------------
\* Rows and drafts stay apart in time and key through the steps of a caller ...
LEMMA CallerRowsApart ==
  ASSUME LedgerTypes(Holders), RowsApart, KeysApart, Next
  PROVE  RowsApart' /\ KeysApart'
<1> USE DEF LedgerTypes
<1>1. PICK c \in Clients : (\E op \in Ops : Call(c, op)) \/ ClientStep(c) \/ Rollback(c)
  BY DEF Next
<1>2. ASSUME NEW d \in Clients, d # c
      PROVE  pc'[d] = pc[d] /\ call'[d] = call[d] /\ customer'[d] = customer[d] /\ draft'[d] = draft[d]
  BY <1>1, <1>2 DEF Call, ClientStep, RequireCustomer, AcquireLock, ReturnExisting, NoExisting, ReadBalance,
                    Insufficient, Unchanged, Duplicate, InsertEntry, Commit, Rollback, Finish
<1>3. CASE UNCHANGED <<ledger, clock>> /\ pc'[c] # "commit" /\ draft'[c] = {}
  <2>1. RowsApart'
    BY <1>2, <1>3 DEF RowsApart, Stamped
  <2>2. KeysApart'
    BY <1>2, <1>3 DEF KeysApart, KeyAppliedOnce, UsedBy
  <2> QED
    BY <2>1, <2>2
<1>4. CASE InsertEntry(c)
  <2> DEFINE r == NewRow(c)
  <2>1. /\ r.at = clock + 1 /\ r.op = call[c] /\ r.customer = customer[c]
        /\ clock' = clock + 1 /\ draft'[c] = {r} /\ pc'[c] = "commit"
        /\ UNCHANGED <<ledger, call, customer>>
    BY <1>4 DEF InsertEntry, NewRow
  <2>2. /\ clock \in Nat
        /\ \A s \in ledger : s.at \in Nat /\ s.at <= clock
        /\ \A d \in Clients : \A s \in draft[d] : s.at \in Nat /\ s.at <= clock
    BY DEF RowsApart, Stamped, Row
  <2>3. ~UsedBy(call[c].key, ledger) /\ \A d \in Clients \ {c} : ~UsedBy(call[c].key, draft[d])
    BY <1>4 DEF InsertEntry, Writes, WaitsForDuplicate
  <2> HIDE DEF r
  <2>4. Stamped'
    BY <1>2, <2>1, <2>2 DEF Stamped
  <2>5. ASSUME NEW d \in Clients
        PROVE  /\ pc'[d] # "commit" => draft'[d] = {}
               /\ \A s \in draft'[d] :
                    /\ draft'[d] = {s}
                    /\ s.op = call'[d] /\ s.customer = customer'[d]
                    /\ \A t \in ledger' : t.at # s.at
                    /\ \A b \in Clients \ {d} : \A t \in draft'[b] : t.at # s.at
    BY <1>2, <2>1, <2>2 DEF RowsApart
  <2>6. RowsApart'
    BY <2>1, <2>4, <2>5 DEF RowsApart
  <2>7. KeysApart'
    BY <1>2, <2>1, <2>3 DEF KeysApart, KeyAppliedOnce, UsedBy
  <2> QED
    BY <2>6, <2>7
<1>5. CASE Commit(c)
  <2>1. /\ ledger' = ledger \cup draft[c] /\ clock' = clock /\ draft'[c] = {} /\ pc'[c] # "commit"
    BY <1>5 DEF Commit, Finish
  <2>2. Stamped'
    BY <1>2, <2>1 DEF RowsApart, Stamped
  <2>3. \A s, t \in ledger' : s.at = t.at => s = t
    BY <2>1 DEF RowsApart
  <2>4. ASSUME NEW d \in Clients
        PROVE  /\ pc'[d] # "commit" => draft'[d] = {}
               /\ \A s \in draft'[d] :
                    /\ draft'[d] = {s}
                    /\ s.op = call'[d] /\ s.customer = customer'[d]
                    /\ \A t \in ledger' : t.at # s.at
                    /\ \A b \in Clients \ {d} : \A t \in draft'[b] : t.at # s.at
    BY <1>2, <2>1 DEF RowsApart
  <2>5. RowsApart'
    BY <2>2, <2>3, <2>4 DEF RowsApart
  <2>6. KeysApart'
    BY <1>2, <2>1 DEF RowsApart, KeysApart, KeyAppliedOnce, UsedBy
  <2> QED
    BY <2>5, <2>6
<1>6. CASE \/ \E op \in Ops : Call(c, op)
           \/ RequireCustomer(c) \/ AcquireLock(c) \/ NoExisting(c) \/ ReadBalance(c)
  BY <1>3, <1>6 DEF Call, RequireCustomer, AcquireLock, NoExisting, ReadBalance, RowsApart
<1>7. CASE ReturnExisting(c) \/ Insufficient(c) \/ Unchanged(c) \/ Duplicate(c) \/ Rollback(c)
  BY <1>3, <1>7 DEF ReturnExisting, Insufficient, Unchanged, Duplicate, Rollback, Finish
<1> QED
  BY <1>1, <1>4, <1>5, <1>6, <1>7 DEF ClientStep

\* ... and through a replacement, which changes neither.
LEMMA RowsApartStep ==
  ASSUME ReplacementInv, [ReplacementNext]_replacementVars
  PROVE  RowsApart' /\ KeysApart'
<1>1. CASE Next
  BY <1>1, CallerRowsApart DEF ReplacementInv, ReplacementTypeOK, Holders
<1>2. ASSUME UNCHANGED <<ledger, clock, callerVars>> PROVE RowsApart' /\ KeysApart'
  BY <1>2 DEF ReplacementInv, RowsApart, Stamped, KeysApart, KeyAppliedOnce, UsedBy, callerVars
<1>3. ASSUME NEW e \in Ensurers, CommitReplacement(e) PROVE RowsApart' /\ KeysApart'
  <2>1. UNCHANGED <<clock, callerVars>>
    BY <1>3 DEF CommitReplacement, EndReplacement
  <2>2. \A s \in ledger' : \E r \in ledger : s.at = r.at /\ s.op = r.op
    BY <1>3, CommittedRows
  <2>3. \A s, t \in ledger' : s.at = t.at \/ (s.op.key = t.op.key /\ s.op.key # NoKey) => s = t
    <3> SUFFICES ASSUME NEW s \in ledger', NEW t \in ledger',
                        s.at = t.at \/ (s.op.key = t.op.key /\ s.op.key # NoKey)
                 PROVE  s = t
      OBVIOUS
    <3>1. PICK q \in ledger : /\ s.at = q.at /\ s.op = q.op
                              /\ \/ q \notin moved[e] /\ s = q
                                 \/ q \in moved[e] /\ s = [q EXCEPT !.customer = fresh[e]]
      BY <1>3, CommittedRows
    <3>2. PICK r \in ledger : /\ t.at = r.at /\ t.op = r.op
                              /\ \/ r \notin moved[e] /\ t = r
                                 \/ r \in moved[e] /\ t = [r EXCEPT !.customer = fresh[e]]
      BY <1>3, CommittedRows
    <3>3. q = r
      BY <3>1, <3>2 DEF ReplacementInv, RowsApart, KeysApart, KeyAppliedOnce
    <3> QED
      BY <3>1, <3>2, <3>3
  <2>4. RowsApart'
    BY <2>1, <2>2, <2>3 DEF ReplacementInv, RowsApart, Stamped, callerVars
  <2>5. KeysApart'
    BY <2>1, <2>2, <2>3 DEF ReplacementInv, KeysApart, KeyAppliedOnce, UsedBy, callerVars
  <2> QED
    BY <2>4, <2>5
<1>4. ASSUME NEW e \in Ensurers, EnsureCustomer(e) \/ EnsurerStep(e) \/ RollbackReplacement(e), ~CommitReplacement(e)
      PROVE  UNCHANGED <<ledger, clock, callerVars>>
  BY <1>4 DEF EnsureCustomer, EnsurerStep, FindCustomer, Verify, ProviderFails, CreateCustomer, RecordCustomer,
              SelectHeld, LockLedger, SwapCustomers, MoveLedger, Refuse, RollbackReplacement, EndReplacement, vars
<1>5. ASSUME NEW k, DeleteAtProvider(k) \/ MarkCustomerDeleted(k) \/ ForgetKey(k)
      PROVE  UNCHANGED <<ledger, clock, callerVars>>
  BY <1>5 DEF DeleteAtProvider, MarkCustomerDeleted, ForgetKey, vars
<1>6. CASE UNCHANGED replacementVars
  BY <1>2, <1>6 DEF replacementVars, vars
<1> QED
  BY <1>1, <1>2, <1>3, <1>4, <1>5, <1>6 DEF ReplacementNext

-----------------------------------------------------------------------------
\* What a replacement found stays apart until its transaction is over.
LEMMA HeldApartStep ==
  ASSUME ReplacementInv, [ReplacementNext]_replacementVars
  PROVE  HeldApart'
<1>1. CASE held' = held
  BY <1>1 DEF ReplacementInv, HeldApart
<1>2. ASSUME NEW e \in Ensurers, EnsurerStep(e) \/ RollbackReplacement(e),
             \A i, j \in 1..Len(held'[e]) : held'[e][i] = held'[e][j] => i = j
      PROVE  HeldApart'
  <2> SUFFICES ASSUME NEW f \in Ensurers
               PROVE  \A i, j \in 1..Len(held'[f]) : held'[f][i] = held'[f][j] => i = j
    BY DEF HeldApart
  <2>1. f # e => held'[f] = held[f]
    BY <1>2, OtherEnsurers
  <2> QED
    BY <1>2, <2>1 DEF ReplacementInv, HeldApart
<1>3. ASSUME NEW e \in Ensurers, SelectHeld(e) PROVE HeldApart'
  BY <1>2, <1>3, HeldFound DEF EnsurerStep
<1>4. ASSUME NEW e \in Ensurers, EndReplacement(e), EnsurerStep(e) \/ RollbackReplacement(e) PROVE HeldApart'
  <2>1. held'[e] = <<>>
    BY <1>4 DEF EndReplacement, ReplacementInv, ReplacementTypeOK
  <2> QED
    BY <1>2, <1>4, <2>1
<1>5. ASSUME NEW e \in Ensurers, EnsureCustomer(e) \/ EnsurerStep(e) \/ RollbackReplacement(e),
             ~SelectHeld(e), ~EndReplacement(e)
      PROVE  held' = held
  BY <1>5 DEF EnsureCustomer, EnsurerStep, FindCustomer, Verify, ProviderFails, CreateCustomer, RecordCustomer,
              LockLedger, SwapCustomers, MoveLedger, CommitReplacement, Refuse, RollbackReplacement
<1>6. ASSUME NEW e \in Ensurers, EnsureCustomer(e) PROVE held' = held
  BY <1>6 DEF EnsureCustomer
<1> QED
  BY <1>1, <1>3, <1>4, <1>5, <1>6 DEF ReplacementNext, DeleteAtProvider, MarkCustomerDeleted, ForgetKey,
                                      replacementVars, ensurerVars

\* A caller takes the lock of its account and frees it when its transaction ends.
LEMMA CallersOwnLocks ==
  ASSUME ReplacementInv, Next, UNCHANGED ensurerVars
  PROVE  LocksOwned'
<1>1. LedgerTypes(Holders) /\ LocksOwned /\ Control /\ Clients \subseteq Holders /\ Free \in Holders
  BY DEF ReplacementInv, ReplacementTypeOK, Holders
<1>2. CallerLocks'
  BY <1>1, CallerLocksStep DEF LocksOwned
<1>3. ASSUME NEW a \in Accounts, lock'[a] \in Ensurers PROVE lock'[a] = lock[a]
  <2>1. PICK c \in Clients : lock'[a] = lock[a] \/ lock'[a] = Free \/ lock'[a] = c
    BY <1>1, LockMoves DEF LocksOwned
  <2> QED
    BY <1>3, <2>1, EnsurersAssumption
<1> QED
  BY <1>1, <1>2, <1>3 DEF LocksOwned, ensurerVars

\* A replacement takes one lock after the other and frees them all at its end.
LEMMA ReplacementOwnsLocks ==
  ASSUME ReplacementInv, NEW e \in Ensurers, EnsurerStep(e) \/ RollbackReplacement(e), UNCHANGED callerVars
  PROVE  LocksOwned'
<1>1. LedgerTypes(Holders) /\ LocksOwned
  BY DEF ReplacementInv, ReplacementTypeOK, Holders
<1>2. /\ epc[e] \in EnsurerSteps /\ taken[e] \in Nat
      /\ epc[e] \notin {"locks", "move", "commit"} => taken[e] = 0
  BY DEF ReplacementInv, ReplacementTypeOK, EnsurerControl
<1>3. ASSUME \A a \in Accounts :
               \/ lock'[a] = lock[a] /\ lock[a] # e
               \/ lock'[a] = Free
               \/ lock'[a] = e /\ epc'[e] \in {"locks", "move", "commit"}
                    /\ \E i \in 1..taken'[e] : a = <<old'[e], held'[e][i]>>
      PROVE  LocksOwned'
  <2> SUFFICES ASSUME NEW a \in Accounts
               PROVE  /\ \A c \in Clients : lock'[a] = c => pc'[c] \in InTransaction /\ a = AccountOf(c)'
                      /\ \A f \in Ensurers : lock'[a] = f =>
                           /\ epc'[f] \in {"locks", "move", "commit"}
                           /\ \E i \in 1..taken'[f] : a = <<old'[f], held'[f][i]>>
    BY DEF LocksOwned, CallerLocks
  <2>1. \A c \in Clients : pc'[c] = pc[c] /\ AccountOf(c)' = AccountOf(c)
    BY DEF callerVars, AccountOf
  <2>2. \A f \in Ensurers \ {e} : epc'[f] = epc[f] /\ old'[f] = old[f] /\ held'[f] = held[f] /\ taken'[f] = taken[f]
    BY OtherEnsurers
  <2>3. Free \notin Clients /\ Free \notin Ensurers /\ e \notin Clients
    BY NamesAssumption, EnsurersAssumption
  <2>4. CASE lock'[a] = lock[a] /\ lock[a] # e
    BY <1>1, <2>1, <2>2, <2>4 DEF LocksOwned, CallerLocks
  <2>5. CASE lock'[a] = Free
    BY <2>3, <2>5
  <2>6. CASE lock'[a] = e /\ epc'[e] \in {"locks", "move", "commit"}
               /\ \E i \in 1..taken'[e] : a = <<old'[e], held'[e][i]>>
    BY <2>3, <2>6
  <2> QED
    BY <1>3, <2>4, <2>5, <2>6
<1>4. ASSUME epc[e] \notin {"locks", "move", "commit"}, UNCHANGED lock PROVE LocksOwned'
  <2>1. \A a \in Accounts : lock[a] # e
    BY <1>1, <1>4 DEF LocksOwned
  <2> QED
    BY <1>3, <1>4, <2>1
<1>5. CASE LockLedger(e)
  <2>1. /\ UNCHANGED <<epc, old, held>> /\ epc[e] = "locks"
        /\ taken'[e] = taken[e] + 1 /\ NextLock(e) = <<old[e], held[e][taken[e] + 1]>>
        /\ lock' = [lock EXCEPT ![NextLock(e)] = e]
    BY <1>5 DEF LockLedger, NextLock, ReplacementInv, ReplacementTypeOK
  <2>2. taken[e] + 1 \in 1..taken'[e] /\ 1..taken[e] \subseteq 1..taken'[e]
    BY <1>2, <2>1
  <2>3. ASSUME NEW a \in Accounts, lock[a] = e PROVE \E i \in 1..taken'[e] : a = <<old'[e], held'[e][i]>>
    BY <1>1, <2>1, <2>2, <2>3 DEF LocksOwned
  <2>4. \A a \in Accounts : lock'[a] = IF a = NextLock(e) THEN e ELSE lock[a]
    BY <1>1, <2>1 DEF LedgerTypes
  <2>5. ASSUME NEW a \in Accounts, a = NextLock(e)
        PROVE  lock'[a] = e /\ \E i \in 1..taken'[e] : a = <<old'[e], held'[e][i]>>
    BY <2>1, <2>2, <2>4, <2>5
  <2> QED
    BY <1>3, <2>1, <2>3, <2>4, <2>5
<1>6. CASE EndReplacement(e)
  BY <1>1, <1>3, <1>6 DEF EndReplacement, LedgerTypes
<1>7. ASSUME UNCHANGED <<lock, old, held, taken>>, epc[e] \in {"locks", "move", "commit"},
             epc'[e] \in {"locks", "move", "commit"}
      PROVE  LocksOwned'
  BY <1>1, <1>3, <1>7 DEF LocksOwned
<1>8. CASE SwapCustomers(e) \/ MoveLedger(e)
  <2>1. epc' = [epc EXCEPT ![e] = epc'[e]] /\ epc'[e] \in {"move", "commit"} /\ epc[e] \in {"locks", "move"}
    BY <1>8 DEF SwapCustomers, MoveLedger, Goto, ReplacementInv, ReplacementTypeOK
  <2> QED
    BY <1>7, <1>8, <2>1 DEF SwapCustomers, MoveLedger, vars
<1>9. CASE FindCustomer(e) \/ Verify(e) \/ ProviderFails(e) \/ CreateCustomer(e) \/ RecordCustomer(e) \/ SelectHeld(e)
  BY <1>4, <1>9 DEF FindCustomer, Verify, ProviderFails, CreateCustomer, RecordCustomer, SelectHeld, vars
<1> QED
  BY <1>5, <1>6, <1>8, <1>9 DEF EnsurerStep, CommitReplacement, Refuse, RollbackReplacement

LEMMA LocksOwnedStep ==
  ASSUME ReplacementInv, [ReplacementNext]_replacementVars
  PROVE  LocksOwned'
<1>1. CASE Next /\ UNCHANGED <<providerVars, ensurerVars>>
  BY <1>1, CallersOwnLocks
<1>2. ASSUME NEW e \in Ensurers, EnsurerStep(e) \/ RollbackReplacement(e) PROVE LocksOwned'
  <2>1. UNCHANGED callerVars
    BY <1>2 DEF EnsurerStep, FindCustomer, Verify, ProviderFails, CreateCustomer, RecordCustomer, SelectHeld,
                LockLedger, SwapCustomers, MoveLedger, CommitReplacement, Refuse, RollbackReplacement,
                EndReplacement, vars
  <2> QED
    BY <1>2, <2>1, ReplacementOwnsLocks
<1>3. ASSUME UNCHANGED <<lock, callerVars, ensurerVars>> PROVE LocksOwned'
  BY <1>3 DEF ReplacementInv, LocksOwned, CallerLocks, AccountOf, callerVars, ensurerVars
<1>4. ASSUME NEW e \in Ensurers, EnsureCustomer(e) PROVE LocksOwned'
  <2>1. /\ epc[e] = "idle" /\ UNCHANGED <<lock, callerVars, old, held, taken>>
        /\ \A f \in Ensurers \ {e} : epc'[f] = epc[f]
    BY <1>4 DEF EnsureCustomer, Goto, vars, ReplacementInv, ReplacementTypeOK
  <2>2. \A a \in Accounts : lock[a] # e
    BY <2>1 DEF ReplacementInv, LocksOwned
  <2> QED
    BY <2>1, <2>2 DEF ReplacementInv, LocksOwned, CallerLocks, AccountOf, callerVars
<1>5. ASSUME NEW k, DeleteAtProvider(k) \/ MarkCustomerDeleted(k) \/ ForgetKey(k) PROVE LocksOwned'
  BY <1>3, <1>5 DEF DeleteAtProvider, MarkCustomerDeleted, ForgetKey, vars
<1> QED
  BY <1>1, <1>2, <1>3, <1>4, <1>5 DEF ReplacementNext, replacementVars, vars

-----------------------------------------------------------------------------
LEMMA ReplacementInvInit == ReplacementInit => ReplacementInv
<1> SUFFICES ASSUME ReplacementInit PROVE ReplacementInv
  OBVIOUS
<1>1. Control /\ EnsurerControl /\ MovesOwnRows
  BY DEF ReplacementInit, Init, Control, EnsurerControl, MovesOwnRows, InTransaction, Replacing
<1>2. OneLiveCustomer /\ OneWriter
  BY DEF ReplacementInit, Init, OneLiveCustomer, OneWriter, Writers, Live
<1>3. RowsApart /\ KeysApart
  BY DEF ReplacementInit, Init, RowsApart, Stamped, KeysApart, KeyAppliedOnce
<1>4. HeldApart /\ LocksOwned /\ IsFiniteSet(ledger)
  BY FS_EmptySet, NamesAssumption, EnsurersAssumption DEF ReplacementInit, Init, HeldApart, LocksOwned, CallerLocks
<1> QED
  BY <1>1, <1>2, <1>3, <1>4, ReplacementTypeInit DEF ReplacementInv

\* ReplacementInv is an inductive invariant of the composition.
THEOREM ReplacementInvariant == ReplacementSpec => []ReplacementInv
<1>1. ReplacementInv /\ [ReplacementNext]_replacementVars => ReplacementInv'
  BY ReplacementTypeStep, ReplacementControlStep, EnsurerControlStep, CustomersStep, MovesOwnRowsStep,
     RowsApartStep, LedgerFiniteStep, HeldApartStep, LocksOwnedStep DEF ReplacementInv
<1> QED
  BY ReplacementInvInit, <1>1, PTL DEF ReplacementSpec

\* The tenant never has two live customers, for any number of concurrent
\* ensureCustomer calls, replacements that race, and webhooks: the unique index
\* is checked by a writer that excludes every other one until it commits.
THEOREM OneLiveCustomerHolds == ReplacementSpec => []OneLiveCustomer
BY ReplacementInvariant, PTL DEF ReplacementInv

\* A key is applied at most once even while the entries that carry it move to
\* another customer.
THEOREM KeyAppliedOnceWhileReplacing == ReplacementSpec => []KeyAppliedOnce
<1>1. ReplacementInv => KeyAppliedOnce
  BY DEF ReplacementInv, KeysApart
<1> QED
  BY ReplacementInvariant, <1>1, PTL

\* An entry is itself; two entries of the same time are the same entry.
LEMMA SameTime ==
  ASSUME NEW r \in Row, NEW s, SameEntry(r, s)
  PROVE  s.at = r.at
  BY DEF SameEntry, Row

LEMMA RowsPreservedStep ==
  ASSUME ReplacementInv, [ReplacementNext]_replacementVars, NEW r \in ledger
  PROVE  \E s \in ledger' :
           /\ SameEntry(r, s)
           /\ \A t \in ledger' : SameEntry(r, t) => t = s
           /\ s.customer = r.customer
                \/ \E e \in Ensurers : old[e] = r.customer /\ fresh[e] = s.customer
<1>1. r \in Row
  BY DEF ReplacementInv, ReplacementTypeOK, LedgerTypes
<1>2. \A t, s \in ledger' : t.at = s.at => t = s
  BY RowsApartStep DEF RowsApart
<1>3. ASSUME NEW s \in ledger', SameEntry(r, s) PROVE \A t \in ledger' : SameEntry(r, t) => t = s
  BY <1>1, <1>2, <1>3, SameTime
<1>4. CASE r \in ledger'
  <2>1. SameEntry(r, r)
    BY <1>1 DEF SameEntry, Row
  <2> QED
    BY <1>3, <1>4, <2>1
<1>5. ASSUME NEW e \in Ensurers, CommitReplacement(e), r \notin ledger'
      PROVE  \E s \in ledger' : SameEntry(r, s) /\ old[e] = r.customer /\ fresh[e] = s.customer
  <2>1. r \in moved[e] /\ fresh[e] \in Customers
    BY <1>5, CommittedRows
  <2> DEFINE s == [r EXCEPT !.customer = fresh[e]]
  <2>2. s \in ledger' /\ old[e] = r.customer
    BY <1>5, <2>1, CommittedRows
  <2>3. s.customer = fresh[e]
    BY <1>1, <2>1, MovedRowTyped
  <2> QED
    BY <2>2, <2>3 DEF SameEntry
<1> QED
  BY <1>3, <1>4, <1>5, LedgerWrites

\* Replacing a customer neither loses, duplicates nor rewrites an entry: at
\* every step each row goes on as exactly one row, differing at most in its
\* customer, and then the one an ensurer is replacing the old one by.
THEOREM RowsPreservedHolds == ReplacementSpec => RowsPreserved
<1>1. ReplacementInv /\ [ReplacementNext]_replacementVars =>
        [\A r \in ledger :
           \E s \in ledger' :
             /\ SameEntry(r, s)
             /\ \A t \in ledger' : SameEntry(r, t) => t = s
             /\ s.customer = r.customer
                  \/ \E e \in Ensurers : old[e] = r.customer /\ fresh[e] = s.customer
        ]_replacementVars
  BY RowsPreservedStep
<1> QED
  BY ReplacementInvariant, <1>1, PTL DEF ReplacementSpec, RowsPreserved

\* The caller that commits holds the lock of its account, and a replacement
\* that moves entries holds that of each currency it found: they cannot meet.
LEMMA NoWriteLandsStep ==
  ASSUME ReplacementInv, [ReplacementNext]_replacementVars,
         NEW e \in Ensurers, epc[e] \in {"move", "commit"}, epc'[e] # "idle",
         NEW r \in ledger' \ ledger, r.customer = old[e]
  PROVE  r.op.currency \notin Range(held[e])
<1> USE DEF ReplacementInv
<1>1. ASSUME NEW f \in Ensurers, CommitReplacement(f) PROVE FALSE
  <2>1. f = e
    BY <1>1 DEF OneWriter, Writers, CommitReplacement
  <2> QED
    BY <1>1, <2>1 DEF CommitReplacement, EndReplacement, Return, Goto, ReplacementTypeOK
<1>2. PICK c \in Clients : Commit(c) /\ ledger' = ledger \cup draft[c]
  BY <1>1, LedgerWrites
<1>3. r.op = call[c] /\ r.customer = customer[c]
  BY <1>2 DEF RowsApart
<1>4. lock[AccountOf(c)] = c
  BY <1>2 DEF Control, Commit, InTransaction
<1>5. ASSUME r.op.currency \in Range(held[e]) PROVE FALSE
  <2>1. held[e] \in Seq(Currencies) /\ taken[e] = Len(held[e])
    BY DEF ReplacementTypeOK, EnsurerControl
  <2>2. PICK i \in 1..taken[e] : held[e][i] = r.op.currency
    BY <1>5, <2>1, LenProperties DEF Range
  <2>3. lock[<<old[e], r.op.currency>>] = e
    BY <2>2 DEF EnsurerControl
  <2> QED
    BY <1>3, <1>4, <2>3, EnsurersAssumption DEF AccountOf
<1> QED
  BY <1>5

\* "No write lands on it while its entries move": while a replacement is
\* between marking the customer and its commit, no row is added to the old
\* customer in a currency it had entries in, whoever writes.
THEOREM NoWriteLandsWhileMovingHolds == ReplacementSpec => NoWriteLandsWhileMoving
<1>1. ReplacementInv /\ [ReplacementNext]_replacementVars =>
        [\A e \in Ensurers :
           (epc[e] \in {"move", "commit"} /\ epc'[e] # "idle") =>
             \A r \in ledger' \ ledger :
               r.customer = old[e] => r.op.currency \notin Range(held[e])
        ]_replacementVars
  BY NoWriteLandsStep
<1> QED
  BY ReplacementInvariant, <1>1, PTL DEF ReplacementSpec, NoWriteLandsWhileMoving

-----------------------------------------------------------------------------
\* Waiting.  Follow the waiters of a finite set from one to the next: some of
\* them stand in a circle.
LEMMA CycleOfWaits ==
  ASSUME NEW S, IsFiniteSet(S), S # {}, NEW next \in [S -> S]
  PROVE  \E T \in SUBSET S : T # {} /\ \E g \in Bijection(T, T) : \A x \in T : g[x] = next[x]
<1> DEFINE Closed == {T \in SUBSET S : T # {} /\ \A x \in T : next[x] \in T}
           sizes == {Cardinality(T) : T \in Closed}
<1>1. sizes \in SUBSET Nat
  BY FS_Subset, FS_CardinalityType
<1>2. sizes # {}
  <2>1. S \in Closed
    OBVIOUS
  <2> QED
    BY <2>1
<1>3. PICK T \in Closed : \A U \in Closed : Cardinality(T) <= Cardinality(U)
  <2>1. PICK n \in sizes : \A m \in sizes : n <= m
    BY <1>1, <1>2, LeastNat
  <2> QED
    BY <2>1
<1> DEFINE image == {next[x] : x \in T}
           g == [x \in T |-> next[x]]
<1>4. image \in Closed /\ image \subseteq T
  <2>1. image \subseteq T /\ T \subseteq S /\ T # {}
    BY <1>3
  <2>2. image # {}
    BY <2>1
  <2>3. \A y \in image : next[y] \in image
    BY <2>1
  <2> QED
    BY <2>1, <2>2, <2>3
<1>5. IsFiniteSet(T) /\ IsFiniteSet(image) /\ Cardinality(image) <= Cardinality(T)
  BY <1>3, <1>4, FS_Subset
<1>6. Cardinality(image) = Cardinality(T)
  <2>1. Cardinality(T) <= Cardinality(image) /\ Cardinality(T) \in Nat /\ Cardinality(image) \in Nat
    BY <1>3, <1>4, <1>5, FS_CardinalityType
  <2> QED
    BY <1>5, <2>1
<1>7. image = T
  BY <1>4, <1>5, <1>6, FS_Subset
<1>8. g \in Surjection(T, T)
  <2>1. g \in [T -> T]
    BY <1>3
  <2>2. \A y \in T : \E x \in T : g[x] = y
    BY <1>7
  <2> QED
    BY <2>1, <2>2 DEF Surjection
<1>9. g \in Bijection(T, T)
  BY <1>5, <1>8, FS_SurjSameCardinalityImpliesInj DEF Bijection
<1> QED
  BY <1>3, <1>9

\* The lock a replacement waits for is not one of those it has.
LEMMA WaitsForAnother ==
  ASSUME ReplacementInv, NEW e \in Ensurers, epc[e] = "locks", LocksLeft(e)
  PROVE  lock[NextLock(e)] # e
<1>1. held[e] \in Seq(Currencies) /\ taken[e] \in Nat
  BY DEF ReplacementInv, ReplacementTypeOK
<1>2. taken[e] + 1 \in 1..Len(held[e]) /\ 1..taken[e] \subseteq 1..Len(held[e])
  BY <1>1, LenProperties DEF LocksLeft
<1> SUFFICES ASSUME lock[NextLock(e)] = e PROVE FALSE
  OBVIOUS
<1>3. PICK i \in 1..taken[e] : NextLock(e) = <<old[e], held[e][i]>>
  BY NextLockTyped DEF ReplacementInv, LocksOwned
<1>4. i = taken[e] + 1
  BY <1>2, <1>3 DEF NextLock, ReplacementInv, HeldApart
<1> QED
  BY <1>1, <1>3, <1>4

LEMMA NotAllWait ==
  ASSUME ReplacementInv,
         \A c \in Clients : pc[c] # "idle" => CallerWaits(c),
         \A e \in Ensurers : epc[e] # "idle" => EnsurerWaits(e)
  PROVE  /\ \A c \in Clients : pc[c] = "idle"
         /\ \A e \in Ensurers : epc[e] = "idle"
<1> DEFINE Busy == {e \in Ensurers : epc[e] # "idle"}
<1>1. /\ LedgerTypes(Holders) /\ Control /\ LocksOwned
      /\ \A c \in Clients : pc[c] # "commit" => draft[c] = {}
  BY DEF ReplacementInv, ReplacementTypeOK, Holders, RowsApart
<1>2. \A c \in Clients : pc[c] # "idle" => pc[c] = "lock" /\ lock[AccountOf(c)] # Free
  BY <1>1, WaitersBeforeTransactions
<1>3. ASSUME NEW a \in Accounts, lock[a] # Free PROVE lock[a] \in Busy
  <2>1. lock[a] \in Clients \cup Ensurers
    BY <1>1, <1>3 DEF LedgerTypes, Holders
  <2>2. lock[a] \notin Clients
    BY <1>1, <1>2 DEF LocksOwned, CallerLocks, InTransaction
  <2> QED
    BY <1>1, <2>1, <2>2 DEF LocksOwned
<1>4. Writers = {}
  BY DEF Writers, EnsurerWaits
<1>5. ASSUME NEW e \in Busy
      PROVE  /\ epc[e] = "locks" /\ LocksLeft(e) /\ ~Deadlocked(e)
             /\ lock[NextLock(e)] \in Busy /\ lock[NextLock(e)] # e
  <2>1. epc[e] = "locks" /\ LocksLeft(e) /\ ~Deadlocked(e) /\ lock[NextLock(e)] # Free
    BY <1>4 DEF EnsurerWaits
  <2> QED
    BY <1>3, <2>1, NextLockTyped, WaitsForAnother
<1>6. Busy = {}
  <2> SUFFICES ASSUME Busy # {} PROVE FALSE
    OBVIOUS
  <2> DEFINE next == [e \in Busy |-> lock[NextLock(e)]]
  <2>1. next \in [Busy -> Busy]
    BY <1>5
  <2>2. IsFiniteSet(Busy)
    BY EnsurersAssumption, FS_Subset
  <2>3. PICK circle \in SUBSET Busy :
          circle # {} /\ \E g \in Bijection(circle, circle) : \A f \in circle : g[f] = next[f]
    <3> HIDE DEF next, Busy
    <3> QED
      BY <2>1, <2>2, CycleOfWaits
  <2>4. PICK g \in Bijection(circle, circle) : \A f \in circle : g[f] = lock[NextLock(f)]
    BY <2>3
  <2>5. \A f \in circle : WaitsFor(f, g[f])
    BY <1>5, <2>4 DEF WaitsFor
  <2>6. \A f \in circle : Deadlocked(f)
    BY <2>4, <2>5 DEF Deadlocked
  <2> QED
    BY <1>5, <2>3, <2>6
<1>7. ASSUME NEW c \in Clients, pc[c] # "idle" PROVE FALSE
  <2>1. pc[c] = "lock" /\ lock[AccountOf(c)] # Free
    BY <1>2, <1>7
  <2>2. AccountOf(c) \in Accounts
    <3>1. Clients \subseteq Holders /\ Free \in Holders
      BY DEF Holders
    <3> QED
      BY <1>1, <2>1, <3>1, AccountTyped
  <2> QED
    BY <1>3, <1>6, <2>1, <2>2
<1> QED
  BY <1>6, <1>7

\* Callers and ensurers never all wait for each other, however many there are:
\* whoever holds a lock is in a transaction, nobody waits for a lock of its
\* own, and replacements that wait in a circle are refused.
THEOREM SomeoneProceedsHolds == ReplacementSpec => []SomeoneProceeds
<1>1. ReplacementInv => SomeoneProceeds
  BY NotAllWait DEF SomeoneProceeds
<1> QED
  BY ReplacementInvariant, <1>1, PTL
===============================================================================
