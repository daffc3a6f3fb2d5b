------------------------- MODULE CreditLedgerProofs -------------------------
(***************************************************************************)
(* Proofs about CreditLedger for any callers, customers, currencies, keys, *)
(* operations and number of calls.  The inductive invariant LedgerInv adds *)
(* to the properties what keeps them true: a transaction holds the lock of *)
(* its account (Control), so the balance it read is still the balance when *)
(* it writes (Fresh) and its row will be the newest of the account (Drafts)*)
(***************************************************************************)
EXTENDS CreditLedger, SumLemmas

\* Where a caller is determines what it knows and what it holds.
Control ==
  \A c \in Clients :
    /\ pc[c] # "idle" => call[c] \in Ops
    /\ pc[c] \in {"lock"} \cup InTransaction => customer[c] \in Customers
    /\ pc[c] \in InTransaction => lock[AccountOf(c)] = c

\* A transaction that has read the balance still knows it.
Fresh ==
  \A c \in Clients :
    pc[c] \in {"write", "commit"} => current[c] = Balance(AccountOf(c))

\* createdAt values come from the clock.
Stamped ==
  /\ \A r \in ledger : r.at <= clock
  /\ \A c \in Clients : \A r \in draft[c] : r.at <= clock

\* An uncommitted row is the one its caller's operation asks for, newer than
\* every row of its account, with a key nobody else has used.
DraftOf(c, r) ==
  /\ r = [at |-> r.at, customer |-> customer[c], op |-> call[c],
          amount |-> Amount(call[c], current[c]),
          balanceAfter |-> current[c] + Amount(call[c], current[c])]
  /\ ~Refused(call[c], current[c])
  /\ \A s \in RowsOf(AccountOf(c)) : s.at < r.at
  /\ ~UsedBy(call[c].key, ledger)
  /\ \A d \in Clients \ {c} : ~UsedBy(call[c].key, draft[d])

Drafts ==
  \A c \in Clients :
    /\ pc[c] # "commit" => draft[c] = {}
    /\ pc[c] = "commit" => \E r \in Row : draft[c] = {r} /\ DraftOf(c, r)

\* An account with rows has a newest one, which its balance is read from.
HasNewest ==
  \A a \in Accounts :
    RowsOf(a) # {} => \E r \in RowsOf(a) : \A s \in RowsOf(a) : s.at <= r.at

LedgerInv ==
  /\ TypeOK
  /\ HasNewest
  /\ Control
  /\ Fresh
  /\ Stamped
  /\ Drafts
  /\ RunningBalance
  /\ KeyAppliedOnce

-----------------------------------------------------------------------------
\* The operations callers may issue are typed.
LEMMA OpsTyped ==
  ASSUME NEW op \in Ops
  PROVE  /\ op.kind \in {"append", "set"}
         /\ op.value \in Int
         /\ op.allowNegative \in BOOLEAN
         /\ op.currency \in Currencies
         /\ op.key \in Keys \cup {NoKey}
         /\ op \in OpType
  BY OpsAssumption DEF OpType

\* The newest of a set of rows with one later row added is that row.
LEMMA NewestAdded ==
  ASSUME NEW rows \in SUBSET Row, NEW r \in Row, \A s \in rows : s.at < r.at
  PROVE  BalanceOf(rows \cup {r}) = r.balanceAfter
<1>1. \A s \in rows \cup {r} : s.at \in Nat
  BY DEF Row
<1>2. \A s \in rows \cup {r} : s.at <= r.at
  BY <1>1
<1>3. ASSUME NEW t \in rows \cup {r}, \A s \in rows \cup {r} : s.at <= t.at
      PROVE  t = r
  BY <1>1, <1>3
<1>4. Newest(rows \cup {r}) = r
  BY <1>2, <1>3 DEF Newest
<1> QED BY <1>4 DEF BalanceOf

\* A balance is an integer: that of the newest row, or 0 without rows.
LEMMA BalanceTyped ==
  ASSUME NEW holders, Clients \subseteq holders, Free \in holders, LedgerTypes(holders), HasNewest, NEW a \in Accounts
  PROVE  Balance(a) \in Int
<1>1. CASE RowsOf(a) = {}
  BY <1>1 DEF Balance, BalanceOf
<1>2. CASE RowsOf(a) # {}
  <2>1. Newest(RowsOf(a)) \in RowsOf(a)
    BY <1>2 DEF HasNewest, Newest
  <2>2. Newest(RowsOf(a)) \in Row
    BY <2>1 DEF RowsOf, LedgerTypes
  <2> QED BY <1>2, <2>2 DEF Balance, BalanceOf, Row
<1> QED BY <1>1, <1>2

\* The amount of an entry is an integer.
LEMMA AmountTyped ==
  ASSUME NEW op \in Ops, NEW b \in Int
  PROVE  Amount(op, b) \in Int
  BY OpsTyped DEF Amount

-----------------------------------------------------------------------------
\* The account a transaction works on.
LEMMA AccountTyped ==
  ASSUME NEW holders, Clients \subseteq holders, Free \in holders, LedgerTypes(holders), Control, NEW c \in Clients, pc[c] \in {"lock"} \cup InTransaction
  PROVE  AccountOf(c) \in Accounts /\ call[c] \in Ops /\ customer[c] \in Customers
<1>1. call[c] \in Ops /\ customer[c] \in Customers
  BY DEF Control, InTransaction
<1> QED BY <1>1, OpsTyped DEF AccountOf, Accounts

\* Ending a transaction keeps the types of what it resets.
LEMMA FinishTyped ==
  ASSUME NEW holders, Clients \subseteq holders, Free \in holders, LedgerTypes(holders), NEW c \in Clients, NEW answer \in Replies, Finish(c, answer)
  PROVE  /\ lock' \in [Accounts -> holders]
         /\ pc' \in [Clients -> Steps]
         /\ current' \in [Clients -> Int]
         /\ draft' \in [Clients -> SUBSET Row]
         /\ reply' \in [Clients -> Replies]
<1>1. lock' \in [Accounts -> holders]
  BY DEF Finish, LedgerTypes
<1>2. pc' \in [Clients -> Steps]
  BY DEF Finish, LedgerTypes, Steps
<1>3. current' \in [Clients -> Int]
  BY DEF Finish, LedgerTypes
<1>4. draft' \in [Clients -> SUBSET Row]
  BY DEF Finish, LedgerTypes
<1>5. reply' \in [Clients -> Replies]
  BY DEF Finish, LedgerTypes
<1> QED BY <1>1, <1>2, <1>3, <1>4, <1>5

\* The types are preserved by every step of a caller.
LEMMA TypeStep ==
  ASSUME NEW holders, Clients \subseteq holders, Free \in holders, LedgerTypes(holders), HasNewest, Control, [Next]_vars
  PROVE  LedgerTypes(holders)'
<1>0. CASE UNCHANGED vars
  BY <1>0 DEF vars, callerVars, LedgerTypes
<1>1. ASSUME NEW c \in Clients, NEW op \in Ops, Call(c, op) PROVE LedgerTypes(holders)'
  BY <1>1, BoundAssumption DEF Call, LedgerTypes, Steps, Replies
<1>2. ASSUME NEW c \in Clients, RequireCustomer(c) PROVE LedgerTypes(holders)'
  BY <1>2 DEF RequireCustomer, LedgerTypes, Steps, Replies
<1>3. ASSUME NEW c \in Clients, AcquireLock(c) PROVE LedgerTypes(holders)'
  BY <1>3 DEF AcquireLock, LedgerTypes, Steps, InTransaction
<1>4. ASSUME NEW c \in Clients, ReturnExisting(c) PROVE LedgerTypes(holders)'
  BY <1>4, FinishTyped DEF ReturnExisting, Finish, LedgerTypes, Replies
<1>5. ASSUME NEW c \in Clients, NoExisting(c) PROVE LedgerTypes(holders)'
  BY <1>5 DEF NoExisting, LedgerTypes, Steps, InTransaction
<1>6. ASSUME NEW c \in Clients, ReadBalance(c) PROVE LedgerTypes(holders)'
  <2>1. Balance(AccountOf(c)) \in Int
    BY <1>6, AccountTyped, BalanceTyped DEF ReadBalance, InTransaction
  <2> QED BY <1>6, <2>1 DEF ReadBalance, LedgerTypes, Steps, InTransaction
<1>7. ASSUME NEW c \in Clients, Insufficient(c) \/ Unchanged(c) \/ Duplicate(c) \/ Rollback(c)
      PROVE LedgerTypes(holders)'
  <2>1. \E answer \in Replies : Finish(c, answer) /\ UNCHANGED <<ledger, clock>>
    BY <1>7 DEF Insufficient, Unchanged, Duplicate, Rollback, Replies
  <2> QED BY <2>1, FinishTyped DEF Finish, LedgerTypes
<1>8. ASSUME NEW c \in Clients, InsertEntry(c) PROVE LedgerTypes(holders)'
  <2>1. call[c] \in OpType /\ customer[c] \in Customers /\ call[c] \in Ops
    BY <1>8, AccountTyped, OpsTyped DEF InsertEntry, Writes, InTransaction
  <2>2. current[c] \in Int /\ Amount(call[c], current[c]) \in Int
    BY <2>1, AmountTyped DEF LedgerTypes
  <2>3. NewRow(c) \in Row
    BY <2>1, <2>2 DEF NewRow, Row, LedgerTypes
  <2> QED BY <1>8, <2>3 DEF InsertEntry, LedgerTypes, Steps, InTransaction
<1>9. ASSUME NEW c \in Clients, Commit(c) PROVE LedgerTypes(holders)'
  <2>1. PICK answer \in {"ok", "failed"} : Finish(c, answer)
    BY <1>9 DEF Commit
  <2>2. answer \in Replies
    BY DEF Replies
  <2>3. ledger' \subseteq Row /\ clock' = clock
    BY <1>9 DEF Commit, LedgerTypes
  <2> QED BY <2>1, <2>2, <2>3, FinishTyped DEF Finish, LedgerTypes
<1> QED
  BY <1>0, <1>1, <1>2, <1>3, <1>4, <1>5, <1>6, <1>7, <1>8, <1>9 DEF Next, ClientStep

-----------------------------------------------------------------------------
\* What a caller's step leaves alone: the others' locals and their locks.
LEMMA OthersUntouched ==
  ASSUME NEW holders, Clients \subseteq holders, Free \in holders, LedgerTypes(holders), Control, NEW c \in Clients,
         (\E op \in Ops : Call(c, op)) \/ ClientStep(c) \/ Rollback(c),
         NEW d \in Clients, d # c
  PROVE  /\ pc'[d] = pc[d] /\ call'[d] = call[d] /\ customer'[d] = customer[d]
         /\ current'[d] = current[d] /\ draft'[d] = draft[d]
         /\ AccountOf(d)' = AccountOf(d)
         /\ pc[d] \in InTransaction => lock'[AccountOf(d)] = lock[AccountOf(d)]
<1>1. /\ pc'[d] = pc[d] /\ call'[d] = call[d] /\ customer'[d] = customer[d]
      /\ current'[d] = current[d] /\ draft'[d] = draft[d]
  BY DEF Call, ClientStep, RequireCustomer, AcquireLock, ReturnExisting, NoExisting, ReadBalance,
         Insufficient, Unchanged, Duplicate, Writes, InsertEntry, Commit, Rollback, Finish, LedgerTypes
<1>2. AccountOf(d)' = AccountOf(d)
  BY <1>1 DEF AccountOf
<1>3. ASSUME pc[d] \in InTransaction PROVE lock'[AccountOf(d)] = lock[AccountOf(d)]
  <2>1. lock[AccountOf(d)] = d /\ AccountOf(d) \in Accounts
    BY <1>3, AccountTyped DEF Control
  <2>2. CASE AcquireLock(c)
    <3>1. lock[AccountOf(c)] = Free /\ lock' = [lock EXCEPT ![AccountOf(c)] = c]
      BY <2>2 DEF AcquireLock
    <3>2. AccountOf(c) # AccountOf(d)
      BY <3>1, <2>1, NamesAssumption
    <3> QED BY <3>1, <3>2, <2>1 DEF LedgerTypes
  <2>3. CASE lock' = lock
    BY <2>3
  <2>4. CASE pc[c] \in InTransaction /\ lock' = [lock EXCEPT ![AccountOf(c)] = Free]
    <3>1. lock[AccountOf(c)] = c
      BY <2>4 DEF Control
    <3>2. AccountOf(c) # AccountOf(d)
      BY <3>1, <2>1
    <3> QED BY <2>4, <3>2, <2>1 DEF LedgerTypes
  <2> QED
    BY <2>2, <2>3, <2>4
    DEF Call, ClientStep, RequireCustomer, ReturnExisting, NoExisting, ReadBalance, Insufficient,
        Unchanged, Duplicate, Writes, InsertEntry, Commit, Rollback, Finish, InTransaction
<1> QED BY <1>1, <1>2, <1>3

\* A caller in a transaction holds its account's lock, after every step.
LEMMA ControlStep ==
  ASSUME NEW holders, Clients \subseteq holders, Free \in holders, LedgerTypes(holders), Control, [Next]_vars
  PROVE  Control'
<1>0. CASE UNCHANGED vars
  BY <1>0 DEF vars, callerVars, Control, AccountOf
<1>1. ASSUME NEW c \in Clients,
             (\E op \in Ops : Call(c, op)) \/ ClientStep(c) \/ Rollback(c)
      PROVE  Control'
  <2> SUFFICES ASSUME NEW d \in Clients
               PROVE  /\ pc'[d] # "idle" => call'[d] \in Ops
                      /\ pc'[d] \in {"lock"} \cup InTransaction => customer'[d] \in Customers
                      /\ pc'[d] \in InTransaction => lock'[AccountOf(d)'] = d
    BY DEF Control
  <2>1. CASE d # c
    BY <1>1, <2>1, OthersUntouched DEF Control
  <2>2. CASE d = c
    <3>1. CASE \E op \in Ops : Call(c, op)
      BY <2>2, <3>1 DEF Call, LedgerTypes, InTransaction
    <3>2. CASE RequireCustomer(c)
      BY <2>2, <3>2 DEF RequireCustomer, LedgerTypes, InTransaction, Control
    <3>3. CASE AcquireLock(c)
      <4>1. AccountOf(c) \in Accounts /\ call[c] \in Ops /\ customer[c] \in Customers
        BY <3>3, AccountTyped DEF AcquireLock
      <4>2. AccountOf(c)' = AccountOf(c)
        BY <3>3 DEF AcquireLock, AccountOf
      <4> QED BY <2>2, <3>3, <4>1, <4>2 DEF AcquireLock, LedgerTypes
    <3>4. CASE NoExisting(c) \/ ReadBalance(c) \/ InsertEntry(c)
      <4>1. /\ pc[c] \in InTransaction /\ lock' = lock
            /\ call' = call /\ customer' = customer
        BY <3>4 DEF NoExisting, ReadBalance, InsertEntry, Writes, InTransaction
      <4> QED BY <2>2, <4>1 DEF Control, AccountOf, InTransaction
    <3>5. CASE \E answer : Finish(c, answer)
      BY <2>2, <3>5 DEF Finish, LedgerTypes, InTransaction
    <3> QED
      BY <1>1, <3>1, <3>2, <3>3, <3>4, <3>5
      DEF ClientStep, ReturnExisting, Insufficient, Unchanged, Duplicate, Commit, Rollback
  <2> QED BY <2>1, <2>2
<1> QED BY <1>0, <1>1 DEF Next

-----------------------------------------------------------------------------
\* The only step that writes the ledger is a commit, and what it writes is one
\* row: newest of its account, continuing its balance, with a fresh key.
LEMMA LedgerStep ==
  ASSUME LedgerInv, [Next]_vars
  PROVE  \/ ledger' = ledger
         \/ \E c \in Clients, r \in Row :
              /\ Commit(c)
              /\ pc[c] = "commit"
              /\ draft[c] = {r}
              /\ DraftOf(c, r)
              /\ AccountOfRow(r) = AccountOf(c)
              /\ r.op = call[c]
              /\ r.balanceAfter = Balance(AccountOf(c)) + r.amount
              /\ ledger' = ledger \cup {r}
<1>1. ASSUME NEW c \in Clients, Commit(c)
      PROVE  \E r \in Row :
               /\ pc[c] = "commit"
               /\ draft[c] = {r}
               /\ DraftOf(c, r)
               /\ AccountOfRow(r) = AccountOf(c)
               /\ r.op = call[c]
               /\ r.balanceAfter = Balance(AccountOf(c)) + r.amount
               /\ ledger' = ledger \cup {r}
  <2>1. pc[c] = "commit" /\ ledger' = ledger \cup draft[c]
    BY <1>1 DEF Commit
  <2>2. PICK r \in Row : draft[c] = {r} /\ DraftOf(c, r)
    BY <2>1 DEF LedgerInv, Drafts
  <2>3. current[c] = Balance(AccountOf(c))
    BY <2>1 DEF LedgerInv, Fresh
  <2>4. /\ r.customer = customer[c] /\ r.op = call[c]
        /\ r.balanceAfter = current[c] + r.amount
    BY <2>2 DEF DraftOf
  <2> QED BY <2>1, <2>2, <2>3, <2>4 DEF AccountOfRow, AccountOf
<1>2. ASSUME ~(\E c \in Clients : Commit(c)) PROVE ledger' = ledger
  BY <1>2 DEF Next, vars, callerVars, Call, ClientStep, RequireCustomer, AcquireLock,
     ReturnExisting, NoExisting, ReadBalance, Insufficient, Unchanged, Duplicate, InsertEntry,
     Rollback
<1> QED BY <1>1, <1>2

\* The rows of an account after a row was added to the ledger.
LEMMA RowsAdded ==
  ASSUME NEW r \in Row, ledger' = ledger \cup {r}, NEW a
  PROVE  RowsOf(a)' = IF AccountOfRow(r) = a THEN RowsOf(a) \cup {r} ELSE RowsOf(a)
  BY DEF RowsOf, AccountOfRow

LEMMA RowsKept ==
  ASSUME ledger' = ledger, NEW a
  PROVE  RowsOf(a)' = RowsOf(a) /\ Balance(a)' = Balance(a)
  BY DEF RowsOf, AccountOfRow, Balance

\* The balance of the account a row is added to becomes that of the row.
LEMMA BalanceAdded ==
  ASSUME TypeOK, NEW a, NEW r \in Row, AccountOfRow(r) = a,
         \A s \in RowsOf(a) : s.at < r.at, ledger' = ledger \cup {r}
  PROVE  Balance(a)' = r.balanceAfter
<1>1. RowsOf(a) \in SUBSET Row
  BY DEF RowsOf, TypeOK, LedgerTypes
<1>2. BalanceOf(RowsOf(a) \cup {r}) = r.balanceAfter
  BY <1>1, NewestAdded
<1>3. RowsOf(a)' = RowsOf(a) \cup {r}
  BY RowsAdded
<1> QED BY <1>2, <1>3 DEF Balance

LEMMA HasNewestStep ==
  ASSUME LedgerInv, [Next]_vars
  PROVE  HasNewest'
<1>1. CASE ledger' = ledger
  BY <1>1, RowsKept DEF LedgerInv, HasNewest
<1>2. ASSUME NEW c \in Clients, NEW r \in Row, DraftOf(c, r),
             AccountOfRow(r) = AccountOf(c), ledger' = ledger \cup {r}
      PROVE  HasNewest'
  <2> SUFFICES ASSUME NEW a \in Accounts, RowsOf(a)' # {}
               PROVE  \E t \in RowsOf(a)' : \A s \in RowsOf(a)' : s.at <= t.at
    BY DEF HasNewest
  <2>1. CASE AccountOfRow(r) = a
    <3>1. RowsOf(a)' = RowsOf(a) \cup {r}
      BY <1>2, <2>1, RowsAdded
    <3>2. \A s \in RowsOf(a) : s.at < r.at
      BY <1>2, <2>1 DEF DraftOf
    <3>3. \A s \in RowsOf(a) \cup {r} : s.at \in Nat
      BY DEF RowsOf, LedgerInv, TypeOK, LedgerTypes, Row
    <3> QED BY <3>1, <3>2, <3>3
  <2>2. CASE AccountOfRow(r) # a
    <3>1. RowsOf(a)' = RowsOf(a)
      BY <1>2, <2>2, RowsAdded
    <3> QED BY <3>1 DEF LedgerInv, HasNewest
  <2> QED BY <2>1, <2>2
<1> QED BY <1>1, <1>2, LedgerStep

LEMMA RunningBalanceStep ==
  ASSUME LedgerInv, [Next]_vars
  PROVE  RunningBalance'
<1>1. CASE ledger' = ledger
  BY <1>1 DEF LedgerInv, RunningBalance, EarlierRows, RowsOf, AccountOfRow
<1>2. ASSUME NEW c \in Clients, NEW r \in Row, DraftOf(c, r), r.op = call[c],
             AccountOfRow(r) = AccountOf(c),
             r.balanceAfter = Balance(AccountOf(c)) + r.amount, ledger' = ledger \cup {r}
      PROVE  RunningBalance'
  <2>1. \A s \in RowsOf(AccountOf(c)) : s.at < r.at
    BY <1>2 DEF DraftOf
  <2>2. \A s \in ledger \cup {r} : s.at \in Nat /\ s.balanceAfter \in Int /\ s.amount \in Int
    BY DEF LedgerInv, TypeOK, LedgerTypes, Row
  <2>3. EarlierRows(r)' = RowsOf(AccountOf(c))
    BY <1>2, <2>1, <2>2 DEF EarlierRows, RowsOf, AccountOfRow
  <2>4. r.balanceAfter = r.amount + BalanceOf(EarlierRows(r)')
    <3>1. BalanceOf(RowsOf(AccountOf(c))) \in Int
      <4>1. AccountOf(c) \in Accounts
        BY <1>2 DEF AccountOfRow, Accounts, Row, OpType
      <4> QED BY <4>1, BalanceTyped DEF LedgerInv, Balance, TypeOK
    <3> QED BY <1>2, <2>2, <2>3, <3>1 DEF Balance
  <2>5. ASSUME NEW s \in ledger
        PROVE  s.balanceAfter = s.amount + BalanceOf(EarlierRows(s)')
    <3>1. s # r \/ s = r
      OBVIOUS
    <3>2. CASE s = r
      BY <3>2, <2>4
    <3>3. CASE s # r
      <4>1. AccountOfRow(s) = AccountOfRow(r) => s.at < r.at
        BY <1>2, <2>1, <2>5 DEF RowsOf
      <4>2. EarlierRows(s)' = EarlierRows(s)
        BY <1>2, <4>1, <2>2, <2>5 DEF EarlierRows, RowsOf, AccountOfRow
      <4> QED BY <4>2, <2>5 DEF LedgerInv, RunningBalance
    <3> QED BY <3>2, <3>3
  <2>6. \A s \in ledger' : s.balanceAfter = s.amount + BalanceOf(EarlierRows(s)')
    BY <1>2, <2>4, <2>5
  <2> QED BY <2>6 DEF RunningBalance
<1> QED BY <1>1, <1>2, LedgerStep

LEMMA KeyAppliedOnceStep ==
  ASSUME LedgerInv, [Next]_vars
  PROVE  KeyAppliedOnce'
<1>1. CASE ledger' = ledger
  BY <1>1 DEF LedgerInv, KeyAppliedOnce
<1>2. ASSUME NEW c \in Clients, NEW r \in Row, DraftOf(c, r), r.op = call[c],
             ledger' = ledger \cup {r}
      PROVE  KeyAppliedOnce'
  <2>1. r.op.key # NoKey => \A s \in ledger : s.op.key # r.op.key
    BY <1>2 DEF DraftOf, UsedBy
  <2> QED BY <1>2, <2>1 DEF LedgerInv, KeyAppliedOnce
<1> QED BY <1>1, <1>2, LedgerStep

-----------------------------------------------------------------------------
\* Two callers in transactions hold different locks: different accounts.
LEMMA ApartInTransactions ==
  ASSUME Control, NEW c \in Clients, NEW d \in Clients, c # d,
         pc[c] \in InTransaction, pc[d] \in InTransaction
  PROVE  AccountOf(c) # AccountOf(d)
  BY DEF Control

\* The rows of a caller's account change only by its own commit.
LEMMA OwnRowsKept ==
  ASSUME LedgerInv, [Next]_vars, NEW d \in Clients, ~Commit(d), pc[d] \in InTransaction,
         NEW a, a = AccountOf(d)
  PROVE  RowsOf(a)' = RowsOf(a) /\ Balance(a)' = Balance(a)
<1>1. CASE ledger' = ledger
  BY <1>1, RowsKept
<1>2. ASSUME NEW c \in Clients, NEW r \in Row, Commit(c), pc[c] = "commit",
             AccountOfRow(r) = AccountOf(c), ledger' = ledger \cup {r}
      PROVE  RowsOf(a)' = RowsOf(a)
  <2>1. c # d
    BY <1>2
  <2>2. AccountOfRow(r) # a
    BY <1>2, <2>1, ApartInTransactions DEF LedgerInv, InTransaction
  <2> QED BY <1>2, <2>2, RowsAdded
<1>3. RowsOf(a)' = RowsOf(a)
  BY <1>1, <1>2, LedgerStep
<1> QED BY <1>3 DEF Balance

\* The balance a transaction read stays the balance of its account.
LEMMA FreshStep ==
  ASSUME LedgerInv, [Next]_vars
  PROVE  Fresh'
<1>0. CASE UNCHANGED vars
  BY <1>0 DEF vars, callerVars, LedgerInv, Fresh, Balance, RowsOf, AccountOfRow, AccountOf
<1>1. ASSUME NEW c \in Clients,
             (\E op \in Ops : Call(c, op)) \/ ClientStep(c) \/ Rollback(c),
             NEW d \in Clients, pc'[d] \in {"write", "commit"}
      PROVE  \E a : a = AccountOf(d)' /\ current'[d] = Balance(a)'
  <2>1. CASE d # c
    <3>1. /\ pc'[d] = pc[d] /\ current'[d] = current[d]
          /\ AccountOf(d)' = AccountOf(d)
      BY <1>1, <2>1, OthersUntouched DEF LedgerInv, TypeOK
    <3>2. ~Commit(d)
      BY <1>1, <2>1, <3>1 DEF Commit, Finish, LedgerInv, TypeOK, LedgerTypes
    <3>3. PICK a : a = AccountOf(d)
      OBVIOUS
    <3>4. current[d] = Balance(a)
      BY <1>1, <3>1, <3>3 DEF LedgerInv, Fresh
    <3>5. Balance(a)' = Balance(a)
      BY <1>1, <3>1, <3>2, <3>3, OwnRowsKept DEF Next, InTransaction
    <3> QED BY <3>1, <3>3, <3>4, <3>5
  <2>2. CASE d = c
    <3>1. pc[c] = "balance" \/ pc[c] = "write"
      BY <1>1, <2>2
      DEF LedgerInv, TypeOK, LedgerTypes, Call, ClientStep, RequireCustomer, AcquireLock, ReturnExisting, NoExisting,
          ReadBalance, Insufficient, Unchanged, Duplicate, Writes, InsertEntry, Commit, Rollback, Finish
    <3>2. \/ ReadBalance(c)
          \/ InsertEntry(c)
      BY <1>1, <2>2, <3>1
      DEF LedgerInv, TypeOK, LedgerTypes, Call, ClientStep, RequireCustomer, AcquireLock, ReturnExisting, NoExisting,
          Insufficient, Unchanged, Duplicate, Commit, Rollback, Finish
    <3>3. /\ ledger' = ledger /\ call' = call /\ customer' = customer
          /\ AccountOf(c)' = AccountOf(c)
      BY <3>2 DEF ReadBalance, InsertEntry, AccountOf
    <3>4. PICK a : a = AccountOf(c)
      OBVIOUS
    <3>5. Balance(a)' = Balance(a)
      BY <3>3, RowsKept
    <3>6. current'[c] = Balance(a)
      BY <3>1, <3>2, <3>4 DEF ReadBalance, InsertEntry, Writes, LedgerInv, TypeOK, LedgerTypes, Fresh
    <3> QED BY <2>2, <3>3, <3>4, <3>5, <3>6
  <2> QED BY <2>1, <2>2
<1> QED BY <1>0, <1>1 DEF Next, Fresh, Balance, RowsOf, AccountOfRow

\* Rows are stamped by a clock that only moves forward.
LEMMA StampedStep ==
  ASSUME LedgerInv, [Next]_vars
  PROVE  Stamped'
<1>1. clock' \in Nat /\ clock <= clock'
  BY DEF LedgerInv, TypeOK, LedgerTypes, Next, vars, Call, ClientStep, RequireCustomer, AcquireLock, ReturnExisting,
     NoExisting, ReadBalance, Insufficient, Unchanged, Duplicate, InsertEntry, Commit, Rollback
<1>2. \A r \in ledger : r.at \in Nat /\ r.at <= clock
  BY DEF LedgerInv, Stamped, TypeOK, LedgerTypes, Row
<1>3. \A c \in Clients : \A r \in draft[c] : r.at \in Nat /\ r.at <= clock
  BY DEF LedgerInv, Stamped, TypeOK, LedgerTypes, Row
<1>4. ASSUME NEW r \in ledger' PROVE r.at <= clock'
  <2>1. r \in ledger \/ \E c \in Clients : r \in draft[c]
    BY <1>4, LedgerStep
  <2> QED BY <2>1, <1>1, <1>2, <1>3, <1>4 DEF LedgerInv, TypeOK, LedgerTypes
<1>5. ASSUME NEW c \in Clients, NEW r \in draft'[c] PROVE r.at <= clock'
  <2>1. CASE r \in draft[c]
    BY <2>1, <1>1, <1>3 DEF LedgerInv, TypeOK, LedgerTypes
  <2>2. CASE r \notin draft[c]
    <3>1. InsertEntry(c)
      BY <1>5, <2>2 DEF LedgerInv, TypeOK, LedgerTypes, Next, vars, callerVars, Call, ClientStep, RequireCustomer,
         AcquireLock, ReturnExisting, NoExisting, ReadBalance, Insufficient, Unchanged, Duplicate,
         InsertEntry, Commit, Rollback, Finish
    <3>2. r.at = clock + 1 /\ clock' = clock + 1
      BY <1>5, <3>1 DEF InsertEntry, NewRow, LedgerInv, TypeOK, LedgerTypes
    <3> QED BY <3>2, <1>1
  <2> QED BY <2>1, <2>2
<1> QED BY <1>4, <1>5 DEF Stamped

\* A row being inserted satisfies DraftOf for its caller.
LEMMA InsertedDraft ==
  ASSUME LedgerInv, NEW c \in Clients, InsertEntry(c)
  PROVE  \E r \in Row : draft'[c] = {r} /\ DraftOf(c, r)' /\ r.op = call[c]
<1>1. /\ pc[c] = "write" /\ call' = call /\ customer' = customer /\ current' = current
      /\ ledger' = ledger /\ draft' = [draft EXCEPT ![c] = {NewRow(c)}]
      /\ ~Refused(call[c], current[c]) /\ ~UsedBy(call[c].key, ledger)
      /\ \A d \in Clients \ {c} : ~UsedBy(call[c].key, draft[d])
  BY DEF InsertEntry, Writes, WaitsForDuplicate
<1>2. draft'[c] = {NewRow(c)} /\ \A d \in Clients \ {c} : draft'[d] = draft[d]
  BY <1>1 DEF LedgerInv, TypeOK, LedgerTypes
<1>3. NewRow(c) \in Row
  <2>1. call[c] \in OpType /\ customer[c] \in Customers /\ call[c] \in Ops
    BY <1>1, AccountTyped, OpsTyped DEF InTransaction, LedgerInv, TypeOK
  <2>2. current[c] \in Int /\ Amount(call[c], current[c]) \in Int
    BY <2>1, AmountTyped DEF TypeOK, LedgerTypes, LedgerInv
  <2> QED BY <2>1, <2>2 DEF NewRow, Row, TypeOK, LedgerTypes, LedgerInv
<1>4. \A s \in RowsOf(AccountOf(c)) : s.at < NewRow(c).at
  <2>1. \A s \in ledger : s.at \in Nat /\ s.at <= clock
    BY DEF LedgerInv, TypeOK, LedgerTypes, Row, Stamped
  <2> QED BY <2>1 DEF RowsOf, NewRow, LedgerInv, TypeOK, LedgerTypes
<1>5. (RowsOf(AccountOf(c)))' = RowsOf(AccountOf(c))
  BY <1>1 DEF RowsOf, AccountOf, AccountOfRow
<1>6. NewRow(c) = [at |-> NewRow(c).at, customer |-> customer[c], op |-> call[c],
                   amount |-> Amount(call[c], current[c]),
                   balanceAfter |-> current[c] + Amount(call[c], current[c])]
  BY DEF NewRow
<1>7. ASSUME NEW r, r = NewRow(c) PROVE DraftOf(c, r)'
  <2>1. \A s \in (RowsOf(AccountOf(c)))' : s.at < r.at
    BY <1>4, <1>5, <1>7
  <2>2. ~UsedBy(call[c].key, ledger)' /\ ~Refused(call[c], current[c])'
    BY <1>1 DEF UsedBy, Refused
  <2>3. \A d \in Clients \ {c} : ~UsedBy(call[c].key, draft[d])'
    BY <1>1, <1>2 DEF UsedBy
  <2>4. r = [at |-> r.at, customer |-> customer'[c], op |-> call'[c],
             amount |-> Amount(call[c], current[c])',
             balanceAfter |-> current'[c] + Amount(call[c], current[c])']
    BY <1>1, <1>6, <1>7 DEF Amount
  <2> QED BY <2>1, <2>2, <2>3, <2>4 DEF DraftOf
<1>8. PICK r \in Row : r = NewRow(c)
  BY <1>3
<1>9. r.op = call[c]
  BY <1>8 DEF NewRow
<1> QED BY <1>2, <1>7, <1>8, <1>9

\* A row already inserted keeps satisfying DraftOf while others run.
LEMMA KeptDraft ==
  ASSUME LedgerInv, NEW c \in Clients,
         (\E op \in Ops : Call(c, op)) \/ ClientStep(c) \/ Rollback(c),
         NEW d \in Clients, d # c, pc[d] = "commit"
  PROVE  \E r \in Row : draft'[d] = {r} /\ DraftOf(d, r)'
<1>1. PICK r \in Row : draft[d] = {r} /\ DraftOf(d, r)
  BY DEF LedgerInv, Drafts
<1>2. /\ pc'[d] = pc[d] /\ call'[d] = call[d] /\ customer'[d] = customer[d]
      /\ current'[d] = current[d] /\ draft'[d] = draft[d] /\ AccountOf(d)' = AccountOf(d)
  BY OthersUntouched DEF LedgerInv, TypeOK
<1>3. ~Commit(d)
  BY <1>2 DEF Commit, Finish, LedgerInv, TypeOK, LedgerTypes
<1>4. PICK a : a = AccountOf(d)
  OBVIOUS
<1>5. [Next]_vars
  BY DEF Next
<1>6. RowsOf(a)' = RowsOf(a)
  BY <1>3, <1>4, <1>5, OwnRowsKept DEF InTransaction
<1>7. (RowsOf(AccountOf(d)))' = RowsOf(AccountOf(d))
  BY <1>2, <1>4, <1>6 DEF RowsOf
<1>8. ~UsedBy(call[d].key, ledger)'
  <2>1. CASE ledger' = ledger
    BY <1>1, <1>2, <2>1 DEF DraftOf, UsedBy
  <2>2. ASSUME NEW e \in Clients, NEW s \in Row, Commit(e), draft[e] = {s},
               ledger' = ledger \cup {s}
        PROVE  ~UsedBy(call[d].key, ledger)'
    <3>1. e # d
      BY <1>3, <2>2
    <3>2. ~UsedBy(call[d].key, draft[e]) /\ ~UsedBy(call[d].key, ledger)
      BY <1>1, <3>1 DEF DraftOf
    <3> QED BY <1>2, <2>2, <3>2 DEF UsedBy
  <2> QED BY <1>5, <2>1, <2>2, LedgerStep
<1>9. \A e \in Clients \ {d} : ~UsedBy(call[d].key, draft[e])'
  <2> SUFFICES ASSUME NEW e \in Clients \ {d}
               PROVE  ~UsedBy(call[d].key, draft[e])'
    OBVIOUS
  <2>1. ~UsedBy(call[d].key, draft[e])
    BY <1>1 DEF DraftOf
  <2>2. CASE InsertEntry(e)
    <3>1. PICK t \in Row : draft'[e] = {t} /\ t.op = call[e]
      BY <2>2, InsertedDraft
    <3>2. r.op = call[d]
      BY <1>1 DEF DraftOf
    <3>3. ~UsedBy(call[e].key, draft[d])
      BY <2>2 DEF InsertEntry, Writes, WaitsForDuplicate
    <3>4. call[e].key # NoKey => call[e].key # call[d].key
      BY <1>1, <3>2, <3>3 DEF UsedBy
    <3> QED BY <1>2, <3>1, <3>4 DEF UsedBy
  <2>3. CASE ~InsertEntry(e)
    <3>1. draft'[e] \subseteq draft[e]
      BY <2>3 DEF LedgerInv, TypeOK, LedgerTypes, Call, ClientStep, RequireCustomer, AcquireLock, ReturnExisting,
         NoExisting, ReadBalance, Insufficient, Unchanged, Duplicate, InsertEntry, Commit, Rollback, Finish
    <3> QED BY <1>2, <2>1, <3>1 DEF UsedBy
  <2> QED BY <2>2, <2>3
<1>10. DraftOf(d, r)'
  <2>1. r = [at |-> r.at, customer |-> customer'[d], op |-> call'[d],
             amount |-> Amount(call[d], current[d])',
             balanceAfter |-> current'[d] + Amount(call[d], current[d])']
    BY <1>1, <1>2 DEF DraftOf, Amount
  <2>2. ~Refused(call[d], current[d])'
    BY <1>1, <1>2 DEF DraftOf, Refused
  <2>3. \A s \in (RowsOf(AccountOf(d)))' : s.at < r.at
    BY <1>1, <1>7 DEF DraftOf
  <2> QED BY <2>1, <2>2, <2>3, <1>8, <1>9 DEF DraftOf
<1> QED BY <1>1, <1>2, <1>10

LEMMA DraftsStep ==
  ASSUME LedgerInv, [Next]_vars
  PROVE  Drafts'
<1>0. CASE UNCHANGED vars
  BY <1>0 DEF vars, callerVars, LedgerInv, Drafts, DraftOf, Amount, Refused, UsedBy, RowsOf,
     AccountOf, AccountOfRow
<1>1. ASSUME NEW c \in Clients,
             (\E op \in Ops : Call(c, op)) \/ ClientStep(c) \/ Rollback(c),
             NEW d \in Clients
      PROVE  /\ pc'[d] # "commit" => draft'[d] = {}
             /\ pc'[d] = "commit" => \E r \in Row : draft'[d] = {r} /\ DraftOf(d, r)'
  <2>1. CASE d # c
    <3>1. pc'[d] = pc[d] /\ draft'[d] = draft[d]
      BY <1>1, <2>1, OthersUntouched DEF LedgerInv, TypeOK
    <3> QED BY <1>1, <2>1, <3>1, KeptDraft DEF LedgerInv, Drafts
  <2>2. CASE d = c /\ InsertEntry(c)
    <3>1. pc'[c] = "commit"
      BY <2>2 DEF InsertEntry, LedgerInv, TypeOK, LedgerTypes
    <3> QED BY <2>2, <3>1, InsertedDraft
  <2>3. CASE d = c /\ \E answer : Finish(c, answer)
    BY <2>3 DEF Finish, LedgerInv, TypeOK, LedgerTypes
  <2>4. CASE d = c /\ draft' = draft /\ pc[c] # "commit" /\ pc'[c] # "commit"
    BY <2>4 DEF LedgerInv, Drafts
  <2> QED
    BY <1>1, <2>1, <2>2, <2>3, <2>4
    DEF Call, ClientStep, RequireCustomer, AcquireLock, ReturnExisting, NoExisting, ReadBalance,
        Insufficient, Unchanged, Duplicate, Commit, Rollback, LedgerInv, TypeOK, LedgerTypes
<1> QED BY <1>0, <1>1 DEF Next, Drafts

-----------------------------------------------------------------------------
\* Initially there are no rows and no caller has called.
LEMMA LedgerInit == Init => LedgerInv
<1> SUFFICES ASSUME Init PROVE LedgerInv
  OBVIOUS
<1>1. TypeOK
  BY DEF Init, TypeOK, LedgerTypes, Steps, Replies
<1>2. HasNewest /\ RunningBalance /\ KeyAppliedOnce /\ Stamped
  BY DEF Init, HasNewest, RunningBalance, KeyAppliedOnce, Stamped, RowsOf
<1>3. Control /\ Fresh /\ Drafts
  BY DEF Init, Control, Fresh, Drafts, InTransaction
<1> QED BY <1>1, <1>2, <1>3 DEF LedgerInv

\* LedgerInv is an inductive invariant of the ledger.
THEOREM LedgerInvariant == Spec => []LedgerInv
<1>1. LedgerInv /\ [Next]_vars => LedgerInv'
  <2> SUFFICES ASSUME LedgerInv, [Next]_vars PROVE LedgerInv'
    OBVIOUS
  <2>1. TypeOK' /\ Control'
    BY TypeStep, ControlStep DEF LedgerInv, TypeOK
  <2> QED
    BY <2>1, HasNewestStep, FreshStep, StampedStep, DraftsStep,
       RunningBalanceStep, KeyAppliedOnceStep DEF LedgerInv
<1> QED BY LedgerInit, <1>1, PTL DEF Spec

\* Every table, lock and local of the ledger keeps its type.
THEOREM TypeCorrect == Spec => []TypeOK
BY LedgerInvariant, PTL DEF LedgerInv

\* balanceAfter is the running balance of its account, for any number of
\* callers, operations and interleavings of their statements.
THEOREM RunningBalanceHolds == Spec => []RunningBalance
BY LedgerInvariant, PTL DEF LedgerInv

\* No idempotency key is ever applied twice.
THEOREM KeyAppliedOnceHolds == Spec => []KeyAppliedOnce
BY LedgerInvariant, PTL DEF LedgerInv

-----------------------------------------------------------------------------
\* The abstract balances and used keys, as the instance substitutes them.
Balances == [a \in Accounts |-> Balance(a)]
UsedKeys == {r.op.key : r \in ledger} \ {NoKey}

\* A commit is one atomic operation on the balances.
LEMMA CommitApplies ==
  ASSUME LedgerInv, NEW c \in Clients, NEW r \in Row, DraftOf(c, r), r.op = call[c],
         pc[c] = "commit", AccountOfRow(r) = AccountOf(c),
         r.balanceAfter = Balance(AccountOf(c)) + r.amount, ledger' = ledger \cup {r}
  PROVE  \E a \in Accounts, op \in Ops :
           /\ op.currency = a[2]
           /\ op.key \notin UsedKeys
           /\ \/ op.kind = "set"
              \/ op.allowNegative
              \/ Balances[a] + op.value >= 0
           /\ Balances' = [Balances EXCEPT ![a] =
                             IF op.kind = "set" THEN op.value ELSE Balances[a] + op.value]
           /\ UsedKeys' = UsedKeys \cup ({op.key} \ {NoKey})
<1>1. PICK a \in Accounts, op \in Ops : a = AccountOf(c) /\ op = call[c]
  BY AccountTyped DEF LedgerInv, InTransaction, TypeOK
<1>2. op.currency = a[2]
  BY <1>1 DEF AccountOf
<1>3. Balance(a) \in Int /\ current[c] = Balance(a)
  BY <1>1, BalanceTyped DEF LedgerInv, Fresh, TypeOK
<1>4. op.key \notin UsedKeys
  BY <1>1 DEF DraftOf, UsedBy, UsedKeys
<1>5. op.kind = "set" \/ op.allowNegative \/ Balances[a] + op.value >= 0
  <2>1. ~Refused(op, Balance(a))
    BY <1>1, <1>3 DEF DraftOf
  <2> QED BY <2>1, <1>3, OpsTyped DEF Refused, Balances
<1>6. r.balanceAfter = IF op.kind = "set" THEN op.value ELSE Balance(a) + op.value
  <2>1. r.amount = Amount(op, Balance(a))
    BY <1>1, <1>3 DEF DraftOf
  <2>2. r.balanceAfter = Balance(a) + Amount(op, Balance(a))
    BY <1>1, <2>1
  <2> QED BY <2>2, <1>3, OpsTyped DEF Amount
<1>7. Balance(a)' = r.balanceAfter
  <2>1. \A s \in RowsOf(a) : s.at < r.at
    BY <1>1 DEF DraftOf
  <2> QED BY <1>1, <2>1, BalanceAdded DEF LedgerInv
<1>8. ASSUME NEW b \in Accounts, b # a PROVE Balance(b)' = Balance(b)
  <2>1. RowsOf(b)' = RowsOf(b)
    BY <1>1, <1>8, RowsAdded
  <2> QED BY <2>1 DEF Balance
<1>9. Balances' = [Balances EXCEPT ![a] =
                     IF op.kind = "set" THEN op.value ELSE Balances[a] + op.value]
  BY <1>6, <1>7, <1>8 DEF Balances, Accounts
<1>10. UsedKeys' = UsedKeys \cup ({op.key} \ {NoKey})
  BY <1>1 DEF UsedKeys
<1> QED BY <1>1, <1>2, <1>4, <1>5, <1>9, <1>10

\* Every step of the ledger is an atomic operation or changes no balance.
LEMMA StepRefines ==
  ASSUME LedgerInv, [Next]_vars
  PROVE  [Abstract!AbstractNext]_(Abstract!abstractVars)
<1>1. CASE ledger' = ledger
  <2>1. UsedKeys' = UsedKeys
    BY <1>1 DEF UsedKeys
  <2>2. \A a \in Accounts : Balance(a)' = Balance(a)
    BY <1>1, RowsKept
  <2>3. Balances' = Balances
    BY <2>2 DEF Balances, Accounts
  <2> QED BY <2>1, <2>3 DEF Abstract!abstractVars, Balances, UsedKeys
<1>2. ASSUME NEW c \in Clients, NEW r \in Row, DraftOf(c, r), r.op = call[c],
             pc[c] = "commit", AccountOfRow(r) = AccountOf(c),
             r.balanceAfter = Balance(AccountOf(c)) + r.amount, ledger' = ledger \cup {r}
      PROVE  Abstract!AbstractNext
  <2>1. PICK a \in Accounts, op \in Ops :
          /\ op.currency = a[2]
          /\ op.key \notin UsedKeys
          /\ \/ op.kind = "set"
             \/ op.allowNegative
             \/ Balances[a] + op.value >= 0
          /\ Balances' = [Balances EXCEPT ![a] =
                            IF op.kind = "set" THEN op.value ELSE Balances[a] + op.value]
          /\ UsedKeys' = UsedKeys \cup ({op.key} \ {NoKey})
    BY <1>2, CommitApplies
  <2>2. Abstract!Apply(a, op)
    BY <2>1, OpsTyped DEF Abstract!Apply, Abstract!Permitted, Abstract!Target, Balances, UsedKeys
  <2> QED BY <2>2 DEF Abstract!AbstractNext
<1> QED BY <1>1, <1>2, LedgerStep

\* The row-level ledger implements one atomic balance per account: concurrent
\* grants, consumes and resets take effect one at a time, each key once, and
\* only a permitted operation takes a balance below zero.
THEOREM LedgerRefinesAtomicLedger == Spec => Refinement
<1>1. Init => Abstract!AbstractInit
  BY DEF Init, Abstract!AbstractInit, Balance, BalanceOf, RowsOf
<1>2. LedgerInv /\ [Next]_vars => [Abstract!AbstractNext]_(Abstract!abstractVars)
  BY StepRefines
<1> QED
  BY <1>1, <1>2, LedgerInvariant, PTL DEF Spec, Refinement, Abstract!AbstractSpec

-----------------------------------------------------------------------------
\* Between its lookup and its insert, no other caller uses the key of a
\* transaction on the same account: that account is locked.
LookedUp ==
  \A c \in Clients :
    pc[c] \in {"balance", "write", "commit"} => ~UsedBy(call[c].key, RowsOf(AccountOf(c)))

\* A reply belongs to the last call, whose operation and customer stay as they
\* were until the next call.
Answered == \A c \in Clients : pc[c] # "idle" => reply[c] = "none"

RetryInv == LookedUp /\ Answered /\ RetryNeverConflicts

LEMMA RetryInit == Init => RetryInv
  BY DEF Init, RetryInv, LookedUp, Answered, RetryNeverConflicts

LEMMA LookedUpStep ==
  ASSUME LedgerInv, RetryInv, [Next]_vars
  PROVE  LookedUp'
<1>0. CASE UNCHANGED vars
  BY <1>0 DEF vars, callerVars, RetryInv, LookedUp, UsedBy, RowsOf, AccountOf
<1>1. ASSUME NEW c \in Clients,
             (\E op \in Ops : Call(c, op)) \/ ClientStep(c) \/ Rollback(c),
             NEW d \in Clients, pc'[d] \in {"balance", "write", "commit"}
      PROVE  \E a : a = AccountOf(d)' /\ ~UsedBy(call'[d].key, RowsOf(a)')
  <2>1. PICK a : a = AccountOf(d)
    OBVIOUS
  <2>2. CASE d # c
    <3>1. pc'[d] = pc[d] /\ call'[d] = call[d] /\ AccountOf(d)' = AccountOf(d)
      BY <1>1, <2>2, OthersUntouched DEF LedgerInv, TypeOK
    <3>2. ~Commit(d)
      BY <1>1, <2>2, <3>1 DEF Commit, Finish, LedgerInv, TypeOK, LedgerTypes
    <3>3. RowsOf(a)' = RowsOf(a)
      BY <1>1, <2>1, <3>1, <3>2, OwnRowsKept DEF Next, InTransaction
    <3>4. ~UsedBy(call[d].key, RowsOf(a))
      BY <1>1, <2>1, <3>1 DEF RetryInv, LookedUp
    <3> QED
      BY <2>1, <3>1, <3>3, <3>4
  <2>3. CASE d = c
    <3>1. NoExisting(c) \/ ReadBalance(c) \/ InsertEntry(c)
      BY <1>1, <2>3
      DEF LedgerInv, TypeOK, LedgerTypes, Call, ClientStep, RequireCustomer, AcquireLock, ReturnExisting,
          Insufficient, Unchanged, Duplicate, Commit, Rollback, Finish
    <3>2. ledger' = ledger /\ call' = call /\ customer' = customer
      BY <3>1 DEF NoExisting, ReadBalance, InsertEntry
    <3>3. AccountOf(c)' = AccountOf(c)
      BY <3>2 DEF AccountOf
    <3>4. RowsOf(a)' = RowsOf(a)
      BY <3>2, RowsKept
    <3>5. ~UsedBy(call[c].key, RowsOf(a))
      <4>1. CASE NoExisting(c)
        BY <4>1 DEF NoExisting, UsedBy, RowsOf
      <4>2. CASE ReadBalance(c) \/ InsertEntry(c)
        BY <2>1, <2>3, <4>2 DEF ReadBalance, InsertEntry, Writes, RetryInv, LookedUp
      <4> QED
        BY <3>1, <4>1, <4>2
    <3> QED
      BY <2>1, <2>3, <3>2, <3>3, <3>4, <3>5
  <2> QED
    BY <2>2, <2>3
<1> QED
  BY <1>0, <1>1 DEF Next, LookedUp, UsedBy

\* Only a caller's own steps change its reply and what it belongs to.
LEMMA ReplyStep ==
  ASSUME LedgerInv, RetryInv, [Next]_vars, NEW d \in Clients
  PROVE  /\ pc'[d] # "idle" => reply'[d] = "none"
         /\ \/ reply'[d] # "conflict"
            \/ reply[d] = "conflict" /\ call'[d] = call[d] /\ customer'[d] = customer[d]
            \/ Duplicate(d)
<1> USE DEF RetryInv, Answered
<1>0. CASE UNCHANGED vars
  BY <1>0 DEF vars, callerVars
<1>1. ASSUME NEW c \in Clients, c # d,
             (\E op \in Ops : Call(c, op)) \/ ClientStep(c) \/ Rollback(c)
      PROVE  pc'[d] = pc[d] /\ reply'[d] = reply[d] /\ call'[d] = call[d] /\ customer'[d] = customer[d]
  BY <1>1 DEF LedgerInv, TypeOK, LedgerTypes, Call, ClientStep, RequireCustomer, AcquireLock, ReturnExisting,
              NoExisting, ReadBalance, Insufficient, Unchanged, Duplicate, InsertEntry, Commit, Rollback, Finish
<1>2. ASSUME \E op \in Ops : Call(d, op)
      PROVE  reply'[d] = "none"
  BY <1>2 DEF LedgerInv, TypeOK, LedgerTypes, Call
<1>3. CASE RequireCustomer(d) \/ AcquireLock(d) \/ NoExisting(d) \/ ReadBalance(d) \/ InsertEntry(d)
  BY <1>3 DEF LedgerInv, TypeOK, LedgerTypes, RequireCustomer, AcquireLock, NoExisting, ReadBalance,
              InsertEntry, Writes
<1>4. CASE \E answer \in Replies \ {"conflict"} : Finish(d, answer)
  BY <1>4 DEF LedgerInv, TypeOK, LedgerTypes, Finish
<1>5. CASE Duplicate(d)
  BY <1>5 DEF LedgerInv, TypeOK, LedgerTypes, Duplicate, Finish
<1>6. CASE ReturnExisting(d) \/ Insufficient(d) \/ Unchanged(d) \/ Commit(d) \/ Rollback(d)
  BY <1>4, <1>6 DEF ReturnExisting, Insufficient, Unchanged, Commit, Rollback, Replies
<1> QED
  BY <1>0, <1>1, <1>2, <1>3, <1>5, <1>6 DEF Next, ClientStep

LEMMA RetryStep ==
  ASSUME LedgerInv, RetryInv, [Next]_vars
  PROVE  RetryNeverConflicts'
<1>1. ledger \subseteq ledger'
  BY LedgerStep
<1>2. ASSUME NEW d \in Clients, reply'[d] = "conflict", reply[d] = "conflict",
             call'[d] = call[d], customer'[d] = customer[d]
      PROVE  \E r \in ledger' : r.op.key = call'[d].key /\ AccountOfRow(r) # AccountOf(d)'
  BY <1>1, <1>2 DEF RetryInv, RetryNeverConflicts, AccountOf
<1>3. ASSUME NEW c \in Clients, Duplicate(c)
      PROVE  \E r \in ledger' : r.op.key = call'[c].key /\ AccountOfRow(r) # AccountOf(c)'
  <2>1. UsedBy(call[c].key, ledger) /\ ~UsedBy(call[c].key, RowsOf(AccountOf(c)))
    BY <1>3 DEF Duplicate, Writes, RetryInv, LookedUp
  <2>2. ledger' = ledger /\ call' = call /\ AccountOf(c)' = AccountOf(c)
    BY <1>3 DEF Duplicate, Finish, AccountOf
  <2> QED
    BY <2>1, <2>2 DEF UsedBy, RowsOf
<1> QED
  BY <1>2, <1>3, ReplyStep DEF RetryNeverConflicts

\* A retry is never answered with the unique index's conflict: a caller that
\* sees one used the key of an entry of another account.  The lookup under the
\* account's lock is enough; the index alone would make retries fail.
THEOREM RetryNeverConflictsHolds == Spec => []RetryNeverConflicts
<1>1. LedgerInv /\ RetryInv /\ [Next]_vars => RetryInv'
  BY LookedUpStep, ReplyStep, RetryStep DEF RetryInv, Answered
<1>2. RetryInv => RetryNeverConflicts
  BY DEF RetryInv
<1> QED
  BY RetryInit, LedgerInvariant, <1>1, <1>2, PTL DEF Spec

-----------------------------------------------------------------------------
(***************************************************************************)
(* The entries of an account add up to its balance: a commit adds one row, *)
(* whose amount is what the balance grows by.  So an account is overdrawn  *)
(* only where its newest row is below zero, and that row was allowed to be.*)
(***************************************************************************)

AmountsOf(rows) == [r \in rows |-> r.amount]

\* Rows below zero were allowed to be, and the total is the balance.
SumsInv ==
  /\ IsFiniteSet(ledger)
  /\ \A a \in Accounts : Total(a) = Balance(a)
  /\ \A r \in ledger : r.balanceAfter < 0 => MayOverdraw(r.op)

LEMMA TotalIsSum ==
  ASSUME NEW a
  PROVE  Total(a) = SumFunctionOnSet(AmountsOf(RowsOf(a)), RowsOf(a))
<1>1. DOMAIN AmountsOf(RowsOf(a)) = RowsOf(a)
  BY DEF AmountsOf
<1>2. Total(a) = SumFunction(AmountsOf(RowsOf(a)))
  BY DEF Total, AmountsOf
<1> QED BY <1>1, <1>2 DEF SumFunction

\* One row more adds its amount.
LEMMA AmountAdded ==
  ASSUME NEW rows, IsFiniteSet(rows), rows \subseteq Row, NEW r \in Row, r \notin rows
  PROVE  SumFunctionOnSet(AmountsOf(rows \cup {r}), rows \cup {r})
         = SumFunctionOnSet(AmountsOf(rows), rows) + r.amount
<1>1. \A s \in rows \cup {r} : AmountsOf(rows \cup {r})[s] = s.amount /\ s.amount \in Int
  BY DEF AmountsOf, Row
<1>2. \A s \in rows : AmountsOf(rows \cup {r})[s] = AmountsOf(rows)[s]
  BY DEF AmountsOf
<1>3. SumFunctionOnSet(AmountsOf(rows \cup {r}), rows \cup {r})
      = SumFunctionOnSet(AmountsOf(rows \cup {r}), rows) + AmountsOf(rows \cup {r})[r]
  BY <1>1, SumAdd
<1>4. SumFunctionOnSet(AmountsOf(rows \cup {r}), rows) = SumFunctionOnSet(AmountsOf(rows), rows)
  BY <1>2, SumSame
<1> QED BY <1>1, <1>3, <1>4

LEMMA SumsStep ==
  ASSUME LedgerInv, SumsInv, [Next]_vars
  PROVE  SumsInv'
<1>1. CASE ledger' = ledger
  <2>1. \A a \in Accounts : Total(a)' = Total(a) /\ Balance(a)' = Balance(a)
    BY <1>1, RowsKept DEF Total
  <2> QED BY <1>1, <2>1 DEF SumsInv, Accounts
<1>2. ASSUME NEW c \in Clients, NEW r \in Row, DraftOf(c, r), r.op = call[c],
             pc[c] = "commit", AccountOfRow(r) = AccountOf(c),
             r.balanceAfter = Balance(AccountOf(c)) + r.amount, ledger' = ledger \cup {r}
      PROVE  SumsInv'
  <2>1. PICK a \in Accounts, op \in Ops : a = AccountOf(c) /\ op = call[c]
    BY <1>2, AccountTyped DEF LedgerInv, InTransaction, TypeOK
  <2>2. IsFiniteSet(ledger) /\ IsFiniteSet(ledger')
    BY <1>2, FS_AddElement DEF SumsInv
  <2>3. /\ RowsOf(a) \subseteq Row /\ IsFiniteSet(RowsOf(a))
        /\ RowsOf(a)' = RowsOf(a) \cup {r} /\ \A s \in RowsOf(a) : s.at < r.at
    <3>1. RowsOf(a) \subseteq ledger /\ ledger \subseteq Row
      BY DEF RowsOf, LedgerInv, TypeOK, LedgerTypes
    <3>2. RowsOf(a)' = RowsOf(a) \cup {r}
      BY <1>2, <2>1, RowsAdded
    <3> QED BY <1>2, <2>1, <2>2, <3>1, <3>2, FS_Subset DEF DraftOf
  <2>4. r \notin RowsOf(a)
    BY <2>3 DEF Row
  <2>5. Total(a)' = Total(a) + r.amount
    <3>1. Total(a)' = SumFunctionOnSet(AmountsOf(RowsOf(a)'), RowsOf(a)')
      <4>1. DOMAIN AmountsOf(RowsOf(a)') = RowsOf(a)'
        BY DEF AmountsOf
      <4>2. Total(a)' = SumFunction(AmountsOf(RowsOf(a)'))
        BY DEF Total, AmountsOf
      <4> QED BY <4>1, <4>2 DEF SumFunction
    <3> QED BY <2>3, <2>4, <3>1, TotalIsSum, AmountAdded
  <2>6. Balance(a)' = r.balanceAfter /\ Balance(a) = Total(a)
    BY <1>2, <2>1, <2>3, BalanceAdded DEF LedgerInv, SumsInv
  <2>7. \A b \in Accounts : Total(b)' = Balance(b)'
    <3> SUFFICES ASSUME NEW b \in Accounts PROVE Total(b)' = Balance(b)'
      OBVIOUS
    <3>1. CASE b = a
      BY <1>2, <2>1, <2>5, <2>6, <3>1
    <3>2. CASE b # a
      <4>1. RowsOf(b)' = RowsOf(b)
        BY <1>2, <2>1, <3>2, RowsAdded
      <4> QED BY <4>1 DEF Total, Balance, SumsInv
    <3> QED BY <3>1, <3>2
  <2>8. r.balanceAfter < 0 => MayOverdraw(r.op)
    <3>1. /\ ~Refused(op, current[c]) /\ current[c] \in Int
          /\ r.balanceAfter = current[c] + Amount(op, current[c])
      BY <1>2, <2>1 DEF DraftOf, LedgerInv, TypeOK, LedgerTypes
    <3> QED BY <1>2, <2>1, <3>1, OpsTyped DEF Refused, Amount, MayOverdraw
  <2> QED BY <1>2, <2>2, <2>7, <2>8 DEF SumsInv, Accounts
<1> QED BY <1>1, <1>2, LedgerStep

\* What the entries of an account add up to is below zero only if an entry was
\* allowed to take it there: for any number of concurrent consumers, grants,
\* resets and retries.
THEOREM NoOverdraftHolds == Spec => []NoOverdraft
<1>1. Init => SumsInv
  <2> SUFFICES ASSUME Init PROVE SumsInv
    OBVIOUS
  <2>1. ledger = {} /\ \A a \in Accounts : RowsOf(a) = {}
    BY DEF Init, RowsOf
  <2>2. \A a \in Accounts : Total(a) = 0
    BY <2>1, TotalIsSum, SumEmpty
  <2> QED BY <2>1, <2>2, FS_EmptySet DEF SumsInv, Balance, BalanceOf
<1>2. LedgerInv /\ SumsInv /\ [Next]_vars => SumsInv'
  BY SumsStep
<1>3. LedgerInv /\ SumsInv => NoOverdraft
  <2> SUFFICES ASSUME LedgerInv, SumsInv, NEW a \in Accounts, Total(a) < 0
               PROVE  \E r \in RowsOf(a) : MayOverdraw(r.op)
    BY DEF NoOverdraft
  <2>1. Balance(a) < 0
    BY DEF SumsInv
  <2>2. RowsOf(a) # {} /\ Balance(a) = Newest(RowsOf(a)).balanceAfter
    BY <2>1 DEF Balance, BalanceOf
  <2>3. Newest(RowsOf(a)) \in RowsOf(a)
    BY <2>2 DEF LedgerInv, HasNewest, Newest
  <2> QED BY <2>1, <2>2, <2>3 DEF SumsInv, RowsOf
<1> QED BY LedgerInvariant, <1>1, <1>2, <1>3, PTL DEF Spec
-----------------------------------------------------------------------------
\* Waiting.  A lock is held by the caller whose transaction took it, and a step
\* takes a free lock or frees the caller's own.
CallerLocks ==
  \A a \in Accounts : \A c \in Clients : lock[a] = c => pc[c] \in InTransaction /\ a = AccountOf(c)

LEMMA LockMoves ==
  ASSUME NEW holders, Clients \subseteq holders, Free \in holders, LedgerTypes(holders), Control, CallerLocks, Next
  PROVE  \E c \in Clients :
           /\ \A d \in Clients \ {c} : pc'[d] = pc[d] /\ AccountOf(d)' = AccountOf(d)
           /\ \A a \in Accounts :
                \/ lock'[a] = lock[a] /\ lock[a] # c
                \/ lock'[a] = Free
                \/ lock'[a] = c /\ lock[a] \in {c, Free} /\ pc'[c] \in InTransaction /\ a = AccountOf(c)'
<1> USE DEF LedgerTypes
<1>1. PICK c \in Clients : (\E op \in Ops : Call(c, op)) \/ ClientStep(c) \/ Rollback(c)
  BY DEF Next
<1>2. \A d \in Clients \ {c} : pc'[d] = pc[d] /\ AccountOf(d)' = AccountOf(d)
  BY <1>1 DEF Call, ClientStep, RequireCustomer, AcquireLock, ReturnExisting, NoExisting, ReadBalance,
              Insufficient, Unchanged, Duplicate, InsertEntry, Commit, Rollback, Finish, AccountOf
<1> DEFINE Moves == \A a \in Accounts :
                      \/ lock'[a] = lock[a] /\ lock[a] # c
                      \/ lock'[a] = Free
                      \/ lock'[a] = c /\ lock[a] \in {c, Free} /\ pc'[c] \in InTransaction /\ a = AccountOf(c)'
<1> SUFFICES Moves
  BY <1>2
<1>3. ASSUME pc[c] \notin InTransaction, UNCHANGED lock PROVE Moves
  BY <1>3 DEF CallerLocks
<1>4. CASE AcquireLock(c)
  <2>1. pc'[c] \in InTransaction /\ AccountOf(c)' = AccountOf(c) /\ pc[c] \notin InTransaction
    BY <1>4 DEF AcquireLock, InTransaction, AccountOf
  <2>2. \A a \in Accounts : lock[a] # c
    BY <2>1 DEF CallerLocks
  <2>3. \A a \in Accounts : lock'[a] = IF a = AccountOf(c) THEN c ELSE lock[a]
    BY <1>4 DEF AcquireLock
  <2>4. lock[AccountOf(c)] = Free
    BY <1>4 DEF AcquireLock
  <2> QED
    BY <2>1, <2>2, <2>3, <2>4
<1>5. CASE pc[c] \in InTransaction /\ lock' = [lock EXCEPT ![AccountOf(c)] = Free]
  <2>1. \A a \in Accounts : lock'[a] = IF a = AccountOf(c) THEN Free ELSE lock[a]
    BY <1>5
  <2> QED
    BY <2>1 DEF CallerLocks
<1>6. CASE UNCHANGED <<lock, call, customer>> /\ pc[c] \in InTransaction /\ pc'[c] \in InTransaction
  <2>1. AccountOf(c)' = AccountOf(c)
    BY <1>6 DEF AccountOf
  <2> QED
    BY <1>6, <2>1 DEF CallerLocks
<1>7. CASE (\E op \in Ops : Call(c, op)) \/ RequireCustomer(c)
  BY <1>3, <1>7 DEF Call, RequireCustomer, InTransaction
<1>8. CASE NoExisting(c) \/ ReadBalance(c) \/ InsertEntry(c)
  BY <1>6, <1>8 DEF NoExisting, ReadBalance, InsertEntry, Writes, InTransaction
<1>9. CASE ReturnExisting(c) \/ Insufficient(c) \/ Unchanged(c) \/ Duplicate(c) \/ Commit(c) \/ Rollback(c)
  BY <1>5, <1>9 DEF ReturnExisting, Insufficient, Unchanged, Duplicate, Writes, Commit, Rollback, Finish, InTransaction
<1> QED
  BY <1>1, <1>4, <1>7, <1>8, <1>9 DEF ClientStep

LEMMA CallerLocksStep ==
  ASSUME NEW holders, Clients \subseteq holders, Free \in holders, LedgerTypes(holders), Control, CallerLocks, Next
  PROVE  CallerLocks'
<1>1. PICK c \in Clients :
        /\ \A d \in Clients \ {c} : pc'[d] = pc[d] /\ AccountOf(d)' = AccountOf(d)
        /\ \A a \in Accounts :
             \/ lock'[a] = lock[a] /\ lock[a] # c
             \/ lock'[a] = Free
             \/ lock'[a] = c /\ lock[a] \in {c, Free} /\ pc'[c] \in InTransaction /\ a = AccountOf(c)'
  BY LockMoves
<1> QED
  BY <1>1, NamesAssumption DEF CallerLocks

\* Whoever waits for a duplicate waits for a transaction at its commit, which
\* does not wait: so a caller in a transaction is never where all callers wait.
LEMMA WaitersBeforeTransactions ==
  ASSUME \A c \in Clients : pc[c] # "commit" => draft[c] = {},
         \A c \in Clients : pc[c] # "idle" => CallerWaits(c),
         NEW c \in Clients, pc[c] # "idle"
  PROVE  pc[c] = "lock" /\ lock[AccountOf(c)] # Free
<1>1. ASSUME WaitsForDuplicate(c) PROVE FALSE
  <2>1. PICK d \in Clients : draft[d] # {}
    BY <1>1 DEF WaitsForDuplicate, UsedBy
  <2>2. pc[d] = "commit"
    BY <2>1
  <2> QED
    BY <2>2 DEF CallerWaits
<1> QED
  BY <1>1 DEF CallerWaits

\* The safety half of CallsReturn: callers never all wait for each other, for
\* any number of them, of accounts and of keys reused across accounts: while one
\* of them is in the middle of a call, one of them has a step to take.
SomeCallerProceeds ==
  (\E c \in Clients : pc[c] # "idle") => \E c \in Clients : pc[c] # "idle" /\ ~CallerWaits(c)

THEOREM SomeCallerProceedsHolds == Spec => []SomeCallerProceeds
<1>1. Init => CallerLocks
  BY NamesAssumption DEF Init, CallerLocks
<1>2. LedgerInv /\ CallerLocks /\ [Next]_vars => CallerLocks'
  <2>1. ASSUME UNCHANGED vars, CallerLocks PROVE CallerLocks'
    BY <2>1 DEF vars, callerVars, CallerLocks, AccountOf
  <2>2. ASSUME LedgerInv, CallerLocks, Next PROVE CallerLocks'
    BY <2>2, CallerLocksStep DEF LedgerInv, TypeOK
  <2> QED
    BY <2>1, <2>2
<1>3. ASSUME LedgerInv, CallerLocks PROVE SomeCallerProceeds
  <2> SUFFICES ASSUME \A c \in Clients : pc[c] # "idle" => CallerWaits(c),
                      NEW c \in Clients, pc[c] # "idle"
               PROVE  FALSE
    BY DEF SomeCallerProceeds
  <2>1. \A d \in Clients : pc[d] # "commit" => draft[d] = {}
    BY <1>3 DEF LedgerInv, Drafts
  <2>2. \A d \in Clients : pc[d] # "idle" => pc[d] = "lock" /\ lock[AccountOf(d)] # Free
    BY <2>1, WaitersBeforeTransactions
  <2>3. AccountOf(c) \in Accounts
    BY <1>3, <2>2, AccountTyped DEF LedgerInv, TypeOK
  <2>4. PICK d \in Clients : lock[AccountOf(c)] = d
    BY <1>3, <2>2, <2>3 DEF LedgerInv, TypeOK, LedgerTypes
  <2>5. pc[d] \in InTransaction
    BY <1>3, <2>3, <2>4 DEF CallerLocks
  <2> QED
    BY <2>2, <2>5 DEF InTransaction
<1> QED
  BY <1>1, <1>2, <1>3, LedgerInvariant, PTL DEF Spec
=============================================================================
