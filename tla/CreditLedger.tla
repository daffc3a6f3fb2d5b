---------------------------- MODULE CreditLedger ----------------------------
(***************************************************************************)
(* The prepaid credit ledger of @mariachi/billing over Postgres: callers   *)
(* run grantCredits, consumeCredits and setCreditBalance; each reads the   *)
(* tenant's customer, then opens a READ COMMITTED transaction that takes   *)
(* the advisory lock of (tenant, customer, currency), looks the            *)
(* idempotency key up, reads the balance, inserts one row and commits.     *)
(* One action is one SQL statement: others run between any two of them.    *)
(*                                                                         *)
(* One tenant is modelled: every key, index and query of the code carries  *)
(* the tenant id.  An omitted key of grant or consume is a generated UUID, *)
(* which nobody else uses: it is NoKey here, as is setCreditBalance's null.*)
(***************************************************************************)
EXTENDS Integers, Functions

CONSTANTS
  Clients,       \* concurrent callers, each one request at a time
  Customers,     \* provider customer ids
  Currencies,
  Keys,          \* caller-chosen idempotency keys
  NoKey,
  Ops,           \* the operations callers may issue
  NoOp,          \* the operation of a caller that has made no call yet
  NoCustomer,    \* the customer of a caller that has not read one yet
  Free,          \* an advisory lock nobody holds
  MaxCalls       \* bound on the calls of a behaviour

Accounts == Customers \X Currencies

OpType == [kind : {"append", "set"}, value : Int, allowNegative : BOOLEAN,
           currency : Currencies, key : Keys \cup {NoKey}]

ASSUME OpsAssumption ==
  /\ Ops \subseteq OpType
  /\ NoKey \notin Keys

ASSUME NamesAssumption ==
  Free \notin Clients /\ NoCustomer \notin Customers /\ NoOp \notin Ops

ASSUME BoundAssumption == MaxCalls \in Nat

VARIABLES
  customers,     \* billing_customers: [Customers -> {"absent", "live", "deleted"}]
  ledger,        \* committed rows of billing_credit_transactions
  clock,         \* the database clock that stamps createdAt
  lock,          \* pg_advisory_xact_lock holders: [Accounts -> Clients \cup {Free}]
  pc,            \* the statement each caller runs next
  call,          \* the operation it runs
  customer,      \* the customer it read before its transaction
  current,       \* the balance its transaction read
  draft,         \* its uncommitted row: {} or {row}
  reply,         \* what its last call returned
  calls          \* calls started so far

callerVars == <<pc, call, customer, current, draft, reply, calls>>
vars == <<customers, ledger, clock, lock, callerVars>>

-----------------------------------------------------------------------------
Row == [at : Nat, customer : Customers, op : OpType, amount : Int, balanceAfter : Int]

Replies == {"none", "ok", "insufficient-credits", "customer-not-found",
            "unchanged", "conflict", "failed"}

\* Statements between BEGIN and COMMIT, where the caller holds its lock.
InTransaction == {"lookup", "balance", "write", "commit"}

Steps == {"idle", "customer", "lock"} \cup InTransaction

AccountOfRow(r) == <<r.customer, r.op.currency>>
AccountOf(c) == <<customer[c], call[c].currency>>

RowsOf(a) == {r \in ledger : AccountOfRow(r) = a}

\* select balance_after ... order by created_at desc limit 1, 0 without rows.
Newest(rows) == CHOOSE r \in rows : \A s \in rows : s.at <= r.at
BalanceOf(rows) == IF rows = {} THEN 0 ELSE Newest(rows).balanceAfter
Balance(a) == BalanceOf(RowsOf(a))

UsedBy(key, rows) == key # NoKey /\ \E r \in rows : r.op.key = key

Live(c) == customers[c] = "live"

\* Mutant: the target of a set is written as the amount.
TargetAsAmount(op, balance) == op.value

\* Mutant: the balance is checked before the operation, not after it.
RefusedTooLate(op, balance) ==
  op.kind = "append" /\ ~op.allowNegative /\ balance < 0

\* The row the operation inserts: setCreditLedgerBalance computes the amount.
Amount(op, balance) == IF op.kind = "set" THEN op.value - balance ELSE op.value
Refused(op, balance) ==
  op.kind = "append" /\ ~op.allowNegative /\ balance + op.value < 0
NothingToDo(op, balance) ==
  op.kind = "set" /\ op.key = NoKey /\ op.value = balance

-----------------------------------------------------------------------------
Init ==
  /\ customers \in {f \in [Customers -> {"absent", "live"}] :
                      \A c, d \in Customers : f[c] = "live" /\ f[d] = "live" => c = d}
  /\ ledger = {}
  /\ clock = 0
  /\ lock = [a \in Accounts |-> Free]
  /\ pc = [c \in Clients |-> "idle"]
  /\ call = [c \in Clients |-> NoOp]
  /\ customer = [c \in Clients |-> NoCustomer]
  /\ current = [c \in Clients |-> 0]
  /\ draft = [c \in Clients |-> {}]
  /\ reply = [c \in Clients |-> "none"]
  /\ calls = 0

\* grantCredits, consumeCredits or setCreditBalance is called, possibly as the
\* retry of an earlier call with the same key.
Call(c, op) ==
  /\ pc[c] = "idle"
  /\ calls < MaxCalls
  /\ calls' = calls + 1
  /\ call' = [call EXCEPT ![c] = op]
  /\ reply' = [reply EXCEPT ![c] = "none"]
  /\ pc' = [pc EXCEPT ![c] = "customer"]
  /\ UNCHANGED <<customers, ledger, clock, lock, customer, current, draft>>

\* ledgerEntry: requireCustomer runs before the transaction and its lock.
RequireCustomer(c) ==
  /\ pc[c] = "customer"
  /\ \/ /\ \E k \in Customers :
             /\ Live(k)
             /\ customer' = [customer EXCEPT ![c] = k]
        /\ pc' = [pc EXCEPT ![c] = "lock"]
        /\ UNCHANGED reply
     \/ /\ \A k \in Customers : ~Live(k)
        /\ reply' = [reply EXCEPT ![c] = "customer-not-found"]
        /\ pc' = [pc EXCEPT ![c] = "idle"]
        /\ UNCHANGED customer
  /\ UNCHANGED <<customers, ledger, clock, lock, call, current, draft, calls>>

\* Mutant: the lock is not waited for (pg_try_advisory_xact_lock, unchecked).
AcquireWithoutWaiting(c) ==
  /\ pc[c] = "lock"
  /\ lock' = [lock EXCEPT ![AccountOf(c)] = c]
  /\ pc' = [pc EXCEPT ![c] = "lookup"]
  /\ UNCHANGED <<customers, ledger, clock, call, customer, current, draft, reply, calls>>

\* select pg_advisory_xact_lock(...): waits while another transaction holds it.
AcquireLock(c) ==
  /\ pc[c] = "lock"
  /\ lock[AccountOf(c)] = Free
  /\ lock' = [lock EXCEPT ![AccountOf(c)] = c]
  /\ pc' = [pc EXCEPT ![c] = "lookup"]
  /\ UNCHANGED <<customers, ledger, clock, call, customer, current, draft, reply, calls>>

\* The transaction ends: its advisory lock is released, its locals are gone and
\* its caller has the answer.
Finish(c, answer) ==
  /\ lock' = [lock EXCEPT ![AccountOf(c)] = Free]
  /\ draft' = [draft EXCEPT ![c] = {}]
  /\ reply' = [reply EXCEPT ![c] = answer]
  /\ current' = [current EXCEPT ![c] = 0]
  /\ pc' = [pc EXCEPT ![c] = "idle"]
  /\ UNCHANGED <<customers, call, customer, calls>>

\* The key was used: the existing entry is returned and nothing is written.
ReturnExisting(c) ==
  /\ pc[c] = "lookup"
  /\ UsedBy(call[c].key, ledger)
  /\ Finish(c, "ok")
  /\ UNCHANGED <<ledger, clock>>

\* Mutant: the key is not looked up.
SkipLookup(c) ==
  /\ pc[c] = "lookup"
  /\ pc' = [pc EXCEPT ![c] = "balance"]
  /\ UNCHANGED <<customers, ledger, clock, lock, call, customer, current, draft, reply, calls>>

NoExisting(c) ==
  /\ pc[c] = "lookup"
  /\ ~UsedBy(call[c].key, ledger)
  /\ pc' = [pc EXCEPT ![c] = "balance"]
  /\ UNCHANGED <<customers, ledger, clock, lock, call, customer, current, draft, reply, calls>>

ReadBalance(c) ==
  /\ pc[c] = "balance"
  /\ current' = [current EXCEPT ![c] = Balance(AccountOf(c))]
  /\ pc' = [pc EXCEPT ![c] = "write"]
  /\ UNCHANGED <<customers, ledger, clock, lock, call, customer, draft, reply, calls>>

\* Mutant: the error leaves the transaction open, its lock held.
ThrowWithoutRollback(c) ==
  /\ pc[c] = "write"
  /\ Refused(call[c], current[c])
  /\ reply' = [reply EXCEPT ![c] = "insufficient-credits"]
  /\ pc' = [pc EXCEPT ![c] = "idle"]
  /\ UNCHANGED <<customers, ledger, clock, lock, call, customer, current, draft, calls>>

Insufficient(c) ==
  /\ pc[c] = "write"
  /\ Refused(call[c], current[c])
  /\ Finish(c, "insufficient-credits")
  /\ UNCHANGED <<ledger, clock>>

Unchanged(c) ==
  /\ pc[c] = "write"
  /\ NothingToDo(call[c], current[c])
  /\ Finish(c, "unchanged")
  /\ UNCHANGED <<ledger, clock>>

\* The unique index on (tenant, key): an insert waits for an uncommitted
\* duplicate, and fails on a committed one.
WaitsForDuplicate(c) ==
  \E d \in Clients \ {c} : UsedBy(call[c].key, draft[d])

Writes(c) ==
  /\ pc[c] = "write"
  /\ ~Refused(call[c], current[c])
  /\ ~NothingToDo(call[c], current[c])
  /\ ~WaitsForDuplicate(c)

\* Mutant: the driver's error reaches the caller as it is.
RawDuplicate(c) ==
  /\ Writes(c)
  /\ UsedBy(call[c].key, ledger)
  /\ Finish(c, "unique-violation")
  /\ UNCHANGED <<ledger, clock>>

Duplicate(c) ==
  /\ Writes(c)
  /\ UsedBy(call[c].key, ledger)
  /\ Finish(c, "conflict")
  /\ UNCHANGED <<ledger, clock>>

\* insertEntry: created_at is clock_timestamp(), the time of the statement.
NewRow(c) ==
  [at |-> clock + 1, customer |-> customer[c], op |-> call[c],
   amount |-> Amount(call[c], current[c]),
   balanceAfter |-> current[c] + Amount(call[c], current[c])]

\* Mutant: no unique index on the key.
InsertUnindexed(c) ==
  /\ pc[c] = "write"
  /\ ~Refused(call[c], current[c])
  /\ ~NothingToDo(call[c], current[c])
  /\ clock' = clock + 1
  /\ draft' = [draft EXCEPT ![c] = {NewRow(c)}]
  /\ pc' = [pc EXCEPT ![c] = "commit"]
  /\ UNCHANGED <<customers, ledger, lock, call, customer, current, reply, calls>>

InsertEntry(c) ==
  /\ Writes(c)
  /\ ~UsedBy(call[c].key, ledger)
  /\ clock' = clock + 1
  /\ draft' = [draft EXCEPT ![c] = {NewRow(c)}]
  /\ pc' = [pc EXCEPT ![c] = "commit"]
  /\ UNCHANGED <<customers, ledger, lock, call, customer, current, reply, calls>>

\* COMMIT; its acknowledgement may be lost on the way to the caller.
Commit(c) ==
  /\ pc[c] = "commit"
  /\ ledger' = ledger \cup draft[c]
  /\ \E answer \in {"ok", "failed"} : Finish(c, answer)
  /\ UNCHANGED clock

\* A statement fails or the connection is lost: everything is rolled back.
Rollback(c) ==
  /\ pc[c] \in InTransaction
  /\ Finish(c, "failed")
  /\ UNCHANGED <<ledger, clock>>

ClientStep(c) ==
  \/ RequireCustomer(c)
  \/ AcquireLock(c)
  \/ ReturnExisting(c)
  \/ NoExisting(c)
  \/ ReadBalance(c)
  \/ Insufficient(c)
  \/ Unchanged(c)
  \/ Duplicate(c)
  \/ InsertEntry(c)
  \/ Commit(c)

Next ==
  \E c \in Clients :
    \/ \E op \in Ops : Call(c, op)
    \/ ClientStep(c)
    \/ Rollback(c)

Spec == Init /\ [][Next]_vars

\* A caller keeps issuing its statements and Postgres keeps answering them;
\* waiters of an advisory lock are woken in turn.
FairSpec ==
  /\ Spec
  /\ \A c \in Clients : WF_vars(ClientStep(c)) /\ SF_vars(AcquireLock(c))

\* Who waits: for an advisory lock, or for a transaction that inserted the same
\* key.  No other step of a caller does.
CallerWaits(c) ==
  \/ pc[c] = "lock" /\ lock[AccountOf(c)] # Free
  \/ pc[c] = "write" /\ WaitsForDuplicate(c)

-----------------------------------------------------------------------------
\* Types of the tables, the locks and the callers' local state.
LedgerTypes(holders) ==
  /\ customers \in [Customers -> {"absent", "live", "deleted"}]
  /\ ledger \subseteq Row
  /\ clock \in Nat
  /\ lock \in [Accounts -> holders]
  /\ pc \in [Clients -> Steps]
  /\ call \in [Clients -> Ops \cup {NoOp}]
  /\ customer \in [Clients -> Customers \cup {NoCustomer}]
  /\ current \in [Clients -> Int]
  /\ draft \in [Clients -> SUBSET Row]
  /\ reply \in [Clients -> Replies]
  /\ calls \in Nat

TypeOK == LedgerTypes(Clients \cup {Free})

EarlierRows(r) == {s \in RowsOf(AccountOfRow(r)) : s.at < r.at}

\* The schema's "balanceAfter is the running balance per (tenant, customer,
\* currency)": every entry continues the entry written just before it in its
\* account, whatever the callers' statements were interleaved with.
RunningBalance ==
  \A r \in ledger : r.balanceAfter = r.amount + BalanceOf(EarlierRows(r))

\* A keyed operation is applied at most once, however often and from however
\* many callers it is retried, and even when a commit's answer was lost.
KeyAppliedOnce ==
  \A r, s \in ledger : (r.op.key = s.op.key /\ r.op.key # NoKey) => r = s

\* "Reusing the key returns the original entry": a retry on the account the key
\* was used on is answered from the ledger.  Only a key reused for ANOTHER
\* account (another currency) can meet the unique index.
RetryNeverConflicts ==
  \A c \in Clients :
    reply[c] = "conflict" =>
      \E r \in ledger : r.op.key = call[c].key /\ AccountOfRow(r) # AccountOf(c)

\* What the entries of an account add up to.
Total(a) == SumFunction([r \in RowsOf(a) |-> r.amount])

MayOverdraw(op) == op.allowNegative \/ (op.kind = "set" /\ op.value < 0)

\* "Concurrent consumers can't overdraw": the entries of an account add up to
\* a negative number only if one of them was allowed to.
NoOverdraft ==
  \A a \in Accounts : Total(a) < 0 => \E r \in RowsOf(a) : MayOverdraw(r.op)

\* Every call returns: locks are released on each path out of the transaction
\* and no two transactions wait for each other.
CallsReturn == \A c \in Clients : pc[c] # "idle" ~> pc[c] = "idle"

\* The ledger implements one atomic balance per account.
Abstract ==
  INSTANCE AtomicLedger WITH
    balance <- [a \in Accounts |-> Balance(a)],
    usedKeys <- {r.op.key : r \in ledger} \ {NoKey}

Refinement == Abstract!AbstractSpec
=============================================================================
