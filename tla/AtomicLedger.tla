---------------------------- MODULE AtomicLedger ----------------------------
(***************************************************************************)
(* What the credit ledger promises, with no transactions, locks or rows:   *)
(* one balance per account and the set of idempotency keys already used.   *)
(* An operation takes effect in one step, at most once per key, and never  *)
(* takes a balance below zero unless the caller asked for it.              *)
(* CreditLedger is shown to implement this module.                         *)
(***************************************************************************)
EXTENDS Integers

CONSTANTS
  Accounts,      \* the (customer, currency) pairs a balance is kept for
  Ops,           \* the ledger operations callers may issue
  NoKey          \* the key of an operation called without idempotency key

VARIABLES
  balance,       \* [Accounts -> Int]
  usedKeys       \* keys of the operations that took effect

abstractVars == <<balance, usedKeys>>

\* A caller either moves the balance by op.value or sets it to op.value.
Target(op, current) == IF op.kind = "set" THEN op.value ELSE current + op.value

\* appendCreditTransaction refuses a negative result unless allowNegative;
\* setCreditLedgerBalance takes any target.
Permitted(op, current) ==
  \/ op.kind = "set"
  \/ op.allowNegative
  \/ Target(op, current) >= 0

AbstractInit ==
  /\ balance = [a \in Accounts |-> 0]
  /\ usedKeys = {}

Apply(a, op) ==
  /\ op.currency = a[2]
  /\ op.key \notin usedKeys
  /\ Permitted(op, balance[a])
  /\ balance' = [balance EXCEPT ![a] = Target(op, balance[a])]
  /\ usedKeys' = usedKeys \cup ({op.key} \ {NoKey})

AbstractNext == \E a \in Accounts, op \in Ops : Apply(a, op)

AbstractSpec == AbstractInit /\ [][AbstractNext]_abstractVars
=============================================================================
