SPECIFICATION FairSpec
CONSTANTS
  Clients = {u, v}
  Customers = {cus1}
  k1 = k1
  k2 = k2
  usd = usd
  mcr = mcr
  Keys <- MCKeys
  Currencies <- MCCurrencies
  Ops <- MCOps
  NoKey = NoKey
  NoOp = NoOp
  NoCustomer = NoCustomer
  Free = Free
  MaxCalls = 4
CHECK_DEADLOCK FALSE
INVARIANTS
  TypeOK
  RunningBalance
  KeyAppliedOnce
  RetryNeverConflicts
  NoOverdraft
PROPERTIES
  Refinement
  CallsReturn
