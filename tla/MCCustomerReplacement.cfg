SPECIFICATION ReplacementSpec
CONSTANTS
  Clients = {u}
  Ensurers = {e, f}
  Customers = {cus1, cus2}
  WebhooksConfigured = TRUE
  k1 = k1
  usd = usd
  mcr = mcr
  Keys <- MCKeys
  Currencies <- MCCurrencies
  Ops <- MCOps
  NoKey = NoKey
  NoOp = NoOp
  NoCustomer = NoCustomer
  Free = Free
  MaxCalls = 2
  MaxEnsures = 2
CHECK_DEADLOCK FALSE
INVARIANTS
  OneLiveCustomer
  SomeoneProceeds
PROPERTIES
  RowsPreserved
  NoWriteLandsWhileMoving
