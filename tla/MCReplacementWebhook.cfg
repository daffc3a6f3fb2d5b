SPECIFICATION ReplacementSpec
CONSTANTS
  Clients = {u}
  Ensurers = {e}
  Customers = {cus1, cus2}
  WebhooksConfigured = TRUE
  k1 = k1
  usd = usd
  mcr = mcr
  Keys <- MCKeys
  Currencies <- MCCurrencies
  Ops <- MCGrant
  NoKey = NoKey
  NoOp = NoOp
  NoCustomer = NoCustomer
  Free = Free
  MaxCalls = 1
  MaxEnsures = 1
CHECK_DEADLOCK FALSE
INVARIANTS
  LedgerFollowsCustomer
