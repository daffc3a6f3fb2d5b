------------------------ MODULE MCCustomerReplacement ------------------------
(* Callers that grant in either of two currencies while the tenant's customer *)
(* is verified, deleted at the provider and replaced.                         *)
EXTENDS CustomerReplacement

CONSTANTS k1, usd, mcr

Op(kind, value, currency, key) ==
  [kind |-> kind, value |-> value, allowNegative |-> FALSE,
   currency |-> currency, key |-> key]

MCKeys == {k1}
MCCurrencies == {usd, mcr}
MCOps == {Op("append", 2, usd, k1), Op("append", 1, mcr, NoKey)}
MCGrant == {Op("append", 2, usd, k1)}
=============================================================================
