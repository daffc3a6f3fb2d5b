--------------------------- MODULE MCCreditLedger ---------------------------
(* Two callers over one customer and two currencies.  The operations are a  *)
(* keyed grant, an unkeyed and a keyed consume, a keyed and an unkeyed set, *)
(* and a consume allowed to overdraw; key k2 is used in both currencies.    *)
EXTENDS CreditLedger

CONSTANTS k1, k2, usd, mcr

Op(kind, value, allow, currency, key) ==
  [kind |-> kind, value |-> value, allowNegative |-> allow,
   currency |-> currency, key |-> key]

MCKeys == {k1, k2}
MCCurrencies == {usd, mcr}
MCOps ==
  { Op("append", 2, FALSE, usd, k1),
    Op("append", -2, FALSE, usd, NoKey),
    Op("append", -1, TRUE, usd, k2),
    Op("set", 1, FALSE, usd, NoKey),
    Op("set", 1, FALSE, mcr, k2) }
=============================================================================
