-------------------------- MODULE MCBillingWebhooks --------------------------
(* Two workers and two events: a change of the subscription and, a second   *)
(* later, its cancellation.                                                 *)
EXTENDS BillingWebhooks

MCSecond == [e \in Keys |-> e]
MCCancels == {e \in Keys : \A d \in Keys : d <= e}
=============================================================================
