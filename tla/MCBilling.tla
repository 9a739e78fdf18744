----------------------------- MODULE MCBilling -----------------------------
(* One user with two cards and a payment to refund.                          *)
EXTENDS Billing

=============================================================================
