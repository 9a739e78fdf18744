-------------------------- MODULE MCChargePayments --------------------------
(* Small instances of ChargePayments for TLC.                               *)
EXTENDS ChargePayments, TLC

Symmetry == Permutations(Calls) \cup Permutations(Keys)
                \cup Permutations(Handlers)

=============================================================================
