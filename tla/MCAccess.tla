------------------------------ MODULE MCAccess ------------------------------
(* Small instances of Access for TLC.                                       *)
EXTENDS Access, TLC

Symmetry == Permutations(Callers)

\* With one user nothing is left to check once an epoch was missed.
NothingMissed == missed = {}

=============================================================================
