------------------------- MODULE MCIdempotencyLease -------------------------
(***************************************************************************)
(* Small instances for TLC.  A scope of idempotency_records is served by    *)
(* runIdempotent or by runIdempotentTransaction, and rows of different      *)
(* scopes never meet: either function is explored by itself.                *)
(***************************************************************************)
EXTENDS IdempotencyLease, IdempotentTransaction, TLC

VARIABLE servedBy

ScopeInit == Init /\ TxInit /\ servedBy \in {"lease", "transaction"}

ScopeNext ==
    /\ \/ servedBy = "lease" /\ Next /\ UNCHANGED txVars
       \/ servedBy = "transaction" /\ TxNext /\ UNCHANGED vars
    /\ UNCHANGED servedBy

ScopeSpec == ScopeInit /\ [][ScopeNext]_<<vars, txVars, servedBy>>

\* The cfg gives both functions the same requests in flight.
Symmetry == Permutations(Callers) \cup Permutations(Tokens)
                \cup Permutations(Requests)

=============================================================================
