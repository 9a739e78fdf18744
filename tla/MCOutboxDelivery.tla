-------------------------- MODULE MCOutboxDelivery --------------------------
(***************************************************************************)
(* Small instances of OutboxDelivery.                                       *)
(***************************************************************************)
EXTENDS OutboxDelivery, TLC

Budget(relay, workerCrash, stall, database) ==
    [k \in FaultKinds |->
        CASE k = "relay"       -> relay
          [] k = "workerCrash" -> workerCrash
          [] k = "stall"       -> stall
          [] k = "database"    -> database]

WorkerFaults == Budget(0, 2, 1, 1)
RelayFaults  == Budget(2, 0, 0, 0)

\* Replicas, worker slots and tokens are interchangeable.
Symmetry == Permutations(Relays) \cup Permutations(Workers)
                \cup Permutations(Tokens)

=============================================================================
