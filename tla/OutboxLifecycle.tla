-------------------------- MODULE OutboxLifecycle --------------------------
(***************************************************************************)
(* What the outbox promises about one event, whoever relays, processes,    *)
(* redrives, erases or purges it: it waits, is processed by one attempt    *)
(* after another, and ends delivered or dead.  An ending is final for its  *)
(* generation; only a redrive leaves it, into the next generation.         *)
(***************************************************************************)
EXTENDS Naturals

CONSTANT Events

VARIABLES phase, generation

Init ==
    /\ phase = [e \in Events |-> "absent"]
    /\ generation = [e \in Events |-> 0]

Move(e, from, to) ==
    /\ phase[e] \in from
    /\ phase' = [phase EXCEPT ![e] = to]
    /\ UNCHANGED generation

Insert(e)  == Move(e, {"absent"}, "waiting")
Attempt(e) == Move(e, {"waiting"}, "processing")
Retry(e)   == Move(e, {"processing"}, "waiting")
Deliver(e) == Move(e, {"processing"}, "delivered")
Bury(e)    == Move(e, {"waiting", "processing"}, "dead")
Forget(e)  == Move(e, {"delivered", "dead"}, "gone")

Redrive(e) ==
    /\ phase[e] = "dead"
    /\ phase' = [phase EXCEPT ![e] = "waiting"]
    /\ generation' = [generation EXCEPT ![e] = @ + 1]

Next ==
    \E e \in Events :
        \/ Insert(e) \/ Attempt(e) \/ Retry(e) \/ Deliver(e) \/ Bury(e)
        \/ Forget(e) \/ Redrive(e)

Spec == Init /\ [][Next]_<<phase, generation>>

=============================================================================
