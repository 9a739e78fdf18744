-------------------------- MODULE MCOrganization ---------------------------
(***************************************************************************)
(* Small instances for TLC.  The members of an organization and the         *)
(* conversations of users share no state: either is explored by itself.      *)
(***************************************************************************)
EXTENDS Memberships, Chat, TLC

VARIABLE part

OrganizationInit ==
    /\ Init /\ ChatInit
    /\ part \in {"members", "chat"} /\ (part = "chat" => tenancy = "multi")

OrganizationNext ==
    /\ \/ part = "members" /\ Next /\ UNCHANGED chatVars
       \/ part = "chat" /\ ChatNext /\ UNCHANGED vars
    /\ UNCHANGED part

\* The conversations have the fairness of their gateway, the members need none.
OrganizationSpec ==
    /\ OrganizationInit /\ [][OrganizationNext]_<<vars, chatVars, part>>
    /\ part = "chat" => ChatFairness

=============================================================================
