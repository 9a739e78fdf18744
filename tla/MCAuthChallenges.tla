-------------------------- MODULE MCAuthChallenges --------------------------
(* One account, its address and two others.                                  *)
EXTENDS AuthChallenges

=============================================================================
