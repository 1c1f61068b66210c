---------------------------- MODULE MCUpdateCheck ----------------------------
(* An instance of UpdateCheck, and the RolloutDraw in it, for TLC. *)
EXTENDS UpdateCheck
=============================================================================
