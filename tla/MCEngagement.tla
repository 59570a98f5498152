---------------------------- MODULE MCEngagement ----------------------------
(***************************************************************************)
(* Engagement on a small instance.                                         *)
(***************************************************************************)
EXTENDS Engagement, TLC
=============================================================================
