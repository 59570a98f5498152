----------------------------- MODULE MCPayments -----------------------------
(***************************************************************************)
(* Payments on small instances.  The runs check liveness, so no symmetry   *)
(* is used.                                                                *)
(***************************************************************************)
EXTENDS Payments, TLC
=============================================================================
