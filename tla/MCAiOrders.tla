----------------------------- MODULE MCAiOrders -----------------------------
(***************************************************************************)
(* AiOrders on small instances.                                            *)
(***************************************************************************)
EXTENDS AiOrders, TLC

Symmetric == Permutations(Workers) \cup Permutations(Orders)
=============================================================================
