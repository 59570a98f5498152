------------------------------ MODULE MCComments ------------------------------
(* One root and pages of one: two writes while the tab is open, and a fault. *)
EXTENDS Comments
=============================================================================
