----------------------------- MODULE MCPostEditor -----------------------------
(* The edit page with a bound on the timer's attempts. *)
EXTENDS PostEditor
=============================================================================
