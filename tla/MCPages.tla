------------------------------- MODULE MCPages -------------------------------
(* Two pictures and three requests; slugs of up to three characters. *)
EXTENDS Pages
=============================================================================
