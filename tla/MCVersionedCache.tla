-------------------------- MODULE MCVersionedCache --------------------------
(***************************************************************************)
(* VersionedCache on small instances.                                      *)
(***************************************************************************)
EXTENDS VersionedCache, TLC

Symmetric == Permutations(Readers) \cup Permutations(Writers)
=============================================================================
