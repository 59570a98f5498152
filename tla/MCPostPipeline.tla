--------------------------- MODULE MCPostPipeline ---------------------------
(***************************************************************************)
(* PostPipeline on small instances.                                        *)
(***************************************************************************)
EXTENDS PostPipeline, TLC

\* Workers run the same code and texts are only compared.
Symmetric == Permutations(Workers) \cup Permutations(Bodies)
SymmetricTexts == Permutations(Bodies)
=============================================================================
