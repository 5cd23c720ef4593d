---------------------------- MODULE MCOcrRecovery ----------------------------
(***************************************************************************)
(* Instances of OcrRecovery for TLC.                                       *)
(***************************************************************************)
EXTENDS OcrRecovery, OcrRefinement, TLC

CONSTANTS r1, r2, t1, t2, d1, d2

\* The runs' numbers are told apart, so only tasks and drafts are symmetric.
DistinctNumbers == [r \in Runs |-> r]

Symmetry == Permutations(Tasks) \union Permutations(DraftIds)
=============================================================================
