------------------------------ MODULE MCOcrJobs ------------------------------
(***************************************************************************)
(* Instances of OcrJobs for TLC.                                           *)
(***************************************************************************)
EXTENDS OcrRefinement, TLC

CONSTANTS r1, r2, r3, t1, t2, t3, d1, d2

\* Two runs created more than 36 ms apart: distinct numbers.
DistinctNumbers == [r \in Runs |-> r]

\* Two runs whose cuids share their first eight characters.
SharedNumber == [r \in Runs |-> CHOOSE n \in Numbers : TRUE]

\* Sound with shared numbers, where no run is told apart from another.
Symmetry == Permutations(Tasks) \union Permutations(Runs) \union Permutations(DraftIds)
=============================================================================
