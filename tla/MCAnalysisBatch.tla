--------------------------- MODULE MCAnalysisBatch ---------------------------
(* The instances of AnalysisBatch that TLC explores. *)
EXTENDS AnalysisBatch, TLC

Symmetry == Permutations(Writer) \union Permutations(Target)

=============================================================================
