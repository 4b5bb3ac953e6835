--------------------------- MODULE MCReturnReview ---------------------------
(* Instances of ReturnReview for TLC.                                       *)
EXTENDS ReturnReview, TLC

\* The identifiers are interchangeable.
Symmetry == Permutations(Returns) \cup Permutations(Tasks)
              \cup Permutations(Users) \cup Permutations(Figures)
=============================================================================
