------------------------------ MODULE MCQaStream ------------------------------
(* Instances of QaStream for TLC. *)
EXTENDS QaStream, TLC

Symmetry == Permutations(Requests)

=============================================================================
