----------------------------- MODULE MCIngestion -----------------------------
(* Instances of Ingestion for TLC. *)
EXTENDS Ingestion, TLC

Symmetry == Permutations(Procs) \cup Permutations(Revs)

=============================================================================
