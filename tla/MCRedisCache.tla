----------------------------- MODULE MCRedisCache -----------------------------
(* Instances of RedisCache for TLC. *)
EXTENDS RedisCache, TLC

CONSTANTS f1, f2, f3, n1, n2

TwoSets == (f1 :> n1) @@ (f2 :> n1) @@ (f3 :> n2)

Symmetry == Permutations(Tasks)

=============================================================================
