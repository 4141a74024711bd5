---------------------------- MODULE MCAnswerCache ----------------------------
(* Instances of AnswerCache for TLC: two documents of two revisions.       *)
EXTENDS AnswerCache, TLC, FiniteSetsExt

CONSTANTS d1, d2, r1, r2, q1, q2

At(d, r) == [doc |-> d, rev |-> r]

\* One question, on which every revision of d1 and the first of d2 have something;
\* only the second revision of d1 and the first of d2 answer it.
OneFinds   == (q1 :> {At(d1, r1), At(d1, r2), At(d2, r1)})
OneAnswers == (q1 :> {At(d1, r2), At(d2, r1)})
OneNear    == (q1 :> {})

\* Two questions that mean the same.
TwoFinds   == (q1 :> {At(d1, r1), At(d2, r1)}) @@ (q2 :> {At(d1, r1), At(d2, r1)})
TwoAnswers == (q1 :> {At(d2, r1)}) @@ (q2 :> {At(d2, r1)})
TwoNear    == (q1 :> {q2}) @@ (q2 :> {q1})

Symmetry == Permutations(Askers) \cup Permutations(Writers)

=============================================================================
