-------------------------------- MODULE Fusion --------------------------------
(***************************************************************************)
(* The pure part of a search: lists of several retrievers become one by    *)
(* reciprocal ranks (core/fusion.py), of which the top may be read again   *)
(* by a reranker (core/reranking.py).                                      *)
(*                                                                         *)
(* Abstraction.  A chunk is its key: document and index, both numbers,     *)
(* since the code breaks ties by their order.  Scores are exact: they are  *)
(* counted in 1/Unit, where the code adds floats in the order of names to  *)
(* the same end, that the order of the lists does not show.                *)
(***************************************************************************)
EXTENDS Naturals, FiniteSets, SequencesExt

CONSTANTS
    Weight,         \* of each retriever
    RrfK,
    MaxDepth,       \* bound of the instance: the length of a list
    RerankDepth     \* _rerank_candidates

ASSUME FusionAssumption ==
    /\ Weight \in Seq(Nat \ {0})
    /\ RrfK \in Nat /\ MaxDepth \in Nat \ {0} /\ RerankDepth \in Nat \ {0}

\* The elements of s that are in S, in their order: a comprehension with a condition.
Only(s, S) ==
    LET kept[n \in 0..Len(s)] ==
            IF n = 0 THEN <<>> ELSE IF s[n] \in S THEN Append(kept[n - 1], s[n]) ELSE kept[n - 1]
    IN  kept[Len(s)]

KeyBefore(a, b) == a[1] < b[1] \/ (a[1] = b[1] /\ a[2] < b[2])

\* The total order of both sorts: by score, and among equals by key.
Ranked(keys, score) ==
    LET Before(a, b) == score[a] > score[b] \/ (score[a] = score[b] /\ KeyBefore(a, b))
        Place(key) == Cardinality({other \in keys : Before(other, key)})
    IN  [i \in 1..Cardinality(keys) |-> CHOOSE key \in keys : Place(key) = i - 1]

-----------------------------------------------------------------------------
(* fuse: sources maps each retriever to its list, the best item first      *)

Unit ==
    LET product[n \in 0..MaxDepth] == IF n = 0 THEN 1 ELSE product[n - 1] * (RrfK + n)
    IN  product[MaxDepth]

\* Mutant: ranks count from zero.
TermFromZero(weight, rank) == weight * (Unit \div (RrfK + rank - 1))

Term(weight, rank) == weight * (Unit \div (RrfK + rank))

\* The first place of a key in a list; zero if it is not in it.
RankOf(list, key) == SelectInSeq(list, LAMBDA item : item.key = key)

KeysOf(list) == {item.key : item \in ToSet(list)}
KeysIn(sources) == UNION {KeysOf(sources[r]) : r \in DOMAIN sources}

\* One retriever's part after the other.
Total(parts) ==
    LET sum[n \in 0..Len(Weight)] == IF n = 0 THEN 0 ELSE sum[n - 1] + parts[n]
    IN  sum[Len(Weight)]

\* Half of the score: what the lists give a key.
Raw(sources, key) ==
    Total([r \in DOMAIN Weight |->
              IF r \in DOMAIN sources /\ RankOf(sources[r], key) > 0
              THEN Term(Weight[r], RankOf(sources[r], key)) ELSE 0])

\* The other half: what a key would get that is the first of every list.
Denominator(sources) ==
    Total([r \in DOMAIN Weight |->
              IF r \in DOMAIN sources THEN Weight[r] * (Unit \div (RrfK + 1)) ELSE 0])

Fuse(sources) == Ranked(KeysIn(sources), [key \in KeysIn(sources) |-> Raw(sources, key)])

\* _gate_verdicts: one list that lets the item pass is enough.
Admitted(sources, key) ==
    \E r \in DOMAIN sources : [key |-> key, passed |-> TRUE] \in ToSet(sources[r])

-----------------------------------------------------------------------------
(* targets and reorder                                                     *)

Targets(chunks) == SubSeq(chunks, 1, Min({RerankDepth, Len(chunks)}))

\* scores maps the targets to numbers.  The rest follows as it was.
Reorder(chunks, scores) ==
    Ranked(ToSet(Targets(chunks)), scores)
        \o SubSeq(chunks, Len(Targets(chunks)) + 1, Len(chunks))

=============================================================================
