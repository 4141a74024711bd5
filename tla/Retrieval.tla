------------------------------- MODULE Retrieval -------------------------------
(***************************************************************************)
(* One search (services/retrieval.py) while documents change under it.     *)
(* The versions to search are listed once; the retrievers run side by side *)
(* and some of them may fail; the lists are fused, admitted, reranked; and *)
(* what is at the top is asked about in the registry again, one window     *)
(* after the other, until the answer is full.                              *)
(*                                                                         *)
(* A search reads only, so one of them next to a registry that anyone may  *)
(* change shows all there is.  What the stores hold of a version while it  *)
(* is written or removed is left open: a retriever finds any of its chunks *)
(* or none.                                                                *)
(***************************************************************************)
EXTENDS Fusion

CONSTANTS
    Docs, Revs,             \* Docs are numbers: their order breaks ties
    Chunks,                 \* Docs -> the indexes of their chunks
    Retrievers,             \* 1..n, in the order of the bindings
    Dense,                  \* those that make and use a vector
    TopK,
    HasReranker,
    RerankScores,           \* numbers a reranker gives
    MaxChanges,             \* bound of the instance: changes of the registry
    NotSearchable,          \* no record, another signature, or not INDEXED
    Registry, Failed

ASSUME RetrievalAssumption ==
    /\ Docs \subseteq Nat /\ Chunks \in [Docs -> SUBSET Nat] /\ Revs # {} /\ NotSearchable \notin Revs
    /\ Retrievers = DOMAIN Weight /\ Dense \subseteq Retrievers
    /\ IsFiniteSet(Retrievers) /\ Retrievers = 1..Cardinality(Retrievers)
    /\ Retrievers # {}      \* __init__ refuses an empty list of bindings
    /\ Registry \notin Retrievers /\ RerankScores \subseteq Nat
    /\ TopK \in Nat \ {0} /\ MaxDepth >= TopK /\ RerankDepth >= TopK

VARIABLES
    registry,       \* Docs -> revision, or NotSearchable
    changes,        \* history: how often it changed
    required,       \* the retrievers the settings require
    pc,
    current,        \* the records the search started from, the searchable ones
    next, vector,   \* of _prepare_query: who is asked next, is there a vector
    active,         \* the retrievers that take part
    outcome,        \* what has come back: a list, or Failed
    disposed,       \* history: who failed
    fused,          \* the keys in the order of fusion
    ordered,        \* the keys in the order of the answer
    verdicts,       \* documents asked about -> still the version searched?
    cursor, kept,
    held            \* history: <<document, revision>> current since the order stood

search == <<pc, current, next, vector, active, outcome, disposed, fused, ordered,
            verdicts, cursor, kept>>
searching == <<registry, changes, required, search, held>>

None == <<>>        \* the function and the sequence without elements
With(f, x, v) == [y \in DOMAIN f \cup {x} |-> IF y = x THEN v ELSE f[y]]
Current == {<<d, registry[d]>> : d \in {e \in Docs : registry[e] # NotSearchable}}

SearchInit ==
    /\ registry \in [Docs -> {CHOOSE r \in Revs : TRUE, NotSearchable}]
    /\ changes = 0
    /\ required \in SUBSET Retrievers
    /\ pc = "list" /\ current = None
    /\ next = 1 /\ vector = FALSE /\ active = {} /\ outcome = None /\ disposed = {}
    /\ fused = None /\ ordered = None
    /\ verdicts = None /\ cursor = 0 /\ kept = None
    /\ held = {}

-----------------------------------------------------------------------------
(* _current_versions, _prepare_query                                       *)

List(given) ==
    /\ pc = "list"
    /\ current' = [d \in {e \in Docs : registry[e] # NotSearchable} |-> registry[d]]
    /\ \/ DOMAIN current' = {} /\ pc' = "done" /\ UNCHANGED <<next, vector, active>>
       \/ DOMAIN current' # {} /\ given /\ pc' = "search"
            /\ vector' = TRUE /\ active' = Retrievers /\ next' = Cardinality(Retrievers) + 1
       \/ DOMAIN current' # {} /\ ~given /\ pc' = "prepare" /\ UNCHANGED <<next, vector, active>>
    /\ UNCHANGED <<registry, changes, required, outcome, disposed, fused, ordered,
                   verdicts, cursor, kept, held>>

ListFails ==
    /\ pc = "list" /\ pc' = "failed"
    /\ disposed' = disposed \cup {Registry}
    /\ UNCHANGED <<registry, changes, required, current, next, vector, active, outcome, fused,
                   ordered, verdicts, cursor, kept, held>>

Advance(r) ==
    /\ next' = r + 1
    /\ pc' = IF r = Cardinality(Retrievers) THEN "search" ELSE "prepare"

\* A retriever behind the one that made the vector, or that has no use for one.
Passes(r) ==
    /\ pc = "prepare" /\ next = r /\ (vector \/ r \notin Dense)
    /\ active' = active \cup {r}
    /\ Advance(r)
    /\ UNCHANGED <<registry, changes, required, current, vector, outcome, disposed, fused,
                   ordered, verdicts, cursor, kept, held>>

VectorMade(r) ==
    /\ pc = "prepare" /\ next = r /\ ~vector /\ r \in Dense
    /\ vector' = TRUE /\ active' = active \cup {r}
    /\ Advance(r)
    /\ UNCHANGED <<registry, changes, required, current, outcome, disposed, fused, ordered,
                   verdicts, cursor, kept, held>>

\* _dispose_of: whom the settings require takes the search down.
VectorFails(r) ==
    /\ pc = "prepare" /\ next = r /\ ~vector
    /\ disposed' = disposed \cup {r}
    /\ IF r \in required THEN pc' = "failed" /\ UNCHANGED next ELSE Advance(r)
    /\ UNCHANGED <<registry, changes, required, current, vector, active, outcome, fused,
                   ordered, verdicts, cursor, kept, held>>

-----------------------------------------------------------------------------
(* _fan_out                                                                *)

AllKeys == UNION {{d} \X Chunks[d] : d \in DOMAIN current}
Items == [key : AllKeys, passed : BOOLEAN]

\* Lists hold a chunk once: both stores look up rows by their identity.
Lists == {list \in BoundedSeq(Items, MaxDepth) :
            \A i, j \in DOMAIN list : list[i].key = list[j].key => i = j}

Retrieved(r) ==
    /\ pc = "search" /\ r \in active \ DOMAIN outcome
    /\ \E found \in Lists \cup {Failed} : outcome' = With(outcome, r, found)
    /\ UNCHANGED <<registry, changes, required, pc, current, next, vector, active, disposed,
                   fused, ordered, verdicts, cursor, kept, held>>

Failing == {r \in DOMAIN outcome : outcome[r] = Failed}
Sources == [r \in DOMAIN outcome \ Failing |-> outcome[r]]

Candidates == Only(Fuse(Sources), {key \in KeysIn(Sources) : Admitted(Sources, key)})

\* Mutant: whoever failed is left out.
FanInOptional ==
    /\ pc = "search" /\ DOMAIN outcome = active
    /\ disposed' = disposed \cup Failing
    /\ active' = active \ Failing
    /\ IF active' = {} THEN pc' = "failed" /\ UNCHANGED fused
       ELSE /\ pc' = "rerank"
            /\ fused' = Candidates
    /\ UNCHANGED <<registry, changes, required, current, next, vector, outcome, ordered,
                   verdicts, cursor, kept, held>>

\* gather has waited for all.  Without any list there is no answer.
FanIn ==
    /\ pc = "search" /\ DOMAIN outcome = active
    /\ disposed' = disposed \cup Failing
    /\ active' = active \ Failing
    /\ IF required \cap Failing # {} \/ active' = {} THEN pc' = "failed" /\ UNCHANGED fused
       ELSE /\ pc' = "rerank"
            /\ fused' = Candidates
    /\ UNCHANGED <<registry, changes, required, current, next, vector, outcome, ordered,
                   verdicts, cursor, kept, held>>

-----------------------------------------------------------------------------
(* _rerank                                                                 *)

\* The lists are of no use from here on.
Stand(order) ==
    /\ pc = "rerank" /\ pc' = "check"
    /\ ordered' = order
    /\ outcome' = None
    /\ held' = Current
    /\ UNCHANGED <<registry, changes, required, current, next, vector, active, disposed,
                   fused, verdicts, cursor, kept>>

Reranked(scores) == HasReranker /\ fused # None /\ Stand(Reorder(fused, scores))

\* There is no reranker, nothing to read, or the reranker failed, was too late or gave
\* scores that cannot be used.
NotReranked == Stand(fused)

-----------------------------------------------------------------------------
(* _take_current                                                           *)

Room == TopK - Len(kept)

\* Mutant: a window is as long as the answer.
WindowWhole == SubSeq(ordered, cursor + 1, Min({cursor + TopK, Len(ordered)}))

Window == SubSeq(ordered, cursor + 1, Min({cursor + Room, Len(ordered)}))

Open == pc = "check" /\ Room > 0 /\ cursor < Len(ordered)
Asked == {key[1] : key \in ToSet(Window)} \ DOMAIN verdicts

\* Mutant: any record will do.
StillThere(d) == registry[d] # NotSearchable

IsStillCurrent(d) == registry[d] = current[d]

\* One of the reads that _record_verdicts has under way.
Read(d) ==
    /\ Open /\ d \in Asked
    /\ verdicts' = With(verdicts, d, IsStillCurrent(d))
    /\ UNCHANGED <<registry, changes, required, pc, current, next, vector, active, outcome,
                   disposed, fused, ordered, cursor, kept, held>>

ReadFails ==
    /\ Open /\ Asked # {} /\ pc' = "failed"
    /\ disposed' = disposed \cup {Registry}
    /\ UNCHANGED <<registry, changes, required, current, next, vector, active, outcome, fused,
                   ordered, verdicts, cursor, kept, held>>

Take ==
    /\ Open /\ Asked = {}
    /\ kept' = kept \o Only(Window, {key \in ToSet(Window) : verdicts[key[1]]})
    /\ cursor' = cursor + Len(Window)
    /\ UNCHANGED <<registry, changes, required, pc, current, next, vector, active, outcome,
                   disposed, fused, ordered, verdicts, held>>

Answer ==
    /\ pc = "check" /\ ~Open /\ pc' = "done"
    /\ UNCHANGED <<registry, changes, required, current, next, vector, active, outcome,
                   disposed, fused, ordered, verdicts, cursor, kept, held>>

-----------------------------------------------------------------------------
(* Uploads and deletions, of which the search sees the record only         *)

Change(d, to) ==
    /\ pc \notin {"list", "done", "failed"} /\ changes < MaxChanges
    /\ registry[d] # to
    /\ registry' = [registry EXCEPT ![d] = to]
    /\ changes' = changes + 1
    /\ held' = IF pc = "check" THEN held \cup {<<d, to>>} ELSE held
    /\ UNCHANGED <<required, search>>

SearchNext ==
    \/ \E given \in BOOLEAN : List(given)
    \/ ListFails
    \/ \E r \in Retrievers :
          Passes(r) \/ VectorMade(r) \/ VectorFails(r) \/ Retrieved(r)
    \/ FanIn
    \/ \E scores \in [ToSet(Targets(fused)) -> RerankScores] : Reranked(scores)
    \/ NotReranked
    \/ \E d \in Docs : Read(d)
    \/ ReadFails \/ Take \/ Answer
    \/ \E d \in Docs, to \in Revs \cup {NotSearchable} : Change(d, to)

SearchSpec == SearchInit /\ [][SearchNext]_searching

-----------------------------------------------------------------------------
(* Properties.                                                             *)

\* Fusion is fair to the lists: a chunk they have comes once and no other comes; its score is
\* between 0 and 1, and 1 only for the first of all lists; and a chunk that each list that
\* has the other has too, further up, comes before it.
FusionIsFair ==
    pc = "rerank" =>
        LET order == Fuse(Sources)
            Ahead(a, b) == \A r \in DOMAIN Sources :
                RankOf(Sources[r], b) > 0 =>
                    RankOf(Sources[r], a) \in 1..(RankOf(Sources[r], b) - 1)
        IN  /\ ToSet(order) = KeysIn(Sources) /\ Len(order) = Cardinality(KeysIn(Sources))
            /\ \A key \in ToSet(order) :
                  /\ Raw(Sources, key) \in 1..Denominator(Sources)
                  /\ Raw(Sources, key) = Denominator(Sources) <=>
                        \A r \in DOMAIN Sources : RankOf(Sources[r], key) = 1
            /\ \A i, j \in DOMAIN order : Ahead(order[i], order[j]) => i < j

\* A chunk of the answer belongs to a version that was current at a time after the
\* slow part of the search was over.
NothingIsStale ==
    pc = "done" => \A i \in DOMAIN kept : <<kept[i][1], current[kept[i][1]]>> \in held

\* The windows come to what one pass over the whole order would: the first TopK chunks
\* whose documents are still current, each document judged once and none that was not needed.
TakesFirstCurrent ==
    pc = "done" =>
        LET seen == SubSeq(ordered, 1, cursor)
        IN  /\ DOMAIN verdicts = {key[1] : key \in ToSet(seen)}
            /\ kept = Only(seen, {key \in ToSet(seen) : verdicts[key[1]]})
            /\ Len(kept) = TopK \/ (Len(kept) < TopK /\ cursor = Len(ordered))

\* Failures are disposed of as the settings say: an answer is without a retriever only if that
\* one failed and was not required, and there is none only if it had to be so.
FailsOnlyWhenItMust ==
    LET mustFail == \/ Registry \in disposed \/ disposed \cap required # {}
                    \/ Retrievers \subseteq disposed
    IN  /\ pc = "failed" => mustFail
        /\ pc = "done" /\ current # None => ~mustFail /\ active = Retrievers \ disposed

\* Why: who took part so far has failed or is active, and none has failed that is required.
Spared == Registry \notin disposed /\ disposed \cap required = {}
FailInv ==
    /\ pc \in {"list", "prepare", "search", "rerank", "check", "done", "failed"}
    /\ required \subseteq Retrievers /\ disposed \subseteq Retrievers \cup {Registry}
    /\ pc = "list" => disposed = {} /\ active = {} /\ next = 1
    /\ pc = "prepare" => /\ next \in Retrievers /\ Spared
                         /\ active = (1..(next - 1)) \ disposed /\ disposed \subseteq 1..(next - 1)
    /\ pc \in {"search", "rerank", "check"} => Spared /\ active = Retrievers \ disposed
    /\ pc \in {"rerank", "check"} => active # {}
    /\ pc = "failed" => \/ Registry \in disposed \/ disposed \cap required # {}
                        \/ Retrievers \subseteq disposed
    /\ pc = "done" => \/ current = None
                      \/ Spared /\ active = Retrievers \ disposed /\ active # {}

\* Why the windows amount to one pass: what has been kept is what that pass keeps of the order
\* up to the cursor, and who was asked about owns a chunk of it or of the window ahead.
Seen == SubSeq(ordered, 1, cursor)
DocsOf(keys) == {key[1] : key \in ToSet(keys)}
SearchTypeInv ==
    /\ registry \in [Docs -> Revs \cup {NotSearchable}]
    /\ DOMAIN current \subseteq Docs /\ \A d \in DOMAIN current : current[d] \in Revs
    /\ DOMAIN outcome \subseteq Retrievers /\ \A r \in DOMAIN outcome : outcome[r] \in Lists \cup {Failed}
    /\ fused \in Seq(AllKeys) /\ ordered \in Seq(AllKeys) /\ cursor \in 0..Len(ordered)
    /\ pc = "list" => outcome = None /\ fused = None
    /\ pc \in {"list", "prepare", "search", "rerank"} =>
          ordered = None /\ cursor = 0 /\ kept = None /\ verdicts = None
TakeInv ==
    /\ DocsOf(Seen) \subseteq DOMAIN verdicts
    /\ DOMAIN verdicts \subseteq DocsOf(Seen) \cup DocsOf(Window)
    /\ kept = Only(Seen, {key \in ToSet(Seen) : verdicts[key[1]]})
    /\ Len(kept) <= TopK
    /\ pc = "done" => ~(Room > 0 /\ cursor < Len(ordered))

\* Why no chunk is stale: a version that is current while the documents are asked about is in
\* held, and so is one that was found to be.
HeldInv ==
    /\ pc = "check" => Current \subseteq held
    /\ \A d \in DOMAIN verdicts : verdicts[d] => <<d, current[d]>> \in held

=============================================================================
