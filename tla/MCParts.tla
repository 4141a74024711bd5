------------------------------- MODULE MCParts -------------------------------
(* An instance of seven parts that share no state.  A behaviour is of one of them; *)
(* the others stay as they are. *)
EXTENDS Retrieval, VerdictSplitter, Chunking, Session, TurnReader, Health, LazyLoad

CONSTANTS p, a, x, sp, nl, dot

VARIABLE part

EqualWeights == <<1, 1>>
ThreeAndOne == <<{0, 1, 2}, {0}>>
TwoLines == {<<p, a>>, <<p, x>>}
FourSeparators == << <<nl, nl>>, <<nl>>, <<dot, sp>>, <<sp>> >>
Sizes == {<<2, 1>>, <<3, 1>>, <<4, 3>>, <<6, 2>>}
DotIsDear == [c \in {x, dot, sp, nl} |-> IF c = dot THEN 2 ELSE 1]
ShorterLongerEqual == {<<2, 3>>, <<3, 2>>, <<2, 2>>}

NoSearch == SearchInit /\ required = {} /\ \A d \in Docs : registry[d] = NotSearchable
NoText == ChunkingInit /\ body = <<>> /\ setting = <<2, 1>>
NoCheck == HealthInit /\ limits = <<2, 2>>

Init ==
    /\ part \in {"search", "output", "text", "session", "turn", "health", "load"}
    /\ IF part = "search" THEN SearchInit ELSE NoSearch
    /\ IF part = "text" THEN ChunkingInit ELSE NoText
    /\ IF part = "health" THEN HealthInit ELSE NoCheck
    /\ SplitterInit /\ SessionInit /\ ReaderInit /\ LazyInit

Next ==
    /\ UNCHANGED part
    /\ \/ /\ part = "search" /\ SearchNext
          /\ UNCHANGED <<splitter, chunking, session, reading, checking, loading>>
       \/ /\ part = "output" /\ SplitterNext
          /\ UNCHANGED <<searching, chunking, session, reading, checking, loading>>
       \/ /\ part = "text" /\ ChunkingNext
          /\ UNCHANGED <<searching, splitter, session, reading, checking, loading>>
       \/ /\ part = "session" /\ SessionNext
          /\ UNCHANGED <<searching, splitter, chunking, reading, checking, loading>>
       \/ /\ part = "turn" /\ ReaderNext
          /\ UNCHANGED <<searching, splitter, chunking, session, checking, loading>>
       \/ /\ part = "health" /\ HealthNext
          /\ UNCHANGED <<searching, splitter, chunking, session, reading, loading>>
       \/ /\ part = "load" /\ LazyNext
          /\ UNCHANGED <<searching, splitter, chunking, session, reading, checking>>

Spec ==
    Init /\ [][Next]_<<part, searching, splitter, chunking, session, reading, checking, loading>>

=============================================================================
