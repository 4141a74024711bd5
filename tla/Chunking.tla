------------------------------- MODULE Chunking -------------------------------
(***************************************************************************)
(* How a text is cut into chunks (core/chunking.py), and the chunks that   *)
(* are too long for the embedder cut again (_guard_tokens in               *)
(* services/ingestion.py).                                                 *)
(*                                                                         *)
(* Abstraction.  A span <<s, e>> stands for text[s:e], with positions from *)
(* zero.  One segment is cut; segments (pages) are cut each for itself.    *)
(* Tokens are counted as a sum over the characters.                        *)
(***************************************************************************)
EXTENDS Naturals, SequencesExt

CONSTANTS
    Characters, White,      \* White \subseteq Characters are the blanks
    Separators,             \* _SEPARATORS, by priority
    Settings,               \* pairs <<chunk_size, chunk_overlap>>
    MinSize,                \* _MIN_RESPLIT_SIZE
    Cost, TokenLimit,       \* tokens of a character; max_input_tokens
    MaxText                 \* bound of the instance: characters of a text

ASSUME ChunkingAssumption ==
    /\ White \subseteq Characters /\ MinSize \in Nat /\ MinSize >= 2
    /\ \A s \in Settings : s[1] \in Nat /\ s[2] \in 1..(s[1] - 1)
    /\ \A i \in DOMAIN Separators : Separators[i] \in Seq(Characters) /\ Separators[i] # <<>>
    /\ TokenLimit \in Nat /\ MaxText \in Nat

VARIABLES body, setting, phase, chunks

chunking == <<body, setting, phase, chunks>>

Least(a, b) == IF a < b THEN a ELSE b
Most(a, b) == IF a < b THEN b ELSE a

-----------------------------------------------------------------------------
(* _split_units, _merge_units                                              *)

\* text.find(separator, s, e), as the set of its one result or none.
Found(text, separator, s, e) ==
    LET at == {i \in s..e : i + Len(separator) <= e
                            /\ SubSeq(text, i + 1, i + Len(separator)) = separator}
    IN  {i \in at : \A j \in at : i <= j}

\* Where a separator cuts text[s:e]: it stays with the piece before it.
CutsAt(text, separator, s, e) ==
    LET cursor[n \in 0..(e - s)] ==
            IF n = 0 THEN s
            ELSE LET at == Found(text, separator, cursor[n - 1], e)
                 IN  IF at = {} THEN e ELSE Len(separator) + CHOOSE i \in at : TRUE
    IN  {cursor[n] : n \in 0..(e - s)}

Slices(s, e, width) == {i \in s..e : (i - s) % width = 0}

\* The pieces <<s, e>> between two cuts that are over the budget.
Wide(cuts, budget) == {p \in cuts \X cuts : p[2] - p[1] > budget /\ (p[1]..p[2]) \cap cuts = {p[1], p[2]}}

\* The units are what lies between two cuts.  Only what is still too wide is cut at the next
\* separator, and at the budget when there is none left.
SplitUnits(text, budget) ==
    LET cuts[level \in 0..Len(Separators)] ==
            IF level = 0 THEN {0, Len(text)}
            ELSE LET above == cuts[level - 1]
                 IN  above \cup UNION {CutsAt(text, Separators[level], p[1], p[2]) : p \in Wide(above, budget)}
        all == cuts[Len(Separators)]
    IN  all \cup UNION {Slices(p[1], p[2], budget) : p \in Wide(all, budget)}

\* A core ends at the last cut that is within the budget.
MergeUnits(cuts, end, budget) ==
    LET cores[n \in 0..end] ==
            IF n = 0 THEN <<>>
            ELSE LET done == cores[n - 1]
                     s == IF done = <<>> THEN 0 ELSE Last(done)[2]
                 IN  IF s = end THEN done
                     ELSE Append(done, <<s, Max({c \in cuts : s < c /\ c <= s + budget})>>)
    IN  cores[end]

-----------------------------------------------------------------------------
(* _split_segment                                                          *)

Inked(text, s, e) == {i \in s..(e - 1) : text[i + 1] \notin White}

Trim(text, s, e) == <<Min(Inked(text, s, e)), Max(Inked(text, s, e)) + 1>>

Cores(text, size, overlap) ==
    IF Len(text) <= size THEN << <<0, Len(text)>> >>
    ELSE MergeUnits(SplitUnits(text, size - overlap), Len(text), size - overlap)

\* Mutant: a chunk may start where the one before it does.
AddCoreStill(text, overlap, done, core) ==
    LET s == IF core[1] = 0 THEN 0 ELSE Most(core[1], overlap) - overlap
    IN  IF Inked(text, s, core[2]) = {} THEN done
        ELSE Append(done, Trim(text, s, core[2]))

\* The overlap is put before a core; what brings nothing new is left out.
AddCore(text, overlap, done, core) ==
    LET back == IF core[1] = 0 THEN 0 ELSE Most(core[1], overlap) - overlap
        s == IF done = <<>> THEN back ELSE Most(back, Last(done)[1] + 1)
    IN  IF Inked(text, s, core[2]) = {} THEN done
        ELSE IF done # <<>> /\ Trim(text, s, core[2])[2] <= Last(done)[2] THEN done
        ELSE Append(done, Trim(text, s, core[2]))

SplitSegment(text, size, overlap) ==
    LET cores == Cores(text, size, overlap)
        done[n \in 0..Len(cores)] ==
            IF n = 0 THEN <<>> ELSE AddCore(text, overlap, done[n - 1], cores[n])
    IN  IF text = <<>> THEN <<>> ELSE done[Len(cores)]

-----------------------------------------------------------------------------
(* _guard_tokens, _shrink, resplit                                         *)

Part(text, span) == SubSeq(text, span[1] + 1, span[2])
TokensOf(text, span) ==
    FoldLeft(LAMBDA n, c : n + Cost[c], 0, Part(text, span))
Fits(text, span) == TokensOf(text, span) <= TokenLimit

ClampOverlap(size, preferred) == Most(1, Least(preferred, size - 1))

Resplit(text, span, size, overlap) ==
    LET pieces == SplitSegment(Part(text, span), size, overlap)
    IN  [k \in DOMAIN pieces |-> <<span[1] + pieces[k][1], span[1] + pieces[k][2]>>]

\* Half the size each time, down to the least size: the first one whose pieces all fit.
Shrink(text, span, size, overlap) ==
    LET half[n \in 0..size] == IF n = 0 THEN size ELSE Most(MinSize, half[n - 1] \div 2)
        Pieces(h) == Resplit(text, span, h, ClampOverlap(h, overlap))
        fitting == {h \in {half[n] : n \in 1..size} :
                        LET pieces == Pieces(h) IN \A k \in DOMAIN pieces : Fits(text, pieces[k])}
    IN  IF size <= MinSize THEN <<span>> ELSE Pieces(Max(fitting \cup {MinSize}))

Guarded(text, spans, size, overlap) ==
    FlattenSeq([k \in DOMAIN spans |->
        IF Fits(text, spans[k]) THEN <<spans[k]>> ELSE Shrink(text, spans[k], size, overlap)])

-----------------------------------------------------------------------------
ChunkingInit ==
    /\ body \in BoundedSeq(Characters, MaxText)
    /\ setting \in Settings
    /\ phase = "text" /\ chunks = <<>>

Split ==
    /\ phase = "text" /\ phase' = "split"
    /\ chunks' = SplitSegment(body, setting[1], setting[2])
    /\ UNCHANGED <<body, setting>>

Guard ==
    /\ phase = "split" /\ phase' = "guarded"
    /\ chunks' = Guarded(body, chunks, setting[1], setting[2])
    /\ UNCHANGED <<body, setting>>

ChunkingNext == Split \/ Guard

ChunkingSpec == ChunkingInit /\ [][ChunkingNext]_chunking

-----------------------------------------------------------------------------
(* Properties.                                                             *)

\* Whatever is not blank is in a chunk, at its place, and no chunk begins or ends with a
\* blank: cutting, cutting again and trimming lose no text and shift none.  A chunk is no
\* wider than the setting and brings something the one before it has not, and the other
\* way round, however wide the overlap is; cut again, it fits the embedder or is as small
\* as it can get.
ChunksCover ==
    /\ phase # "text" =>
        /\ Inked(body, 0, Len(body)) \subseteq
              UNION {chunks[k][1]..(chunks[k][2] - 1) : k \in DOMAIN chunks}
        /\ \A k \in DOMAIN chunks :
              /\ chunks[k][1] < chunks[k][2] /\ chunks[k][2] <= Len(body)
              /\ {chunks[k][1], chunks[k][2] - 1} \subseteq Inked(body, 0, Len(body))
    /\ phase = "split" =>
        \A k \in DOMAIN chunks :
            /\ chunks[k][2] - chunks[k][1] <= setting[1]
            /\ k > 1 => chunks[k - 1][1] < chunks[k][1] /\ chunks[k - 1][2] < chunks[k][2]
    /\ phase = "guarded" =>
        \A k \in DOMAIN chunks :
            Fits(body, chunks[k]) \/ chunks[k][2] - chunks[k][1] <= MinSize

=============================================================================
