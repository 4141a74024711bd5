---------------------------- MODULE VerdictSplitter ----------------------------
(***************************************************************************)
(* How the output of the model becomes an answer (core/prompting.py).  The *)
(* first line may be a verdict.  VerdictSplitter takes it out of the text  *)
(* while the text arrives in chunks; parse_answer takes it out of the      *)
(* whole output, for the stored answer.  The two must agree, wherever the  *)
(* chunks are cut.                                                         *)
(*                                                                         *)
(* Abstraction.  A text is a sequence of tokens: letters and blanks, one   *)
(* of them the newline.                                                    *)
(***************************************************************************)
EXTENDS Naturals, SequencesExt

CONSTANTS
    Letters, Blanks,            \* the tokens
    Newline,
    Lines,                      \* _VERDICT_LINES
    MaxRaw, MaxChunk,           \* bounds of the instance: tokens of an output, of a chunk
    NoVerdict

Tokens == Letters \cup Blanks

ASSUME TokenAssumption == Newline \in Blanks /\ Blanks \cap Letters = {}
ASSUME LineAssumption ==
    /\ Lines # {} /\ NoVerdict \notin Lines
    /\ \A line \in Lines : line \in Seq(Letters) /\ line # <<>>
ASSUME BoundsAssumption == MaxRaw \in Nat /\ MaxChunk \in Nat \ {0}

VARIABLES
    raw,            \* what has arrived
    finished,
    buffer, settled, trimming, verdict,     \* of the splitter
    text            \* what has gone out, in all

splitter == <<raw, finished, buffer, settled, trimming, verdict, text>>

-----------------------------------------------------------------------------
(* parse_answer, of a whole output                                         *)

NewlineIn(s) == SelectInSeq(s, LAMBDA t : t = Newline)

\* What is before the first newline, and what is behind it.
HeadOf(s) == IF NewlineIn(s) = 0 THEN s ELSE SubSeq(s, 1, NewlineIn(s) - 1)
RestOf(s) == IF NewlineIn(s) = 0 THEN <<>> ELSE SubSeq(s, NewlineIn(s) + 1, Len(s))

LStrip(s) ==
    LET first == SelectInSeq(s, LAMBDA t : t \notin Blanks)
    IN  IF first = 0 THEN <<>> ELSE SubSeq(s, first, Len(s))

VerdictOf(s) == IF HeadOf(s) \in Lines THEN HeadOf(s) ELSE NoVerdict
BodyOf(s) == IF HeadOf(s) \in Lines THEN LStrip(RestOf(s)) ELSE s

-----------------------------------------------------------------------------
(* VerdictSplitter                                                         *)

SplitterInit ==
    /\ raw = <<>> /\ finished = FALSE
    /\ buffer = <<>> /\ settled = FALSE /\ trimming = FALSE /\ verdict = NoVerdict
    /\ text = <<>>

\* Trimming ends with the first token that is no blank.
Emit(chunk, trim) ==
    LET piece == IF trim THEN LStrip(chunk) ELSE chunk
    IN  /\ text' = text \o piece
        /\ trimming' = (trim /\ piece = <<>>)

\* Mutant: the blanks behind the verdict stay.
AcceptUntrimmed(pending) ==
    /\ buffer' = <<>> /\ settled' = TRUE /\ verdict' = HeadOf(pending)
    /\ Emit(RestOf(pending), FALSE)

\* There is a verdict: its line is taken out, and the blanks behind it.
Accept(pending) ==
    /\ buffer' = <<>> /\ settled' = TRUE /\ verdict' = HeadOf(pending)
    /\ Emit(RestOf(pending), TRUE)

\* There is none: all that was held back goes out.
Reject(pending) ==
    /\ buffer' = <<>> /\ settled' = TRUE /\ UNCHANGED verdict
    /\ Emit(pending, FALSE)

Wait(pending) ==
    /\ buffer' = pending
    /\ UNCHANGED <<settled, trimming, verdict, text>>

\* Mutant: anything may become a verdict line until the newline is there.
MayBecomeAnything(pending) == TRUE

MayBecomeVerdict(pending) == \E line \in Lines : IsPrefix(pending, line)

\* A line is complete at its newline, or when nothing more will come.
Settle(pending, final) ==
    LET complete == final \/ NewlineIn(pending) > 0
    IN  \/ complete /\ HeadOf(pending) \in Lines /\ Accept(pending)
        \/ complete /\ HeadOf(pending) \notin Lines /\ Reject(pending)
        \/ ~complete /\ MayBecomeVerdict(pending) /\ Wait(pending)
        \/ ~complete /\ ~MayBecomeVerdict(pending) /\ Reject(pending)

FeedOpen(chunk) ==
    /\ ~finished /\ ~settled
    /\ raw' = raw \o chunk
    /\ Settle(buffer \o chunk, FALSE)
    /\ UNCHANGED finished

FeedSettled(chunk) ==
    /\ ~finished /\ settled
    /\ raw' = raw \o chunk
    /\ Emit(chunk, trimming)
    /\ UNCHANGED <<finished, buffer, settled, verdict>>

FinishOpen ==
    /\ ~finished /\ ~settled /\ finished' = TRUE
    /\ Settle(buffer, TRUE)
    /\ UNCHANGED raw

FinishSettled ==
    /\ ~finished /\ settled /\ finished' = TRUE
    /\ UNCHANGED <<raw, buffer, settled, trimming, verdict, text>>

Deltas == BoundedSeq(Tokens, MaxChunk)

SplitterNext ==
    \/ \E chunk \in Deltas :
          /\ Len(raw) + Len(chunk) <= MaxRaw
          /\ FeedOpen(chunk) \/ FeedSettled(chunk)
    \/ FinishOpen \/ FinishSettled

SplitterSpec == SplitterInit /\ [][SplitterNext]_splitter

-----------------------------------------------------------------------------
(* Properties.                                                             *)

\* What has gone out is at every moment the body parse_answer would find in what has
\* arrived, and the verdict is the same: stream and stored answer cannot differ.
StreamMatchesParse ==
    settled => text = BodyOf(raw) /\ verdict = VerdictOf(raw)

\* Nothing but the beginning of a verdict line is ever held back, and so no more than
\* the longest of them.
HoldsBackOnlyVerdicts ==
    IF settled THEN buffer = <<>>
               ELSE text = <<>> /\ buffer = raw /\ \E line \in Lines : IsPrefix(raw, line)

\* Why: an output that can go on is settled by a complete line, or by a beginning that no
\* verdict has; and blanks are dropped as long as nothing has gone out behind a verdict.
SplitInv ==
    /\ raw \in Seq(Tokens) /\ text \in Seq(Tokens)
    /\ finished \in BOOLEAN /\ settled \in BOOLEAN /\ trimming \in BOOLEAN
    /\ StreamMatchesParse /\ HoldsBackOnlyVerdicts
    /\ ~settled => ~finished /\ ~trimming /\ verdict = NoVerdict /\ NewlineIn(raw) = 0
    /\ settled /\ ~finished => NewlineIn(raw) # 0 \/ ~MayBecomeVerdict(raw)
    /\ settled => (trimming <=> HeadOf(raw) \in Lines /\ text = <<>>)

=============================================================================
