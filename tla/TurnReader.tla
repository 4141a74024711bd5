------------------------------ MODULE TurnReader ------------------------------
(***************************************************************************)
(* TurnReader of adapters/llm/codex.py: what it makes of the notifications *)
(* of one turn.  Session brings them in order; some of their lines may be  *)
(* lost on the way (Session's SkipLine).                                   *)
(*                                                                         *)
(* What is counted on from the server: the deltas of an item come before   *)
(* its completion, and its text is their concatenation.  An item may also  *)
(* come without deltas.  Other notifications, items of other types and     *)
(* errors that the server retries by itself change nothing and are left    *)
(* out.                                                                    *)
(***************************************************************************)
EXTENDS Integers, Sequences, FiniteSets, SequencesExt

CONSTANTS
    Messages,          \* messages of the agent in the turn
    MaxDeltas       \* bound: deltas of an item

ASSUME ReaderBounds == MaxDeltas \in Nat

VARIABLES
    deltas,         \* _deltas
    fed,            \* text yielded: <<item, place of the delta>>, <<item, 0>> for its whole text
    turnEnd,        \* "reading", "completed", "failed" or "unauthenticated"
    written,        \* of each item, for each delta the server wrote whether it has text
    lost,           \* <<item, place>> of the deltas whose line was lost
    whole           \* "open", "blank" or "text" when the completion was read, "lost" if it was not

reading == <<deltas, fed, turnEnd, written, lost, whole>>

Places(i) == DOMAIN written[i]
HasText(i) == \E n \in Places(i) : written[i][n]

ReaderInit ==
    /\ deltas = [i \in Messages |-> 0]
    /\ fed = <<>> /\ turnEnd = "reading"
    /\ written = [i \in Messages |-> <<>>] /\ lost = {}
    /\ whole = [i \in Messages |-> "open"]

\* feed of a delta: it counts even if it has no text.
Counted(i) == deltas[i] + 1

ReadDelta(i) ==
    /\ whole[i] = "open" /\ Len(written[i]) < MaxDeltas
    /\ \E text \in BOOLEAN :
       /\ written' = [written EXCEPT ![i] = Append(@, text)]
       /\ fed' = IF text THEN Append(fed, <<i, Len(written[i]) + 1>>) ELSE fed
    /\ deltas' = [deltas EXCEPT ![i] = Counted(i)]
    /\ UNCHANGED <<turnEnd, lost, whole>>

LoseDelta(i) ==
    /\ whole[i] = "open" /\ Len(written[i]) < MaxDeltas
    /\ \E text \in BOOLEAN : written' = [written EXCEPT ![i] = Append(@, text)]
    /\ lost' = lost \cup {<<i, Len(written[i]) + 1>>}
    /\ UNCHANGED <<deltas, fed, turnEnd, whole>>

\* Mutant: any delta of the turn makes the whole superfluous.
SuperfluousForAll(i, text) == ~text \/ \E j \in Messages : deltas[j] # 0

\* _completed_item: the whole is for an item without deltas only.
Superfluous(i, text) == ~text \/ deltas[i] # 0

\* The whole text is that of the deltas; without deltas it may be anything.
ReadCompletion(i) ==
    /\ whole[i] = "open"
    /\ \E text \in IF written[i] = <<>> THEN BOOLEAN ELSE {HasText(i)} :
       /\ whole' = [whole EXCEPT ![i] = IF text THEN "text" ELSE "blank"]
       /\ fed' = IF Superfluous(i, text) THEN fed ELSE Append(fed, <<i, 0>>)
    /\ UNCHANGED <<deltas, turnEnd, written, lost>>

LoseCompletion(i) ==
    /\ whole[i] = "open"
    /\ whole' = [whole EXCEPT ![i] = "lost"]
    /\ UNCHANGED <<deltas, fed, turnEnd, written, lost>>

\* _fail: a missing login at once, whether the server would try again or not; any other
\* error when it would not.
ReadError ==
    /\ turnEnd' \in {"unauthenticated", "failed"}
    /\ UNCHANGED <<deltas, fed, written, lost, whole>>

\* turn/completed, whose status alone says whether it failed.
ReadEndOfTurn ==
    /\ turnEnd' \in {"completed", "failed"}
    /\ UNCHANGED <<deltas, fed, written, lost, whole>>

ReaderNext ==
    /\ turnEnd = "reading"
    /\ \/ \E i \in Messages : ReadDelta(i) \/ LoseDelta(i) \/ ReadCompletion(i) \/ LoseCompletion(i)
       \/ ReadError \/ ReadEndOfTurn

ReaderSpec == ReaderInit /\ [][ReaderNext]_reading

-----------------------------------------------------------------------------
FedOf(i) == {fed[k][2] : k \in {k \in DOMAIN fed : fed[k][1] = i}}
LostOf(i) == {n \in Places(i) : <<i, n>> \in lost}
TextOf(i) == {n \in Places(i) : written[i][n]}

\* What was yielded of a message is in its order, and nothing twice.
InOrder(i) ==
    \A k, l \in DOMAIN fed : k < l /\ fed[k][1] = i /\ fed[l][1] = i => fed[k][2] < fed[l][2]

\* The text of a message reaches the answer once.  If all or none of the lines of its deltas
\* were lost it is there in full, in one form or the other and never in both; what is there
\* of the others is in order.
TextIsWhole ==
    \A i \in Messages :
        /\ InOrder(i)
        /\ FedOf(i) = {0} \/ FedOf(i) = TextOf(i) \ LostOf(i)
        /\ whole[i] \in {"text", "blank"} /\ LostOf(i) \in {{}, Places(i)} =>
               FedOf(i) \in IF whole[i] = "blank" THEN {{}} ELSE {TextOf(i), {0}} \ {{}}

\* What makes TextIsWhole inductive: an item without a counted delta has lost them all, and
\* only the whole of such an item is yielded.
ReadingInv ==
    /\ fed \in Seq(Messages \X Nat)
    /\ deltas \in [Messages -> Nat]
    /\ written \in [Messages -> Seq(BOOLEAN)]
    /\ \A l \in lost : l \in Messages \X Nat /\ l[2] \in Places(l[1])
    /\ whole \in [Messages -> {"open", "blank", "text", "lost"}]
    /\ \A i \in Messages :
        /\ InOrder(i)
        /\ deltas[i] = 0 <=> LostOf(i) = Places(i)
        /\ FedOf(i) = IF whole[i] = "text" /\ deltas[i] = 0 THEN {0} ELSE TextOf(i) \ LostOf(i)
        /\ whole[i] = "text" => written[i] = <<>> \/ HasText(i)
        /\ whole[i] = "blank" => ~HasText(i)

=============================================================================
