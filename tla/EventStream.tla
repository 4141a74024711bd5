------------------------------ MODULE EventStream ------------------------------
(***************************************************************************)
(* What a client of /qa may receive: the sources first, then the text of   *)
(* one attempt piece by piece, then one last event, "done" with the whole  *)
(* text or "error".  The stream may be cut anywhere.                       *)
(***************************************************************************)
EXTENDS Naturals

CONSTANTS
    Requests,       \* streams
    Attempts        \* numbers of attempts at an answer

VARIABLE
    got             \* of each stream: the stage, whose text it is, and how many pieces

Stages == {"opened", "sources", "done", "error"}

Init == got = [r \in Requests |-> [stage |-> "opened", attempt |-> 0, n |-> 0]]

Sources(r) ==
    /\ got[r].stage = "opened"
    /\ got' = [got EXCEPT ![r].stage = "sources"]

\* Text of another attempt never follows text already received.
Answer(r, a) ==
    /\ got[r].stage = "sources"
    /\ got[r].n > 0 => a = got[r].attempt
    /\ got' = [got EXCEPT ![r].attempt = a, ![r].n = got[r].n + 1]

Last(r, stage) ==
    /\ got[r].stage = "sources" /\ stage \in {"done", "error"}
    /\ got' = [got EXCEPT ![r].stage = stage]

Next ==
    \E r \in Requests :
        \/ Sources(r)
        \/ \E a \in Attempts : Answer(r, a)
        \/ \E stage \in Stages : Last(r, stage)

Spec == Init /\ [][Next]_got

=============================================================================
