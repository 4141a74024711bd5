------------------------------ MODULE MCSessions ------------------------------
(* An instance of the pool and one of a session in detail.  They share no state: a *)
(* behaviour is of one of them, and the other stays as it was. *)
EXTENDS SessionPool, Session

VARIABLE part

all == <<part, vars, session>>

OfPool(A) == part = "pool" /\ A /\ UNCHANGED <<part, session>>
OfSession(A) == part = "session" /\ A /\ UNCHANGED <<part, vars>>

BothInit == part \in {"pool", "session"} /\ Init /\ SessionInit

BothNext ==
    \/ part = "pool" /\ Next /\ UNCHANGED <<part, session>>
    \/ part = "session" /\ SessionNext /\ UNCHANGED <<part, vars>>

\* FairSpec of SessionPool and SessionFairness, each for its own part.
BothSpec ==
    /\ BothInit /\ [][BothNext]_all
    /\ \A r \in Requests : WF_all(OfPool(Continue(r))) /\ SF_all(OfPool(Take(r)))
    /\ \A s \in Sessions : WF_all(OfPool(EndAwaited(s)))
    /\ WF_all(OfSession(Proceed)) /\ WF_all(OfSession(ReadOn))
    /\ WF_all(OfSession(Reap)) /\ WF_all(OfSession(DieOfKill))
    /\ \A k \in Closers : WF_all(OfSession(Finish(k)))

=============================================================================
