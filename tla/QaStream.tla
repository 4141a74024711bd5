------------------------------- MODULE QaStream -------------------------------
(***************************************************************************)
(* One answer from its first event to its last: the service's generator    *)
(* (QaService.stream), the task that moves its events into a queue of one  *)
(* (_pump), and the response that takes them out (frames), while           *)
(* generations fail and are tried again and clients leave.                 *)
(*                                                                         *)
(* Abstractions.  Service and pump are one task: while an event is in      *)
(* "out" the service is suspended at its yield and the pump in put.  Text  *)
(* is counted: pieces that VerdictSplitter holds back are released by      *)
(* Finish or with a later piece.  A task can be cancelled only where it is *)
(* suspended.  When the client leaves, the response is cancelled again and *)
(* again if it waits for an event, but if it is suspended at its own yield *)
(* it is closed once, from outside, and so cancels the pump once.          *)
(***************************************************************************)
EXTENDS Integers, FiniteSets

CONSTANTS
    Requests,
    Leavers,        \* bound of the instance: requests whose client may leave
    MaxAttempts,    \* qa_max_attempts
    Concurrency,    \* qa_concurrency
    MaxPieces,      \* bound of the instance: pieces a generation yields
    NoEvent, End    \* an empty place of the queue; the mark that ends it

Events == [name : {"sources", "answer", "done", "error"}, attempt : 0..MaxAttempts, n : Nat]

ASSUME MarksAssumption == NoEvent # End /\ NoEvent \notin Events /\ End \notin Events
ASSUME RequestsAssumption == IsFiniteSet(Requests)
ASSUME LeaversAssumption == Leavers \subseteq Requests
ASSUME AttemptsAssumption == MaxAttempts \in Nat \ {0}
ASSUME ConcurrencyAssumption == Concurrency \in Nat \ {0}
ASSUME PiecesAssumption == MaxPieces \in Nat

VARIABLES
    free,           \* free places of the limiter
    context,        \* what prepare found: a stored answer with or without text, no sources, sources
    pc,             \* where the service stands in the pump task
    attempt, pieces, emitted, body, why,   \* locals of _generate: body and why sum up raw and the exception
    out, queue,     \* the event the pump is putting, and the one in the queue
    reader,         \* where the response stands
    got,            \* what the client has: stage, attempt and number of pieces
    remembered,     \* whether the answer was given to the cache
    gone, insist, swallowed \* the client left; cancellation is repeated; it was forgotten

service == <<context, attempt, pieces, emitted, body, why, remembered>>
client == <<got, gone, insist>>
vars == <<free, pc, service, out, queue, reader, client, swallowed>>

Contexts == {"hit", "blankHit", "none", "found"}
InLimiter == {"generate", "settle"}
Event(name, a, n) == [name |-> name, attempt |-> a, n |-> n]

Init ==
    /\ free = Concurrency
    /\ context \in [Requests -> Contexts]
    /\ pc = [r \in Requests |-> "idle"]
    /\ attempt = [r \in Requests |-> 0] /\ pieces = [r \in Requests |-> 0]
    /\ emitted = [r \in Requests |-> FALSE] /\ body = [r \in Requests |-> "none"]
    /\ why = [r \in Requests |-> "none"]
    /\ out = [r \in Requests |-> NoEvent] /\ queue = [r \in Requests |-> NoEvent]
    /\ reader = [r \in Requests |-> "off"]
    /\ got = [r \in Requests |-> [stage |-> "opened", attempt |-> 0, n |-> 0]]
    /\ remembered = [r \in Requests |-> FALSE]
    /\ gone = [r \in Requests |-> FALSE] /\ insist = [r \in Requests |-> FALSE]
    /\ swallowed = [r \in Requests |-> FALSE]

-----------------------------------------------------------------------------
(* The service.                                                            *)

Go(r, from, to) == pc[r] = from /\ out[r] = NoEvent /\ pc' = [pc EXCEPT ![r] = to]
Yield(r, e) == out' = [out EXCEPT ![r] = e]
others == <<queue, reader, client, swallowed>>

Begin(r) ==
    /\ Go(r, "idle", "sources")
    /\ reader' = [reader EXCEPT ![r] = "get"]
    /\ UNCHANGED <<free, service, out, queue, client, swallowed>>

\* Where the stream goes on after its first event.
AfterSources(r) ==
    CASE context[r] = "hit" -> "replay" [] context[r] = "blankHit" -> "done"
      [] context[r] = "none" -> "remember" [] context[r] = "found" -> "limiter"

Sources(r) ==
    /\ Go(r, "sources", AfterSources(r))
    /\ Yield(r, Event("sources", 0, 0))
    /\ attempt' = [attempt EXCEPT ![r] = IF context[r] = "found" THEN 1 ELSE 0]
    /\ UNCHANGED <<free, context, pieces, emitted, body, why, remembered, others>>

\* The stored answer is one piece and takes no place of the limiter.
Replay(r) ==
    /\ Go(r, "replay", "done")
    /\ Yield(r, Event("answer", 0, 1))
    /\ pieces' = [pieces EXCEPT ![r] = 1]
    /\ UNCHANGED <<free, context, attempt, emitted, body, why, remembered, others>>

EnterLimiter(r) ==
    /\ Go(r, "limiter", "generate")
    /\ free > 0 /\ free' = free - 1
    /\ UNCHANGED <<service, out, others>>

\* Text for the client; whether it is blank decides what Parse says.
Emit(r, b) ==
    /\ Yield(r, Event("answer", attempt[r], pieces[r] + 1))
    /\ pieces' = [pieces EXCEPT ![r] = @ + 1]
    /\ emitted' = [emitted EXCEPT ![r] = TRUE]
    /\ body' = [body EXCEPT ![r] = IF @ = "text" THEN @ ELSE b]

Piece(r, b) ==
    /\ Go(r, "generate", "generate")
    /\ pieces[r] < MaxPieces
    /\ Emit(r, b)
    /\ UNCHANGED <<free, context, attempt, why, remembered, others>>

\* The turn is completed, or fails in a way the service knows, or in another: no
\* directory for the generator, a closed pool.
GenerationEnds(r, o) ==
    /\ Go(r, "generate", "settle")
    /\ o \in {"returned", "timeout", "failed", "unauthenticated", "other"}
    /\ why' = [why EXCEPT ![r] = o]
    /\ UNCHANGED <<free, context, attempt, pieces, emitted, body, remembered, out, others>>

\* Mutant: nobody catches LlmUnauthenticated.
AfterSettleUncaught(r) ==
    CASE why[r] = "returned" -> "finish"
      [] why[r] \in {"cancelled", "other", "unauthenticated"} -> "end"
      [] OTHER -> "handle"

AfterSettle(r) ==
    CASE why[r] = "returned" -> "finish"
      [] why[r] \in {"cancelled", "other"} -> "end"
      [] OTHER -> "handle"

LeaveLimiter(r) ==
    /\ free' = free + 1
    /\ pc' = [pc EXCEPT ![r] = AfterSettle(r)]

\* The session is settled, and the limiter left.
Settled(r) ==
    /\ pc[r] = "settle"
    /\ LeaveLimiter(r)
    /\ UNCHANGED <<service, out, others>>

\* The splitter gives up what it held back, if it was never settled.
Finish(r) ==
    /\ Go(r, "finish", "parse")
    /\ \/ body[r] = "none" /\ \E b \in {"blank", "text"} : Emit(r, b)
       \/ UNCHANGED <<pieces, emitted, body, out>>
    /\ UNCHANGED <<free, context, attempt, why, remembered, others>>

Parse(r) ==
    /\ Go(r, "parse", IF body[r] = "text" THEN "remember" ELSE "handle")
    /\ why' = [why EXCEPT ![r] = IF body[r] = "text" THEN @ ELSE "failed"]
    /\ UNCHANGED <<free, context, attempt, pieces, emitted, body, remembered, out, others>>

\* The cache is given the answer; that it failed to keep it is not an error.
Remember(r) ==
    /\ Go(r, "remember", "done")
    /\ remembered' = [remembered EXCEPT ![r] = TRUE]
    /\ UNCHANGED <<free, context, attempt, pieces, emitted, body, why, out, others>>

Done(r) ==
    /\ Go(r, "done", "end")
    /\ Yield(r, Event("done", attempt[r], pieces[r]))
    /\ UNCHANGED <<free, service, others>>

\* Mutant: text that was sent does not keep the service from trying again.
LastAttemptOnly(r) == why[r] = "unauthenticated" \/ attempt[r] = MaxAttempts

\* Another attempt would write the text twice.
LastAttempt(r) == why[r] = "unauthenticated" \/ emitted[r] \/ attempt[r] = MaxAttempts

Fail(r) ==
    /\ Go(r, "handle", "end")
    /\ LastAttempt(r)
    /\ Yield(r, Event("error", attempt[r], pieces[r]))
    /\ UNCHANGED <<free, service, others>>

BackOff(r) ==
    /\ Go(r, "handle", "backoff")
    /\ ~LastAttempt(r)
    /\ UNCHANGED <<free, service, out, others>>

Retry(r) ==
    /\ Go(r, "backoff", "limiter")
    /\ attempt' = [attempt EXCEPT ![r] = @ + 1]
    /\ pieces' = [pieces EXCEPT ![r] = 0] /\ body' = [body EXCEPT ![r] = "none"]
    /\ UNCHANGED <<free, context, emitted, why, remembered, out, others>>

-----------------------------------------------------------------------------
(* The pump and the response.                                              *)

Put(r) ==
    /\ out[r] # NoEvent /\ queue[r] = NoEvent
    /\ queue' = [queue EXCEPT ![r] = out[r]]
    /\ out' = [out EXCEPT ![r] = NoEvent]
    /\ UNCHANGED <<free, pc, service, reader, client, swallowed>>

\* Mutant: the mark is put only when the service ended well.
PutEndUnlessRaised(r) ==
    /\ Go(r, "end", "over")
    /\ queue[r] = NoEvent
    /\ queue' = [queue EXCEPT ![r] = IF why[r] = "other" THEN NoEvent ELSE End]
    /\ UNCHANGED <<free, service, out, reader, client, swallowed>>

\* The mark goes into the queue however the service ended.
PutEnd(r) ==
    /\ Go(r, "end", "over")
    /\ queue[r] = NoEvent /\ queue' = [queue EXCEPT ![r] = End]
    /\ UNCHANGED <<free, service, out, reader, client, swallowed>>

Turn(r, from, to) == reader[r] = from /\ reader' = [reader EXCEPT ![r] = to]

Received(g, e) ==
    IF e.name = "answer" THEN [g EXCEPT !.attempt = e.attempt, !.n = e.n]
                         ELSE [g EXCEPT !.stage = e.name, !.n = e.n]

Get(r) ==
    /\ Turn(r, "get", "send")
    /\ queue[r] \notin {NoEvent, End}
    /\ got' = [got EXCEPT ![r] = Received(@, queue[r])]
    /\ queue' = [queue EXCEPT ![r] = NoEvent]
    /\ UNCHANGED <<free, pc, service, out, gone, insist, swallowed>>

\* No event within the heartbeat: a comment is sent.
KeepAlive(r) ==
    /\ Turn(r, "get", "send")
    /\ queue[r] = NoEvent
    /\ UNCHANGED <<free, pc, service, out, queue, client, swallowed>>

Sent(r) ==
    /\ Turn(r, "send", "get")
    /\ UNCHANGED <<free, pc, service, out, queue, client, swallowed>>

\* The response ends, and raises what the pump raised.
GetEnd(r) ==
    /\ Turn(r, "get", "closed")
    /\ queue[r] = End /\ queue' = [queue EXCEPT ![r] = NoEvent]
    /\ UNCHANGED <<free, pc, service, out, client, swallowed>>

-----------------------------------------------------------------------------
(* The client leaves.                                                      *)

Suspended(r) ==
    out[r] # NoEvent \/ pc[r] \in {"limiter", "generate", "settle", "backoff", "remember", "end", "over"}

\* Mutant: the generation is not closed with the stream that reads it.
AfterCancelOpen(r) ==
    CASE pc[r] = "generate" -> "generate"
      [] pc[r] = "over" \/ (pc[r] = "end" /\ out[r] = NoEvent) -> "over"
      [] OTHER -> "end"

\* Mutant: the limiter is left behind.
AfterCancelAtOnce(r) ==
    IF pc[r] = "over" \/ (pc[r] = "end" /\ out[r] = NoEvent) THEN "over" ELSE "end"

\* Where a cancelled task goes: a generation is closed and its session settled, before
\* the limiter is left; the mark is put, unless it was the put of the mark that was cut.
AfterCancel(r) ==
    CASE pc[r] = "generate" -> "settle"
      [] pc[r] = "over" \/ (pc[r] = "end" /\ out[r] = NoEvent) -> "over"
      [] OTHER -> "end"

Abandon(r) ==
    /\ pc[r] # "settle"
    /\ pc' = [pc EXCEPT ![r] = AfterCancel(r)]
    /\ why' = [why EXCEPT ![r] = IF pc[r] = "over" THEN @ ELSE "cancelled"]
    /\ out' = [out EXCEPT ![r] = NoEvent]
    /\ UNCHANGED <<free, swallowed>>

\* _shielded: a cancellation cuts the wait for the session short and goes no further.
Swallow(r) ==
    /\ pc[r] = "settle"
    /\ LeaveLimiter(r)
    /\ swallowed' = [swallowed EXCEPT ![r] = why[r] # "cancelled"]
    /\ UNCHANGED <<why, out>>

Cancelled(r) ==
    /\ Suspended(r)
    /\ Abandon(r) \/ Swallow(r)
    /\ UNCHANGED <<context, attempt, pieces, emitted, body, remembered, queue, got>>

\* The response waits for an event: its task is cancelled until it ends.
DisconnectReading(r) ==
    /\ r \in Leavers /\ Turn(r, "get", "cleanup")
    /\ Cancelled(r)
    /\ gone' = [gone EXCEPT ![r] = TRUE] /\ insist' = [insist EXCEPT ![r] = TRUE]

\* The response is sending: it is closed later, and nobody cancels it again.
DisconnectSending(r) ==
    /\ r \in Leavers /\ Turn(r, "send", "cleanup")
    /\ Cancelled(r)
    /\ gone' = [gone EXCEPT ![r] = TRUE] /\ UNCHANGED insist

CancelAgain(r) ==
    /\ reader[r] = "cleanup" /\ insist[r] /\ pc[r] # "over"
    /\ Cancelled(r)
    /\ UNCHANGED <<reader, gone, insist>>

CleanedUp(r) ==
    /\ pc[r] = "over" /\ Turn(r, "cleanup", "closed")
    /\ UNCHANGED <<free, pc, service, out, queue, client, swallowed>>

-----------------------------------------------------------------------------
\* The pump task, but for its waits for a place.
Pump(r) ==
    \/ Sources(r) \/ Replay(r)
    \/ \E b \in {"blank", "text"} : Piece(r, b)
    \/ \E o \in {"returned", "timeout", "failed", "unauthenticated", "other"} : GenerationEnds(r, o)
    \/ Settled(r) \/ Finish(r) \/ Parse(r) \/ Remember(r) \/ Done(r)
    \/ Fail(r) \/ BackOff(r) \/ Retry(r) \/ Put(r) \/ PutEnd(r)

Respond(r) == Get(r) \/ Sent(r) \/ GetEnd(r) \/ CleanedUp(r)

Next ==
    \E r \in Requests :
        \/ Begin(r) \/ Pump(r) \/ EnterLimiter(r) \/ Respond(r) \/ KeepAlive(r)
        \/ DisconnectReading(r) \/ DisconnectSending(r) \/ CancelAgain(r)

Spec == Init /\ [][Next]_vars

\* Generations have a time limit, the limiter serves in order, clients read what is
\* sent or leave, and cancellations are repeated.
FairSpec ==
    /\ Spec
    /\ \A r \in Requests :
        /\ WF_vars(Pump(r)) /\ SF_vars(EnterLimiter(r))
        /\ WF_vars(Respond(r)) /\ WF_vars(CancelAgain(r))

-----------------------------------------------------------------------------
(* Properties.                                                             *)

Places == {"idle", "sources", "replay", "limiter", "generate", "settle", "finish", "parse",
           "remember", "done", "handle", "backoff", "end", "over"}

\* The shape of the streams.
TypeOK ==
    /\ free \in Nat /\ context \in [Requests -> Contexts] /\ pc \in [Requests -> Places]
    /\ attempt \in [Requests -> 0..MaxAttempts] /\ pieces \in [Requests -> Nat]
    /\ emitted \in [Requests -> BOOLEAN] /\ body \in [Requests -> {"none", "blank", "text"}]
    /\ why \in [Requests -> {"none", "returned", "timeout", "failed", "unauthenticated", "other",
                             "cancelled"}]
    /\ out \in [Requests -> Events \cup {NoEvent}]
    /\ queue \in [Requests -> Events \cup {NoEvent, End}]
    /\ reader \in [Requests -> {"off", "get", "send", "cleanup", "closed"}]
    /\ got \in [Requests -> [stage : {"opened", "sources", "done", "error"},
                             attempt : 0..MaxAttempts, n : Nat]]
    /\ remembered \in [Requests -> BOOLEAN] /\ gone \in [Requests -> BOOLEAN]
    /\ insist \in [Requests -> BOOLEAN] /\ swallowed \in [Requests -> BOOLEAN]

\* Places of the limiter are neither lost nor invented, however streams end.
LimiterConserved == free + Cardinality({r \in Requests : pc[r] \in InLimiter}) = Concurrency

\* A stream its client did not leave ends with its last event, unless the generator
\* failed in a way the service does not know.  The answer is given to the cache before the
\* client learns that it is done, and no stream that ends in an error has left one there.
EndsProperly ==
    \A r \in Requests :
        /\ reader[r] = "closed" /\ ~gone[r] => got[r].stage \in {"done", "error"} \/ why[r] = "other"
        /\ got[r].stage = "done" /\ context[r] \in {"none", "found"} => remembered[r]
        /\ got[r].stage = "error" => ~remembered[r]

\* Clients receive the events of EventStream, in order, none lost, none twice.
Abstract == INSTANCE EventStream WITH Attempts <- 0..MaxAttempts
ImplementsEventStream == Abstract!Spec

\* Whether e may follow what the client has, and what it has with the queue taken out.
Fits(g, e) ==
    \/ e.name = "sources" /\ g.stage = "opened" /\ e.n = g.n
    \/ e.name = "answer" /\ g.stage = "sources" /\ e.n = g.n + 1 /\ (g.n > 0 => e.attempt = g.attempt)
    \/ e.name \in {"done", "error"} /\ g.stage = "sources" /\ e.n = g.n
AfterQueue(r) == IF queue[r] \in {NoEvent, End} THEN got[r] ELSE Received(got[r], queue[r])
AfterOut(r) == IF out[r] = NoEvent THEN AfterQueue(r) ELSE Received(AfterQueue(r), out[r])

\* The queue and the pump hold what comes next.
Chained(r) ==
    /\ queue[r] \notin {NoEvent, End} => Fits(got[r], queue[r])
    /\ out[r] # NoEvent => Fits(AfterQueue(r), out[r])
    /\ queue[r] = End => pc[r] = "over"
    /\ pc[r] \in {"idle", "over", "settle"} => out[r] = NoEvent

\* What the client will have is what the service believes it sent, as long as the
\* service goes on.
Working == {"limiter", "generate", "finish", "parse", "handle", "backoff"}
Accounted(r) ==
    /\ pc[r] \in {"idle", "sources"} => AfterOut(r).stage = "opened" /\ AfterOut(r).n = 0 /\ pieces[r] = 0
    /\ (pc[r] \in Working \cup {"replay", "remember", "done"} \/ (pc[r] = "settle" /\ why[r] # "cancelled"))
         => /\ AfterOut(r).stage = "sources" /\ AfterOut(r).n = pieces[r]
            /\ pieces[r] > 0 => AfterOut(r).attempt = attempt[r]
    /\ pc[r] = "replay" => pieces[r] = 0 /\ attempt[r] = 0
    /\ pc[r] \in Working \cup {"idle", "sources", "settle"} /\ ~emitted[r] => pieces[r] = 0
    /\ pc[r] \in Working \cup {"settle"} => attempt[r] \in 1..MaxAttempts
    /\ pc[r] = "backoff" => attempt[r] < MaxAttempts /\ ~emitted[r]

\* The inductive invariant behind LimiterConserved and ImplementsEventStream.
IInv == TypeOK /\ LimiterConserved /\ \A r \in Requests : Chained(r) /\ Accounted(r)

\* What has been, or will be, told of the end of a stream is true of the cache.
Told(r) ==
    \A g \in {got[r], AfterQueue(r), AfterOut(r)} :
        /\ g.stage = "done" /\ context[r] \in {"none", "found"} => remembered[r]
        /\ g.stage = "error" => ~remembered[r]

\* A service that has ended has sent its last event, and a response is over after it.
Ended(r) ==
    /\ pc[r] \in {"end", "over"} /\ ~gone[r] => AfterOut(r).stage \in {"done", "error"} \/ why[r] = "other"
    /\ reader[r] = "closed" => pc[r] = "over" /\ (~gone[r] => queue[r] = NoEvent)
    /\ (reader[r] = "cleanup" \/ why[r] = "cancelled") => gone[r]
    /\ pc[r] = "replay" => context[r] = "hit"
    /\ pc[r] = "done" => remembered[r] \/ context[r] \in {"hit", "blankHit"}
    /\ pc[r] \notin {"done", "end", "over"} => ~remembered[r]

\* The inductive invariant behind EndsProperly.
EndInv == IInv /\ \A r \in Requests : Told(r) /\ Ended(r)

\* Every stream ends or is left by its client, as long as no cancellation is forgotten.
EveryStreamEnds ==
    [](\A r \in Requests : ~swallowed[r]) =>
        \A r \in Requests : (reader[r] # "off") ~> (reader[r] = "closed" \/ gone[r])

\* A client that leaves ends the generation, if its cancellation is not forgotten or is
\* repeated, and then both tasks end too.
LeavingStops ==
    \A r \in Requests :
        /\ (gone[r] /\ ~swallowed[r]) ~> (pc[r] \in {"end", "over"})
        /\ insist[r] ~> (pc[r] = "over" /\ reader[r] = "closed")

\* What the specification says of a client that leaves: the generation stops.
LeavingAlwaysStops == \A r \in Requests : gone[r] ~> [](pc[r] # "generate")

=============================================================================
