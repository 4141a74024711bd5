---------------------------- MODULE QaStreamProofs ----------------------------
(***************************************************************************)
(* Theorems about QaStream for any finite set of requests, any number of   *)
(* attempts and pieces and any size of the limiter.                        *)
(***************************************************************************)
EXTENDS QaStream, FiniteSetTheorems, TLAPS

USE MarksAssumption, RequestsAssumption, AttemptsAssumption, ConcurrencyAssumption, PiecesAssumption
USE DEF service, client, others, Go, Yield, Turn

Gots == [stage : {"opened", "sources", "done", "error"}, attempt : 0..MaxAttempts, n : Nat]
Outcomes == {"returned", "timeout", "failed", "unauthenticated", "other"}

\* The steps of one request.
Step(r) ==
    \/ Begin(r) \/ Pump(r) \/ EnterLimiter(r) \/ Respond(r) \/ KeepAlive(r)
    \/ DisconnectReading(r) \/ DisconnectSending(r) \/ CancelAgain(r)

\* Cancellation, whoever caused it.
Cancels(r) == DisconnectReading(r) \/ DisconnectSending(r) \/ CancelAgain(r)

-----------------------------------------------------------------------------
\* Events have their type.
LEMMA EventType ==
  ASSUME NEW name \in {"sources", "answer", "done", "error"}, NEW a \in 0..MaxAttempts, NEW n \in Nat
  PROVE  /\ Event(name, a, n) \in Events
         /\ Event(name, a, n) # NoEvent /\ Event(name, a, n) # End
         /\ Event(name, a, n).name = name /\ Event(name, a, n).attempt = a /\ Event(name, a, n).n = n
  BY DEF Event, Events

\* What a client has keeps its type.
LEMMA ReceivedType ==
  ASSUME NEW g \in Gots, NEW e \in Events
  PROVE  Received(g, e) \in Gots
<1>1. CASE e.name = "answer"
  BY <1>1 DEF Received, Events, Gots
<1>2. CASE e.name # "answer"
  BY <1>2 DEF Received, Events, Gots
<1> QED BY <1>1, <1>2

LEMMA AfterType ==
  ASSUME TypeOK, NEW r \in Requests
  PROVE  AfterQueue(r) \in Gots /\ AfterOut(r) \in Gots
<1>1. /\ got[r] \in Gots /\ queue[r] \in Events \cup {NoEvent, End} /\ out[r] \in Events \cup {NoEvent}
  BY DEF TypeOK, Gots
<1>2. AfterQueue(r) \in Gots
  BY <1>1, ReceivedType DEF AfterQueue
<1> QED BY <1>1, <1>2, ReceivedType DEF AfterOut

\* The types survive a step of the service.
LEMMA ServiceType ==
  ASSUME TypeOK, NEW r \in Requests, Accounted(r),
         Begin(r) \/ Pump(r) \/ EnterLimiter(r)
  PROVE  TypeOK'
<1> USE DEF TypeOK, Places
<1>1. CASE Begin(r)
  BY <1>1 DEF Begin
<1>2. CASE Sources(r)
  <2>1. AfterSources(r) \in Places
    BY DEF AfterSources, Contexts
  <2>2. Event("sources", 0, 0) \in Events
    BY EventType
  <2> QED BY <1>2, <2>1, <2>2 DEF Sources
<1>3. CASE Replay(r)
  <2>1. Event("answer", 0, 1) \in Events
    BY EventType
  <2> QED BY <1>3, <2>1 DEF Replay
<1>4. CASE EnterLimiter(r)
  BY <1>4 DEF EnterLimiter
<1>5. ASSUME NEW b \in {"blank", "text"}, Emit(r, b)
      PROVE  /\ out' \in [Requests -> Events \cup {NoEvent}] /\ pieces' \in [Requests -> Nat]
             /\ emitted' \in [Requests -> BOOLEAN] /\ body' \in [Requests -> {"none", "blank", "text"}]
  <2>1. Event("answer", attempt[r], pieces[r] + 1) \in Events
    BY EventType
  <2> QED BY <1>5, <2>1 DEF Emit
<1>6. ASSUME NEW b \in {"blank", "text"}, Piece(r, b) PROVE TypeOK'
  BY <1>5, <1>6 DEF Piece
<1>7. ASSUME NEW o \in Outcomes, GenerationEnds(r, o) PROVE TypeOK'
  BY <1>7 DEF GenerationEnds, Outcomes
<1>8. CASE Settled(r)
  BY <1>8 DEF Settled, LeaveLimiter, AfterSettle
<1>9. CASE Finish(r)
  BY <1>5, <1>9 DEF Finish
<1>10. CASE Parse(r)
  BY <1>10 DEF Parse
<1>11. CASE Remember(r)
  BY <1>11 DEF Remember
<1>12. CASE Done(r)
  <2>1. Event("done", attempt[r], pieces[r]) \in Events
    BY EventType
  <2> QED BY <1>12, <2>1 DEF Done
<1>13. CASE Fail(r)
  <2>1. Event("error", attempt[r], pieces[r]) \in Events
    BY EventType
  <2> QED BY <1>13, <2>1 DEF Fail
<1>14. CASE BackOff(r)
  BY <1>14 DEF BackOff
<1>15. CASE Retry(r)
  <2>1. attempt[r] + 1 \in 0..MaxAttempts
    BY <1>15 DEF Retry, Accounted, Working
  <2> QED BY <1>15, <2>1 DEF Retry
<1>16. CASE Put(r)
  BY <1>16 DEF Put
<1>17. CASE PutEnd(r)
  BY <1>17 DEF PutEnd
<1> QED
  BY <1>1, <1>2, <1>3, <1>4, <1>6, <1>7, <1>8, <1>9, <1>10, <1>11, <1>12, <1>13, <1>14, <1>15,
     <1>16, <1>17 DEF Pump, Outcomes

\* The types survive a step of the response or of the client.
LEMMA ResponseType ==
  ASSUME TypeOK, NEW r \in Requests, Respond(r) \/ KeepAlive(r) \/ Cancels(r)
  PROVE  TypeOK'
<1> USE DEF TypeOK, Places
<1>1. CASE Get(r)
  <2>1. queue[r] \in Events
    BY <1>1 DEF Get
  <2>2. Received(got[r], queue[r]) \in Gots
    BY <2>1, ReceivedType DEF Gots
  <2> QED BY <1>1, <2>2 DEF Get, Gots
<1>2. CASE Sent(r) \/ GetEnd(r) \/ CleanedUp(r) \/ KeepAlive(r)
  BY <1>2 DEF Sent, GetEnd, CleanedUp, KeepAlive
<1>3. ASSUME Cancelled(r)
      PROVE  /\ free' \in Nat /\ pc' \in [Requests -> Places] /\ why' \in
                [Requests -> {"none", "returned", "timeout", "failed", "unauthenticated", "other", "cancelled"}]
             /\ out' \in [Requests -> Events \cup {NoEvent}] /\ swallowed' \in [Requests -> BOOLEAN]
  <2>1. CASE Abandon(r)
    BY <2>1 DEF Abandon, AfterCancel
  <2>2. CASE Swallow(r)
    BY <2>2 DEF Swallow, LeaveLimiter, AfterSettle
  <2> QED BY <1>3, <2>1, <2>2 DEF Cancelled
<1>4. CASE Cancels(r)
  <2>1. Cancelled(r)
    BY <1>4 DEF Cancels, DisconnectReading, DisconnectSending, CancelAgain
  <2>2. /\ reader' \in [Requests -> {"off", "get", "send", "cleanup", "closed"}]
        /\ gone' \in [Requests -> BOOLEAN] /\ insist' \in [Requests -> BOOLEAN]
    BY <1>4 DEF Cancels, DisconnectReading, DisconnectSending, CancelAgain
  <2>3. UNCHANGED <<context, attempt, pieces, emitted, body, remembered, queue, got>>
    BY <2>1 DEF Cancelled
  <2> QED BY <1>3, <2>1, <2>2, <2>3
<1> QED BY <1>1, <1>2, <1>4 DEF Respond

-----------------------------------------------------------------------------
(* The limiter.                                                            *)

Inside == {r \in Requests : pc[r] \in InLimiter}

\* Whoever stays on his side of the limiter changes nothing about it.
LEMMA StaysPut ==
  ASSUME TypeOK, LimiterConserved, NEW r \in Requests, UNCHANGED free,
         \A q \in Requests : q # r => pc'[q] = pc[q], pc'[r] \in InLimiter <=> pc[r] \in InLimiter
  PROVE  LimiterConserved'
<1>1. {q \in Requests : pc'[q] \in InLimiter} = {q \in Requests : pc[q] \in InLimiter}
  OBVIOUS
<1> QED BY <1>1 DEF LimiterConserved

\* Entering takes a place.
LEMMA Enters ==
  ASSUME TypeOK, LimiterConserved, NEW r \in Requests, EnterLimiter(r)
  PROVE  LimiterConserved'
<1>1. Inside' = Inside \cup {r} /\ r \notin Inside
  BY DEF EnterLimiter, TypeOK, Inside, InLimiter
<1>2. IsFiniteSet(Inside)
  BY FS_Subset DEF Inside
<1>3. Cardinality(Inside') = Cardinality(Inside) + 1 /\ Cardinality(Inside) \in Nat
  BY <1>1, <1>2, FS_AddElement, FS_CardinalityType
<1>4. free' = free - 1 /\ free \in Nat
  BY DEF EnterLimiter, TypeOK
<1>5. free + Cardinality(Inside) = Concurrency
  BY DEF LimiterConserved, Inside
<1>6. free' + Cardinality(Inside') = Concurrency
  BY <1>3, <1>4, <1>5
<1> QED BY <1>6 DEF LimiterConserved, Inside

\* Leaving gives it back, whether the session is settled or the wait for it was cut.
LEMMA Leaves ==
  ASSUME TypeOK, LimiterConserved, NEW r \in Requests, pc[r] = "settle", LeaveLimiter(r)
  PROVE  LimiterConserved'
<1>1. AfterSettle(r) \notin InLimiter
  BY DEF AfterSettle, InLimiter
<1>2. Inside' = Inside \ {r} /\ r \in Inside
  BY <1>1 DEF LeaveLimiter, TypeOK, Inside, InLimiter
<1>3. IsFiniteSet(Inside)
  BY FS_Subset DEF Inside
<1>4. Cardinality(Inside') = Cardinality(Inside) - 1 /\ Cardinality(Inside) \in Nat
  BY <1>2, <1>3, FS_RemoveElement, FS_CardinalityType
<1>5. free' = free + 1 /\ free \in Nat
  BY DEF LeaveLimiter, TypeOK
<1>6. free + Cardinality(Inside) = Concurrency
  BY DEF LimiterConserved, Inside
<1>7. free' + Cardinality(Inside') = Concurrency
  BY <1>4, <1>5, <1>6
<1> QED BY <1>7 DEF LimiterConserved, Inside

\* No step loses a place.
LEMMA LimiterStep ==
  ASSUME TypeOK, LimiterConserved, NEW r \in Requests, Step(r)
  PROVE  LimiterConserved'
<1> USE DEF TypeOK, InLimiter
<1>1. CASE Begin(r) \/ Sources(r) \/ Replay(r)
  <2>1. AfterSources(r) \notin InLimiter
    BY DEF AfterSources, Contexts
  <2> QED BY <1>1, <2>1, StaysPut DEF Begin, Sources, Replay
<1>2. ASSUME NEW b \in {"blank", "text"}, Piece(r, b) PROVE LimiterConserved'
  BY <1>2, StaysPut DEF Piece
<1>3. ASSUME NEW o \in Outcomes, GenerationEnds(r, o) PROVE LimiterConserved'
  BY <1>3, StaysPut DEF GenerationEnds
<1>4. CASE Settled(r)
  BY <1>4, Leaves DEF Settled
<1>5. CASE Finish(r) \/ Parse(r) \/ Remember(r) \/ Done(r)
  BY <1>5, StaysPut DEF Finish, Parse, Remember, Done
<1>6. CASE Fail(r) \/ BackOff(r) \/ Retry(r)
  BY <1>6, StaysPut DEF Fail, BackOff, Retry
<1>7. CASE Put(r) \/ PutEnd(r)
  BY <1>7, StaysPut DEF Put, PutEnd
<1>8. CASE EnterLimiter(r)
  BY <1>8, Enters
<1>9. CASE Respond(r) \/ KeepAlive(r)
  BY <1>9, StaysPut DEF Respond, Get, Sent, GetEnd, CleanedUp, KeepAlive
<1>10. ASSUME Abandon(r) PROVE LimiterConserved'
  BY <1>10, StaysPut DEF Abandon, AfterCancel
<1>11. ASSUME Swallow(r) PROVE LimiterConserved'
  BY <1>11, Leaves DEF Swallow
<1>12. CASE Cancels(r)
  BY <1>10, <1>11, <1>12 DEF Cancels, DisconnectReading, DisconnectSending, CancelAgain, Cancelled
<1> QED
  BY <1>1, <1>2, <1>3, <1>4, <1>5, <1>6, <1>7, <1>8, <1>9, <1>12 DEF Step, Pump, Cancels, Outcomes

-----------------------------------------------------------------------------
(* The chain from the service to the client.                               *)

SameAt(q) ==
    /\ pc'[q] = pc[q] /\ out'[q] = out[q] /\ queue'[q] = queue[q] /\ got'[q] = got[q]
    /\ attempt'[q] = attempt[q] /\ pieces'[q] = pieces[q] /\ emitted'[q] = emitted[q]
    /\ why'[q] = why[q]

\* A step of one request leaves the others as they are.
LEMMA Frame ==
  ASSUME TypeOK, NEW r \in Requests, Step(r), NEW q \in Requests, q # r
  PROVE  SameAt(q)
<1> USE DEF TypeOK, SameAt
<1>1. CASE Begin(r) \/ Sources(r) \/ Replay(r)
  BY <1>1 DEF Begin, Sources, Replay
<1>2. ASSUME NEW b \in {"blank", "text"}, Piece(r, b) PROVE SameAt(q)
  BY <1>2 DEF Piece, Emit
<1>3. ASSUME NEW o \in Outcomes, GenerationEnds(r, o) PROVE SameAt(q)
  BY <1>3 DEF GenerationEnds
<1>4. CASE Settled(r) \/ Finish(r)
  BY <1>4 DEF Settled, LeaveLimiter, Finish, Emit
<1>5. CASE Parse(r) \/ Remember(r) \/ Done(r)
  BY <1>5 DEF Parse, Remember, Done
<1>6. CASE Fail(r) \/ BackOff(r) \/ Retry(r)
  BY <1>6 DEF Fail, BackOff, Retry
<1>7. CASE Put(r) \/ PutEnd(r) \/ EnterLimiter(r)
  BY <1>7 DEF Put, PutEnd, EnterLimiter
<1>8. CASE Respond(r) \/ KeepAlive(r)
  BY <1>8 DEF Respond, Get, Sent, GetEnd, CleanedUp, KeepAlive
<1>9. CASE Cancels(r)
  <2>1. Cancelled(r)
    BY <1>9 DEF Cancels, DisconnectReading, DisconnectSending, CancelAgain
  <2>2. CASE Abandon(r)
    BY <2>1, <2>2 DEF Cancelled, Abandon
  <2>3. CASE Swallow(r)
    BY <2>1, <2>3 DEF Cancelled, Swallow, LeaveLimiter
  <2> QED BY <2>1, <2>2, <2>3 DEF Cancelled
<1> QED
  BY <1>1, <1>2, <1>3, <1>4, <1>5, <1>6, <1>7, <1>8, <1>9 DEF Step, Pump, Cancels, Outcomes

LEMMA Kept ==
  ASSUME NEW q \in Requests, Chained(q), Accounted(q), SameAt(q)
  PROVE  Chained(q)' /\ Accounted(q)'
  BY DEF Chained, Accounted, SameAt, AfterQueue, AfterOut

\* An event that fits is put at the end of the chain.
LEMMA Appended ==
  ASSUME TypeOK, NEW r \in Requests, out[r] = NoEvent, NEW e \in Events,
         Fits(AfterOut(r), e), out' = [out EXCEPT ![r] = e], UNCHANGED <<queue, got>>
  PROVE  /\ AfterQueue(r)' = AfterQueue(r) /\ out'[r] # NoEvent
         /\ Fits(AfterQueue(r)', out'[r]) /\ AfterOut(r)' = Received(AfterOut(r), e)
  BY DEF TypeOK, AfterQueue, AfterOut

\* The event of an emitting step follows from what was sent before.
LEMMA EmittedFits ==
  ASSUME TypeOK, NEW r \in Requests, NEW e \in Events, Chained(r), out[r] = NoEvent,
         Fits(AfterOut(r), e), out' = [out EXCEPT ![r] = e], UNCHANGED <<queue, got>>,
         pc'[r] \notin {"idle", "over", "settle"}, pc[r] # "over"
  PROVE  Chained(r)' /\ AfterOut(r)' = Received(AfterOut(r), e)
  BY Appended DEF Chained

\* The service's own steps keep the chain of their request.
LEMMA EmitChain ==
  ASSUME TypeOK, NEW r \in Requests, Chained(r), Accounted(r),
         NEW b \in {"blank", "text"}, pc[r] \in {"generate", "finish"}, out[r] = NoEvent,
         Emit(r, b), UNCHANGED <<attempt, why, queue, got>>, pc'[r] \in {"generate", "parse"}
  PROVE  Chained(r)' /\ Accounted(r)'
<1> DEFINE e == Event("answer", attempt[r], pieces[r] + 1)
<1>1. attempt[r] \in 0..MaxAttempts /\ pieces[r] \in Nat
  BY DEF TypeOK
<1>2. e \in Events /\ e.name = "answer" /\ e.attempt = attempt[r] /\ e.n = pieces[r] + 1
  BY <1>1, EventType
<1>3. AfterOut(r).stage = "sources" /\ AfterOut(r).n = pieces[r]
        /\ (pieces[r] > 0 => AfterOut(r).attempt = attempt[r])
  BY DEF Accounted, Working
<1>4. Fits(AfterOut(r), e)
  BY <1>2, <1>3 DEF Fits
<1>5. out' = [out EXCEPT ![r] = e]
  BY DEF Emit
<1> HIDE DEF e
<1>6. Chained(r)' /\ AfterOut(r)' = Received(AfterOut(r), e)
  BY <1>2, <1>4, <1>5, EmittedFits
<1>7. AfterOut(r) \in Gots
  BY AfterType
<1>8. AfterOut(r)'.stage = "sources" /\ AfterOut(r)'.n = pieces[r] + 1 /\ AfterOut(r)'.attempt = attempt[r]
  BY <1>2, <1>3, <1>6, <1>7 DEF Received, Gots
<1>9. pieces'[r] = pieces[r] + 1 /\ emitted'[r] /\ attempt'[r] = attempt[r]
  BY DEF Emit, TypeOK
<1> QED BY <1>6, <1>8, <1>9 DEF Accounted, Working

LEMMA StartChain ==
  ASSUME TypeOK, NEW r \in Requests, Chained(r), Accounted(r), Begin(r) \/ Sources(r) \/ Replay(r)
  PROVE  Chained(r)' /\ Accounted(r)'
<1>1. CASE Begin(r)
  BY <1>1 DEF Begin, TypeOK, Chained, Accounted, Working, AfterOut, AfterQueue
<1>2. CASE Sources(r)
  <2> DEFINE e == Event("sources", 0, 0)
  <2>1. e \in Events /\ e.name = "sources" /\ e.n = 0
    BY EventType
  <2>2. AfterOut(r).stage = "opened" /\ AfterOut(r).n = 0 /\ pieces[r] = 0 /\ out[r] = NoEvent
    BY <1>2 DEF Sources, Accounted
  <2>3. AfterSources(r) \in {"replay", "done", "remember", "limiter"}
    BY DEF AfterSources, TypeOK, Contexts
  <2>4. AfterSources(r) = "replay" => context[r] # "found"
    BY DEF AfterSources, TypeOK, Contexts
  <2>5. AfterSources(r) = "limiter" => context[r] = "found"
    BY DEF AfterSources, TypeOK, Contexts
  <2>6. pc'[r] = AfterSources(r) /\ out' = [out EXCEPT ![r] = e] /\ pc[r] = "sources"
    BY <1>2 DEF Sources, TypeOK
  <2>7. Fits(AfterOut(r), e)
    BY <2>1, <2>2 DEF Fits
  <2>8. UNCHANGED <<queue, got>>
    BY <1>2 DEF Sources
  <2> HIDE DEF e
  <2>9. Chained(r)' /\ AfterOut(r)' = Received(AfterOut(r), e)
    BY <2>1, <2>2, <2>3, <2>6, <2>7, <2>8, EmittedFits
  <2>10. AfterOut(r) \in Gots
    BY AfterType
  <2>11. AfterOut(r)'.stage = "sources" /\ AfterOut(r)'.n = 0
    BY <2>1, <2>9, <2>10 DEF Received, Gots
  <2>12. pieces'[r] = 0 /\ attempt'[r] = (IF context[r] = "found" THEN 1 ELSE 0)
    BY <1>2, <2>2 DEF Sources, TypeOK
  <2> QED BY <2>3, <2>4, <2>5, <2>6, <2>9, <2>11, <2>12 DEF Accounted, Working
<1>3. CASE Replay(r)
  <2> DEFINE e == Event("answer", 0, 1)
  <2>1. e \in Events /\ e.name = "answer" /\ e.n = 1 /\ e.attempt = 0
    BY EventType
  <2>2. /\ AfterOut(r).stage = "sources" /\ AfterOut(r).n = 0 /\ attempt[r] = 0 /\ out[r] = NoEvent
    BY <1>3 DEF Replay, Accounted
  <2>3. pc'[r] = "done" /\ pc[r] = "replay" /\ out' = [out EXCEPT ![r] = e]
    BY <1>3 DEF Replay, TypeOK
  <2>4. Fits(AfterOut(r), e)
    BY <2>1, <2>2 DEF Fits
  <2>5. UNCHANGED <<queue, got>>
    BY <1>3 DEF Replay
  <2> HIDE DEF e
  <2>6. Chained(r)' /\ AfterOut(r)' = Received(AfterOut(r), e)
    BY <2>1, <2>2, <2>3, <2>4, <2>5, EmittedFits
  <2>7. AfterOut(r) \in Gots
    BY AfterType
  <2>8. AfterOut(r)'.stage = "sources" /\ AfterOut(r)'.n = 1 /\ AfterOut(r)'.attempt = 0
    BY <2>1, <2>2, <2>6, <2>7 DEF Received, Gots
  <2>9. pieces'[r] = 1 /\ attempt'[r] = 0
    BY <1>3, <2>2 DEF Replay, TypeOK
  <2> QED BY <2>3, <2>6, <2>8, <2>9 DEF Accounted, Working
<1> QED BY <1>1, <1>2, <1>3

\* The last event follows what was sent.
LEMMA LastChain ==
  ASSUME TypeOK, NEW r \in Requests, Chained(r), Accounted(r), Done(r) \/ Fail(r)
  PROVE  Chained(r)' /\ Accounted(r)'
<1>1. PICK name \in {"done", "error"} : out' = [out EXCEPT ![r] = Event(name, attempt[r], pieces[r])]
  BY DEF Done, Fail
<1> DEFINE e == Event(name, attempt[r], pieces[r])
<1>2. attempt[r] \in 0..MaxAttempts /\ pieces[r] \in Nat
  BY DEF TypeOK
<1>3. e \in Events /\ e.name \in {"done", "error"} /\ e.n = pieces[r]
  BY <1>2, EventType
<1>4. AfterOut(r).stage = "sources" /\ AfterOut(r).n = pieces[r] /\ out[r] = NoEvent
  BY DEF Done, Fail, Accounted, Working
<1>5. pc'[r] = "end" /\ pc[r] # "over" /\ UNCHANGED <<queue, got>>
  BY DEF Done, Fail, TypeOK
<1>6. Fits(AfterOut(r), e)
  BY <1>3, <1>4 DEF Fits
<1> HIDE DEF e
<1>7. out' = [out EXCEPT ![r] = e]
  BY <1>1 DEF e
<1>8. Chained(r)'
  BY <1>3, <1>4, <1>5, <1>6, <1>7, EmittedFits
<1> QED BY <1>5, <1>8 DEF Accounted, Working

\* Steps that send nothing leave the chain as it is.
LEMMA SilentChain ==
  ASSUME TypeOK, NEW r \in Requests, Chained(r), UNCHANGED <<out, queue, got>>,
         out[r] = NoEvent, pc[r] # "over"
  PROVE  Chained(r)' /\ AfterOut(r)' = AfterOut(r)
  BY DEF Chained, AfterQueue, AfterOut

LEMMA Below == ASSUME NEW n \in 1..MaxAttempts, n # MaxAttempts PROVE n < MaxAttempts
  OBVIOUS

LEMMA QuietChain ==
  ASSUME TypeOK, NEW r \in Requests, Chained(r), Accounted(r),
         \/ EnterLimiter(r) \/ (\E o \in Outcomes : GenerationEnds(r, o)) \/ Settled(r) \/ Parse(r)
         \/ Remember(r) \/ BackOff(r) \/ Retry(r)
  PROVE  Chained(r)' /\ Accounted(r)'
<1> USE DEF TypeOK, Accounted, Working
<1>1. out[r] = NoEvent /\ UNCHANGED <<out, queue, got>> /\ pc[r] # "over"
  BY DEF EnterLimiter, GenerationEnds, Settled, Parse, Remember, BackOff, Retry, Chained
<1>2. Chained(r)' /\ AfterOut(r)' = AfterOut(r)
  BY <1>1, SilentChain
<1>3. CASE EnterLimiter(r)
  BY <1>2, <1>3 DEF EnterLimiter
<1>4. ASSUME NEW o \in Outcomes, GenerationEnds(r, o) PROVE Accounted(r)'
  BY <1>2, <1>4 DEF GenerationEnds, Outcomes
<1>5. CASE Settled(r)
  <2>1. why[r] = "cancelled" => AfterSettle(r) = "end"
    BY DEF AfterSettle
  <2>2. AfterSettle(r) \in {"finish", "end", "handle"}
    BY DEF AfterSettle
  <2>3. pc'[r] = AfterSettle(r) /\ pc[r] = "settle" /\ UNCHANGED <<attempt, pieces, emitted, why>>
    BY <1>5 DEF Settled, LeaveLimiter
  <2>4. ASSUME AfterSettle(r) = "end" PROVE Accounted(r)'
    BY <2>3, <2>4
  <2>5. ASSUME AfterSettle(r) \in {"finish", "handle"} PROVE Accounted(r)'
    BY <1>2, <2>1, <2>3, <2>5
  <2> QED BY <1>2, <2>2, <2>4, <2>5
<1>6. CASE Parse(r)
  BY <1>2, <1>6 DEF Parse
<1>7. CASE Remember(r)
  BY <1>2, <1>7 DEF Remember
<1>8. CASE BackOff(r)
  <2>1. pc[r] = "handle" /\ pc'[r] = "backoff" /\ UNCHANGED <<attempt, pieces, emitted>>
    BY <1>8 DEF BackOff
  <2>2. attempt[r] \in 1..MaxAttempts /\ attempt[r] # MaxAttempts /\ ~emitted[r]
    BY <1>8, <2>1 DEF BackOff, LastAttempt
  <2>3. attempt[r] < MaxAttempts
    BY <2>2, Below
  <2>4. AfterOut(r)'.stage = "sources" /\ AfterOut(r)'.n = pieces[r] /\ pieces[r] = 0
    BY <1>2, <2>1, <2>2
  <2> QED BY <1>2, <2>1, <2>2, <2>3, <2>4
<1>9. CASE Retry(r)
  <2>1. pc[r] = "backoff" /\ pc'[r] = "limiter" /\ attempt'[r] = attempt[r] + 1 /\ pieces'[r] = 0
        /\ emitted'[r] = emitted[r]
    BY <1>9 DEF Retry
  <2>2. pieces[r] = 0 /\ attempt[r] \in 1..MaxAttempts /\ attempt[r] < MaxAttempts /\ ~emitted[r]
    BY <2>1
  <2>3. AfterOut(r)'.stage = "sources" /\ AfterOut(r)'.n = 0
    BY <1>2, <2>1, <2>2
  <2> QED BY <1>2, <2>1, <2>2, <2>3
<1> QED BY <1>2, <1>3, <1>4, <1>5, <1>6, <1>7, <1>8, <1>9

\* Every step of the pump task.
LEMMA PumpChain ==
  ASSUME TypeOK, NEW r \in Requests, Chained(r), Accounted(r), Begin(r) \/ Pump(r) \/ EnterLimiter(r)
  PROVE  Chained(r)' /\ Accounted(r)'
<1>1. ASSUME NEW b \in {"blank", "text"}, Piece(r, b) PROVE Chained(r)' /\ Accounted(r)'
  BY <1>1, EmitChain DEF Piece, TypeOK
<1>2. CASE Finish(r)
  <2>1. ASSUME NEW b \in {"blank", "text"}, Emit(r, b) PROVE Chained(r)' /\ Accounted(r)'
    BY <1>2, <2>1, EmitChain DEF Finish, TypeOK
  <2>2. ASSUME UNCHANGED <<pieces, emitted, body, out>> PROVE Chained(r)' /\ Accounted(r)'
    <3>1. Chained(r)' /\ AfterOut(r)' = AfterOut(r)
      BY <1>2, <2>2, SilentChain DEF Finish
    <3> QED BY <1>2, <2>2, <3>1 DEF Finish, TypeOK, Accounted, Working
  <2> QED BY <1>2, <2>1, <2>2 DEF Finish
<1>3. CASE Put(r)
  <2>1. queue[r] = NoEvent /\ out[r] \in Events /\ queue'[r] = out[r] /\ out'[r] = NoEvent
    BY <1>3 DEF Put, TypeOK
  <2>2. AfterQueue(r) = got[r] /\ AfterOut(r) = Received(got[r], out[r]) /\ UNCHANGED <<got, pc>>
    BY <1>3, <2>1 DEF Put, AfterQueue, AfterOut
  <2>3. AfterOut(r)' = AfterOut(r)
    BY <2>1, <2>2 DEF AfterQueue, AfterOut
  <2>4. Chained(r)'
    BY <2>1, <2>2 DEF Chained
  <2>5. UNCHANGED <<attempt, pieces, emitted, why>>
    BY <1>3 DEF Put
  <2> QED BY <2>2, <2>3, <2>4, <2>5 DEF Accounted, Working
<1>4. CASE PutEnd(r)
  BY <1>4 DEF PutEnd, TypeOK, Chained, Accounted, Working
<1> QED BY <1>1, <1>2, <1>3, <1>4, StartChain, LastChain, QuietChain DEF Pump, Outcomes

\* Every step of the response.
LEMMA RespondChain ==
  ASSUME TypeOK, NEW r \in Requests, Chained(r), Accounted(r), Respond(r) \/ KeepAlive(r)
  PROVE  Chained(r)' /\ Accounted(r)'
<1>1. CASE Get(r)
  <2>1. queue[r] \in Events /\ queue'[r] = NoEvent /\ got'[r] = Received(got[r], queue[r])
    BY <1>1 DEF Get, TypeOK
  <2>2. UNCHANGED <<out, pc, attempt, pieces, emitted, why>>
    BY <1>1 DEF Get
  <2>3. AfterQueue(r)' = AfterQueue(r) /\ AfterOut(r)' = AfterOut(r)
    BY <2>1, <2>2 DEF AfterQueue, AfterOut
  <2>4. Chained(r)'
    BY <2>1, <2>2, <2>3 DEF Chained
  <2> QED BY <2>2, <2>3, <2>4 DEF Accounted, Working
<1>2. CASE Sent(r) \/ CleanedUp(r) \/ KeepAlive(r)
  BY <1>2, Kept DEF Sent, CleanedUp, KeepAlive, SameAt
<1>3. CASE GetEnd(r)
  BY <1>3 DEF GetEnd, TypeOK, Chained, Accounted, Working, AfterQueue, AfterOut
<1> QED BY <1>1, <1>2, <1>3 DEF Respond

\* A cancellation drops at most what the pump was putting, and then nothing more is sent
\* but the mark; a forgotten one goes on as if the session were settled.
LEMMA CancelChain ==
  ASSUME TypeOK, NEW r \in Requests, Chained(r), Accounted(r), Cancels(r)
  PROVE  Chained(r)' /\ Accounted(r)'
<1>1. Cancelled(r)
  BY DEF Cancels, DisconnectReading, DisconnectSending, CancelAgain
<1>2. UNCHANGED <<attempt, pieces, emitted, queue, got>> /\ AfterQueue(r)' = AfterQueue(r)
  BY <1>1 DEF Cancelled, AfterQueue
<1>3. CASE Abandon(r)
  <2>1. out'[r] = NoEvent
    BY <1>3 DEF Abandon, TypeOK
  <2>2. /\ pc'[r] = AfterCancel(r) /\ AfterCancel(r) \in {"settle", "over", "end"}
        /\ AfterCancel(r) = "settle" => pc[r] = "generate" /\ why'[r] = "cancelled"
        /\ pc[r] = "over" => AfterCancel(r) = "over"
    BY <1>3 DEF Abandon, TypeOK, AfterCancel
  <2>3. Chained(r)'
    BY <1>2, <2>1, <2>2 DEF Chained
  <2>4. pc[r] = "generate" => (~emitted[r] => pieces[r] = 0) /\ attempt[r] \in 1..MaxAttempts
    BY DEF Accounted, Working
  <2> QED BY <1>2, <2>2, <2>3, <2>4 DEF Accounted, Working
<1>4. CASE Swallow(r)
  <2>1. pc[r] = "settle" /\ out[r] = NoEvent /\ UNCHANGED <<why, out>> /\ pc'[r] = AfterSettle(r)
    BY <1>4 DEF Swallow, LeaveLimiter, Chained, TypeOK
  <2>2. AfterSettle(r) \in {"finish", "end", "handle"} /\ (why[r] = "cancelled" => AfterSettle(r) = "end")
    BY DEF AfterSettle
  <2>3. Chained(r)' /\ AfterOut(r)' = AfterOut(r)
    BY <1>2, <2>1, SilentChain
  <2>4. CASE AfterSettle(r) = "end"
    BY <1>2, <2>1, <2>3, <2>4 DEF Accounted, Working
  <2>5. CASE AfterSettle(r) # "end"
    BY <1>2, <2>1, <2>2, <2>3, <2>5 DEF Accounted, Working
  <2> QED BY <2>3, <2>4, <2>5
<1> QED BY <1>1, <1>3, <1>4 DEF Cancelled

-----------------------------------------------------------------------------
LEMMA InitInv == Init => IInv
<1> SUFFICES ASSUME Init PROVE IInv
  OBVIOUS
<1>1. TypeOK
  BY DEF Init, TypeOK, Places
<1>2. Inside = {}
  BY DEF Init, Inside, InLimiter
<1>3. LimiterConserved
  <2>1. free = Concurrency /\ Cardinality(Inside) = 0
    BY <1>2, FS_EmptySet DEF Init
  <2>2. free + Cardinality(Inside) = Concurrency
    BY <2>1
  <2> QED BY <2>2 DEF LimiterConserved, Inside
<1>4. ASSUME NEW r \in Requests PROVE Chained(r) /\ Accounted(r)
  BY DEF Init, Chained, Accounted, Working, AfterOut, AfterQueue
<1> QED BY <1>1, <1>3, <1>4 DEF IInv

\* Every step keeps the invariant.
LEMMA StepInv == IInv /\ [Next]_vars => IInv'
<1> SUFFICES ASSUME IInv, [Next]_vars PROVE IInv'
  OBVIOUS
<1>1. ASSUME NEW r \in Requests, Step(r) PROVE IInv'
  <2>1. TypeOK /\ Chained(r) /\ Accounted(r) /\ LimiterConserved
    BY DEF IInv
  <2>2. Begin(r) \/ Pump(r) \/ EnterLimiter(r) \/ Respond(r) \/ KeepAlive(r) \/ Cancels(r)
    BY <1>1 DEF Step, Cancels
  <2>3. TypeOK'
    BY <2>1, <2>2, ServiceType, ResponseType
  <2>4. LimiterConserved'
    BY <1>1, <2>1, LimiterStep
  <2>5. Chained(r)' /\ Accounted(r)'
    BY <2>1, <2>2, PumpChain, RespondChain, CancelChain
  <2>6. ASSUME NEW q \in Requests, q # r PROVE Chained(q)' /\ Accounted(q)'
    BY <1>1, <2>1, <2>6, Frame, Kept DEF IInv
  <2> QED BY <2>3, <2>4, <2>5, <2>6 DEF IInv
<1>2. CASE UNCHANGED vars
  <2>1. TypeOK' /\ LimiterConserved'
    BY <1>2 DEF IInv, vars, TypeOK, LimiterConserved
  <2>2. ASSUME NEW q \in Requests PROVE Chained(q)' /\ Accounted(q)'
    BY <1>2, Kept DEF IInv, vars, SameAt
  <2> QED BY <2>1, <2>2 DEF IInv
<1> QED BY <1>1, <1>2 DEF Next, Step

\* The invariant holds of every behaviour, whoever leaves and whatever fails.
THEOREM StreamInvariant == Spec => []IInv
  BY InitInv, StepInv, PTL DEF Spec

\* Places of the limiter are conserved, however streams end.
THEOREM LimiterConservation == Spec => []LimiterConserved
<1>1. IInv => LimiterConserved
  BY DEF IInv
<1> QED BY <1>1, StreamInvariant, PTL

\* The types of the streams.
THEOREM TypeCorrect == Spec => []TypeOK
<1>1. IInv => TypeOK
  BY DEF IInv
<1> QED BY <1>1, StreamInvariant, PTL

-----------------------------------------------------------------------------
(* How streams end.                                                        *)

SameEnd(q) ==
    context'[q] = context[q] /\ remembered'[q] = remembered[q] /\ reader'[q] = reader[q] /\ gone'[q] = gone[q]

LEMMA EndFrame ==
  ASSUME TypeOK, NEW r \in Requests, Step(r), NEW q \in Requests, q # r
  PROVE  SameEnd(q)
<1> USE DEF TypeOK, SameEnd
<1>1. CASE Begin(r) \/ Sources(r) \/ Replay(r) \/ EnterLimiter(r)
  BY <1>1 DEF Begin, Sources, Replay, EnterLimiter
<1>2. ASSUME NEW b \in {"blank", "text"}, Piece(r, b) PROVE SameEnd(q)
  BY <1>2 DEF Piece
<1>3. ASSUME NEW o \in Outcomes, GenerationEnds(r, o) PROVE SameEnd(q)
  BY <1>3 DEF GenerationEnds
<1>4. CASE Settled(r) \/ Finish(r) \/ Parse(r) \/ Remember(r) \/ Done(r)
  BY <1>4 DEF Settled, Finish, Parse, Remember, Done
<1>5. CASE Fail(r) \/ BackOff(r) \/ Retry(r) \/ Put(r) \/ PutEnd(r)
  BY <1>5 DEF Fail, BackOff, Retry, Put, PutEnd
<1>6. CASE Respond(r) \/ KeepAlive(r)
  BY <1>6 DEF Respond, Get, Sent, GetEnd, CleanedUp, KeepAlive
<1>7. CASE Cancels(r)
  BY <1>7 DEF Cancels, DisconnectReading, DisconnectSending, CancelAgain, Cancelled
<1> QED BY <1>1, <1>2, <1>3, <1>4, <1>5, <1>6, <1>7 DEF Step, Pump, Cancels, Outcomes

LEMMA EndKept ==
  ASSUME NEW q \in Requests, Told(q), Ended(q), SameAt(q), SameEnd(q)
  PROVE  Told(q)' /\ Ended(q)'
  BY DEF Told, Ended, SameAt, SameEnd, AfterQueue, AfterOut

\* As long as the service has not sent its last event, the client does not have it.
LEMMA NotYetTold ==
  ASSUME TypeOK, NEW r \in Requests, Chained(r), AfterOut(r).stage \in {"opened", "sources"}
  PROVE  AfterQueue(r).stage \in {"opened", "sources"} /\ got[r].stage \in {"opened", "sources"}
<1>1. AfterQueue(r).stage \in {"opened", "sources"}
  BY DEF Chained, AfterOut, Fits
<1>2. got[r].stage \in {"opened", "sources"}
  BY <1>1 DEF Chained, AfterQueue, Fits
<1> QED BY <1>1, <1>2

\* A new event is told truly if its name is.
LEMMA ToldAfterEvent ==
  ASSUME TypeOK, NEW r \in Requests, Told(r), out[r] = NoEvent, NEW e \in Events,
         out' = [out EXCEPT ![r] = e], UNCHANGED <<queue, got, context, remembered>>,
         e.name = "done" /\ context[r] \in {"none", "found"} => remembered[r],
         e.name = "error" => ~remembered[r]
  PROVE  Told(r)' /\ AfterOut(r)'.stage = IF e.name = "answer" THEN AfterOut(r).stage ELSE e.name
<1>1. /\ AfterQueue(r)' = AfterQueue(r) /\ AfterOut(r) = AfterQueue(r)
      /\ AfterOut(r)' = Received(AfterOut(r), e) /\ got'[r] = got[r]
  BY DEF TypeOK, AfterQueue, AfterOut
<1>2. AfterOut(r) \in Gots
  BY AfterType
<1>3. AfterOut(r)'.stage = IF e.name = "answer" THEN AfterOut(r).stage ELSE e.name
  BY <1>1, <1>2 DEF Received, Gots
<1> QED BY <1>1, <1>3 DEF Told

LEMMA EmitEnd ==
  ASSUME TypeOK, NEW r \in Requests, Told(r), out[r] = NoEvent, NEW b \in {"blank", "text"}, Emit(r, b),
         UNCHANGED <<queue, got, context, remembered>>
  PROVE  Told(r)'
<1> DEFINE e == Event("answer", attempt[r], pieces[r] + 1)
<1>1. attempt[r] \in 0..MaxAttempts /\ pieces[r] + 1 \in Nat
  BY DEF TypeOK
<1>2. e \in Events /\ e.name = "answer"
  BY <1>1, EventType
<1>3. out' = [out EXCEPT ![r] = e]
  BY DEF Emit
<1> HIDE DEF e
<1> QED BY <1>2, <1>3, ToldAfterEvent

\* The pump's steps that send an event.
LEMMA SendEnd ==
  ASSUME TypeOK, NEW r \in Requests, Told(r), Ended(r), Chained(r), Accounted(r),
         \/ Sources(r) \/ Replay(r) \/ (\E b \in {"blank", "text"} : Piece(r, b))
         \/ Finish(r) \/ Done(r) \/ Fail(r)
  PROVE  Told(r)' /\ Ended(r)'
<1> USE DEF TypeOK
<1>1. CASE Sources(r)
  <2> DEFINE e == Event("sources", 0, 0)
  <2>1. e \in Events /\ e.name = "sources"
    BY EventType
  <2>2. /\ out[r] = NoEvent /\ out' = [out EXCEPT ![r] = e] /\ pc[r] = "sources" /\ pc'[r] = AfterSources(r)
        /\ UNCHANGED <<queue, got, context, remembered, reader, gone, why>>
    BY <1>1 DEF Sources
  <2>3. /\ AfterSources(r) \in {"replay", "done", "remember", "limiter"}
        /\ AfterSources(r) = "replay" => context[r] = "hit"
        /\ AfterSources(r) = "done" => context[r] = "blankHit"
    BY DEF AfterSources, Contexts
  <2> HIDE DEF e
  <2>4. Told(r)'
    BY <2>1, <2>2, ToldAfterEvent
  <2> QED BY <2>2, <2>3, <2>4 DEF Ended
<1>2. CASE Replay(r)
  <2> DEFINE e == Event("answer", 0, 1)
  <2>1. e \in Events /\ e.name = "answer"
    BY EventType
  <2>2. /\ out[r] = NoEvent /\ out' = [out EXCEPT ![r] = e] /\ pc[r] = "replay" /\ pc'[r] = "done"
        /\ UNCHANGED <<queue, got, context, remembered, reader, gone, why>>
    BY <1>2 DEF Replay
  <2> HIDE DEF e
  <2>3. Told(r)'
    BY <2>1, <2>2, ToldAfterEvent
  <2> QED BY <2>2, <2>3 DEF Ended
<1>3. ASSUME NEW b \in {"blank", "text"}, Piece(r, b) PROVE Told(r)' /\ Ended(r)'
  <2>1. Told(r)'
    BY <1>3, EmitEnd DEF Piece
  <2> QED BY <1>3, <2>1 DEF Piece, Ended
<1>4. CASE Finish(r)
  <2>1. ASSUME NEW b \in {"blank", "text"}, Emit(r, b) PROVE Told(r)'
    BY <1>4, <2>1, EmitEnd DEF Finish
  <2>2. ASSUME UNCHANGED out PROVE Told(r)'
    BY <1>4, <2>2 DEF Finish, Told, AfterQueue, AfterOut
  <2>3. Told(r)'
    BY <1>4, <2>1, <2>2 DEF Finish
  <2> QED BY <1>4, <2>3 DEF Finish, Ended
<1>5. CASE Done(r) \/ Fail(r)
  <2>1. PICK name \in {"done", "error"} :
           /\ out' = [out EXCEPT ![r] = Event(name, attempt[r], pieces[r])]
           /\ name = "done" => pc[r] = "done"
           /\ name = "error" => pc[r] = "handle"
    BY <1>5 DEF Done, Fail
  <2> DEFINE e == Event(name, attempt[r], pieces[r])
  <2>2. attempt[r] \in 0..MaxAttempts /\ pieces[r] \in Nat
    OBVIOUS
  <2>3. e \in Events /\ e.name = name
    BY <2>2, EventType
  <2>4. /\ out[r] = NoEvent /\ pc[r] \in {"done", "handle"} /\ pc'[r] = "end"
        /\ UNCHANGED <<queue, got, context, remembered, reader, gone, why>>
    BY <1>5 DEF Done, Fail
  <2> HIDE DEF e
  <2>5. out' = [out EXCEPT ![r] = e]
    BY <2>1 DEF e
  <2>6. /\ name = "done" /\ context[r] \in {"none", "found"} => remembered[r]
        /\ name = "error" => ~remembered[r]
    BY <2>1 DEF Ended
  <2>7. Told(r)' /\ AfterOut(r)'.stage = name
    BY <2>3, <2>4, <2>5, <2>6, ToldAfterEvent
  <2> QED BY <2>4, <2>7 DEF Ended
<1> QED BY <1>1, <1>2, <1>3, <1>4, <1>5

\* Those that send nothing.
LEMMA QuietEnd ==
  ASSUME TypeOK, NEW r \in Requests, Told(r), Ended(r), Chained(r), Accounted(r),
         \/ Begin(r) \/ EnterLimiter(r) \/ (\E o \in Outcomes : GenerationEnds(r, o)) \/ Settled(r)
         \/ Parse(r) \/ Remember(r) \/ BackOff(r) \/ Retry(r)
  PROVE  Told(r)' /\ Ended(r)'
<1> USE DEF TypeOK
<1>1. UNCHANGED <<out, queue, got, context, gone>> /\ pc[r] \notin {"end", "over"}
  BY DEF Begin, EnterLimiter, GenerationEnds, Settled, Parse, Remember, BackOff, Retry
<1>2. AfterQueue(r)' = AfterQueue(r) /\ AfterOut(r)' = AfterOut(r) /\ got'[r] = got[r]
  BY <1>1 DEF AfterQueue, AfterOut
<1>3. ASSUME UNCHANGED remembered PROVE Told(r)'
  BY <1>1, <1>2, <1>3 DEF Told
<1>4. CASE Begin(r) \/ EnterLimiter(r) \/ Parse(r) \/ BackOff(r) \/ Retry(r)
  BY <1>1, <1>3, <1>4 DEF Begin, EnterLimiter, Parse, BackOff, Retry, Ended
<1>5. ASSUME NEW o \in Outcomes, GenerationEnds(r, o) PROVE Told(r)' /\ Ended(r)'
  BY <1>1, <1>3, <1>5 DEF GenerationEnds, Ended, Outcomes
<1>6. CASE Settled(r)
  <2>1. /\ pc[r] = "settle" /\ pc'[r] = AfterSettle(r)
        /\ UNCHANGED <<remembered, reader, why>>
    BY <1>6 DEF Settled, LeaveLimiter
  <2>2. /\ AfterSettle(r) \in {"finish", "end", "handle"}
        /\ AfterSettle(r) = "end" => why[r] \in {"cancelled", "other"}
    BY DEF AfterSettle
  <2> QED BY <1>1, <1>3, <2>1, <2>2 DEF Ended
<1>7. CASE Remember(r)
  <2>1. /\ pc[r] = "remember" /\ pc'[r] = "done" /\ remembered'[r]
        /\ UNCHANGED <<reader, why>>
    BY <1>7 DEF Remember
  <2>2. AfterOut(r).stage = "sources"
    BY <2>1 DEF Accounted
  <2>3. AfterQueue(r).stage \in {"opened", "sources"} /\ got[r].stage \in {"opened", "sources"}
    BY <2>2, NotYetTold
  <2>4. Told(r)'
    BY <1>2, <2>2, <2>3 DEF Told
  <2> QED BY <1>1, <2>1, <2>4 DEF Ended
<1> QED BY <1>4, <1>5, <1>6, <1>7

\* The way of an event to the client.
LEMMA MoveEnd ==
  ASSUME TypeOK, NEW r \in Requests, Told(r), Ended(r), Chained(r), Accounted(r),
         Put(r) \/ PutEnd(r) \/ Respond(r) \/ KeepAlive(r)
  PROVE  Told(r)' /\ Ended(r)'
<1> USE DEF TypeOK
<1>1. UNCHANGED <<context, remembered, gone, why>>
  BY DEF Put, PutEnd, Respond, Get, Sent, GetEnd, CleanedUp, KeepAlive
<1>2. CASE Put(r)
  <2>1. queue[r] = NoEvent /\ out[r] \in Events /\ queue'[r] = out[r] /\ out'[r] = NoEvent
    BY <1>2 DEF Put
  <2>2. UNCHANGED <<got, pc, reader>> /\ pc[r] # "over"
    BY <1>2 DEF Put, Chained
  <2>3. AfterQueue(r)' = AfterOut(r) /\ AfterOut(r)' = AfterOut(r)
    BY <2>1, <2>2 DEF AfterQueue, AfterOut
  <2>4. Told(r)'
    BY <1>1, <2>2, <2>3 DEF Told
  <2> QED BY <1>1, <2>2, <2>3, <2>4 DEF Ended
<1>3. CASE PutEnd(r)
  <2>1. /\ pc[r] = "end" /\ pc'[r] = "over" /\ queue[r] = NoEvent /\ queue'[r] = End /\ out[r] = NoEvent
        /\ UNCHANGED <<got, out, reader>>
    BY <1>3 DEF PutEnd
  <2>2. AfterQueue(r)' = AfterQueue(r) /\ AfterOut(r)' = AfterOut(r)
    BY <2>1 DEF AfterQueue, AfterOut
  <2>3. Told(r)'
    BY <1>1, <2>1, <2>2 DEF Told
  <2> QED BY <1>1, <2>1, <2>2, <2>3 DEF Ended
<1>4. CASE Get(r)
  <2>1. /\ queue[r] \in Events /\ queue'[r] = NoEvent /\ got'[r] = Received(got[r], queue[r])
        /\ UNCHANGED <<out, pc>> /\ reader[r] = "get" /\ reader'[r] = "send"
    BY <1>4 DEF Get
  <2>2. AfterQueue(r)' = AfterQueue(r) /\ AfterOut(r)' = AfterOut(r) /\ got'[r] = AfterQueue(r)
    BY <2>1 DEF AfterQueue, AfterOut
  <2>3. Told(r)'
    BY <1>1, <2>2 DEF Told
  <2> QED BY <1>1, <2>1, <2>2, <2>3 DEF Ended
<1>5. CASE Sent(r) \/ KeepAlive(r)
  <2>1. UNCHANGED <<pc, out, queue, got>> /\ reader'[r] \in {"send", "get"}
    BY <1>5 DEF Sent, KeepAlive
  <2>2. Told(r)'
    BY <1>1, <2>1 DEF Told, AfterQueue, AfterOut
  <2> QED BY <1>1, <2>1, <2>2 DEF Ended, AfterQueue, AfterOut
<1>6. CASE GetEnd(r)
  <2>1. /\ queue[r] = End /\ queue'[r] = NoEvent /\ reader'[r] = "closed"
        /\ UNCHANGED <<got, out, pc>>
    BY <1>6 DEF GetEnd
  <2>2. AfterQueue(r)' = AfterQueue(r) /\ AfterOut(r)' = AfterOut(r) /\ pc[r] = "over"
    BY <2>1 DEF AfterQueue, AfterOut, Chained
  <2>3. Told(r)'
    BY <1>1, <2>1, <2>2 DEF Told
  <2> QED BY <1>1, <2>1, <2>2, <2>3 DEF Ended
<1>7. CASE CleanedUp(r)
  <2>1. /\ UNCHANGED <<pc, out, queue, got>> /\ reader[r] = "cleanup" /\ reader'[r] = "closed"
        /\ pc[r] = "over"
    BY <1>7 DEF CleanedUp
  <2>2. Told(r)'
    BY <1>1, <2>1 DEF Told, AfterQueue, AfterOut
  <2> QED BY <1>1, <2>1, <2>2 DEF Ended, AfterQueue, AfterOut
<1> QED BY <1>2, <1>3, <1>4, <1>5, <1>6, <1>7 DEF Respond

\* A cancellation comes from a client that left, and unsays nothing.
LEMMA CancelEnd ==
  ASSUME TypeOK, NEW r \in Requests, Told(r), Ended(r), Chained(r), Accounted(r), Cancels(r)
  PROVE  Told(r)' /\ Ended(r)'
<1> USE DEF TypeOK
<1>1. Cancelled(r) /\ gone'[r] /\ reader[r] # "closed" /\ reader'[r] = "cleanup"
  BY DEF Cancels, DisconnectReading, DisconnectSending, CancelAgain, Ended
<1>2. UNCHANGED <<context, remembered, queue, got>> /\ AfterQueue(r)' = AfterQueue(r)
  BY <1>1 DEF Cancelled, AfterQueue
<1>3. AfterOut(r)' \in {AfterQueue(r), AfterOut(r)}
  BY <1>1, <1>2 DEF Cancelled, Abandon, Swallow, AfterOut
<1>4. Told(r)'
  BY <1>2, <1>3 DEF Told
<1>5. CASE Abandon(r)
  <2>1. pc'[r] \in {"settle", "over", "end"} /\ (pc'[r] = "settle" => pc[r] = "generate")
    BY <1>5 DEF Abandon, AfterCancel
  <2> QED BY <1>1, <1>2, <1>4, <2>1 DEF Ended
<1>6. CASE Swallow(r)
  <2>1. pc[r] = "settle" /\ pc'[r] \in {"finish", "end", "handle"}
    BY <1>6 DEF Swallow, LeaveLimiter, AfterSettle
  <2> QED BY <1>1, <1>2, <1>4, <2>1 DEF Ended
<1> QED BY <1>1, <1>5, <1>6 DEF Cancelled

LEMMA InitEnd == Init => EndInv
<1> SUFFICES ASSUME Init PROVE \A r \in Requests : Told(r) /\ Ended(r)
  BY InitInv DEF EndInv
<1> QED BY DEF Init, Told, Ended, AfterOut, AfterQueue

LEMMA StepEnd == EndInv /\ [Next]_vars => EndInv'
<1> SUFFICES ASSUME EndInv, [Next]_vars PROVE \A q \in Requests : Told(q)' /\ Ended(q)'
  BY StepInv DEF EndInv
<1>1. ASSUME NEW r \in Requests, Step(r), NEW q \in Requests PROVE Told(q)' /\ Ended(q)'
  <2>1. TypeOK /\ Chained(r) /\ Accounted(r) /\ Told(r) /\ Ended(r) /\ Told(q) /\ Ended(q)
    BY DEF EndInv, IInv
  <2>2. CASE q # r
    BY <1>1, <2>1, <2>2, Frame, EndFrame, EndKept
  <2>3. CASE q = r
    BY <1>1, <2>1, <2>3, SendEnd, QuietEnd, MoveEnd, CancelEnd DEF Step, Pump, Outcomes, Cancels
  <2> QED BY <2>2, <2>3
<1>2. ASSUME UNCHANGED vars, NEW q \in Requests PROVE Told(q)' /\ Ended(q)'
  BY <1>2, EndKept DEF EndInv, vars, SameAt, SameEnd
<1> QED BY <1>1, <1>2 DEF Next, Step

\* A stream its client did not leave ends with its last event, "done" only when the cache
\* has the answer, and "error" only when it does not.
THEOREM EndsAsPromised == Spec => []EndsProperly
<1>1. EndInv => EndsProperly
  <2> SUFFICES ASSUME EndInv, NEW r \in Requests
               PROVE  /\ reader[r] = "closed" /\ ~gone[r] => got[r].stage \in {"done", "error"} \/ why[r] = "other"
                      /\ got[r].stage = "done" /\ context[r] \in {"none", "found"} => remembered[r]
                      /\ got[r].stage = "error" => ~remembered[r]
    BY DEF EndsProperly
  <2>1. reader[r] = "closed" /\ ~gone[r] => AfterOut(r) = got[r]
    BY DEF EndInv, IInv, Ended, Chained, AfterOut, AfterQueue
  <2>2. reader[r] = "closed" /\ ~gone[r] => got[r].stage \in {"done", "error"} \/ why[r] = "other"
    BY <2>1 DEF EndInv, Ended
  <2> QED BY <2>2 DEF EndInv, Told
<1> QED BY <1>1, InitEnd, StepEnd, PTL DEF Spec

-----------------------------------------------------------------------------
(* Refinement: only Get changes what the client has.                       *)

LEMMA ReceivedIsNext ==
  ASSUME TypeOK, NEW r \in Requests, Chained(r), Get(r)
  PROVE  Abstract!Next
<1> DEFINE e == queue[r]
<1>1. e \in Events /\ Fits(got[r], e) /\ got' = [got EXCEPT ![r] = Received(got[r], e)]
  BY DEF Get, TypeOK, Chained
<1>2. got \in [Requests -> Gots]
  BY DEF TypeOK, Gots
<1>3. e.attempt \in 0..MaxAttempts /\ e.name \in {"sources", "answer", "done", "error"}
  BY <1>1 DEF Events
<1> HIDE DEF e
<1>4. CASE e.name = "sources"
  <2>1. Abstract!Sources(r)
    BY <1>1, <1>2, <1>4 DEF Fits, Received, Gots, Abstract!Sources
  <2> QED BY <2>1 DEF Abstract!Next
<1>5. CASE e.name = "answer"
  <2>1. Abstract!Answer(r, e.attempt)
    BY <1>1, <1>2, <1>5 DEF Fits, Received, Gots, Abstract!Answer
  <2> QED BY <1>3, <2>1 DEF Abstract!Next
<1>6. CASE e.name \in {"done", "error"}
  <2>1. Abstract!Last(r, e.name)
    BY <1>1, <1>2, <1>6 DEF Fits, Received, Gots, Abstract!Last
  <2>2. e.name \in Abstract!Stages
    BY <1>6 DEF Abstract!Stages
  <2> QED BY <2>1, <2>2 DEF Abstract!Next
<1> QED BY <1>3, <1>4, <1>5, <1>6

\* Clients receive the events of EventStream: sources, the text of one attempt piece by
\* piece, one last event, whatever is retried, cancelled or lost with the client.
THEOREM KeepsGrammar == Spec => ImplementsEventStream
<1>1. Init => Abstract!Init
  BY DEF Init, Abstract!Init
<1>2. IInv /\ [Next]_vars => [Abstract!Next]_got
  <2> SUFFICES ASSUME IInv, [Next]_vars PROVE Abstract!Next \/ UNCHANGED got
    OBVIOUS
  <2>1. ASSUME NEW r \in Requests, Step(r) PROVE Abstract!Next \/ UNCHANGED got
    <3>1. CASE Get(r)
      BY <3>1, ReceivedIsNext DEF IInv
    <3>2. CASE Begin(r) \/ Pump(r) \/ EnterLimiter(r)
      BY <3>2 DEF Begin, Pump, EnterLimiter, Sources, Replay, Piece, GenerationEnds, Settled, Finish,
                  Parse, Remember, Done, Fail, BackOff, Retry, Put, PutEnd
    <3>3. CASE Sent(r) \/ GetEnd(r) \/ CleanedUp(r) \/ KeepAlive(r)
      BY <3>3 DEF Sent, GetEnd, CleanedUp, KeepAlive
    <3>4. CASE Cancels(r)
      BY <3>4 DEF Cancels, DisconnectReading, DisconnectSending, CancelAgain, Cancelled
    <3> QED BY <2>1, <3>1, <3>2, <3>3, <3>4 DEF Step, Respond, Cancels
  <2>2. CASE UNCHANGED vars
    BY <2>2 DEF vars
  <2> QED BY <2>1, <2>2 DEF Next, Step
<1> QED BY <1>1, <1>2, StreamInvariant, PTL DEF Spec, ImplementsEventStream, Abstract!Spec

=============================================================================
