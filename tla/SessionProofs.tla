----------------------------- MODULE SessionProofs -----------------------------
(* Whoever waits on a dead session is told, and a turn hears all that is said of it:  *)
(* SessionInv and HearInv are inductive.                                             *)
EXTENDS Session, TLAPS

Messages == Notes \cup {End}
Futures == {"none", "waiting", "ok", "error", "dead"}

(***************************************************************************)
(* Queues                                                                  *)
(***************************************************************************)

LEMMA AppendTells ==
  ASSUME NEW S, NEW q \in Seq(S), NEW m \in S
  PROVE  /\ m = End => \E i \in 1..Len(Append(q, m)) : Append(q, m)[i] = End
         /\ (\E i \in 1..Len(q) : q[i] = End) =>
               \E i \in 1..Len(Append(q, m)) : Append(q, m)[i] = End
<1>1. Len(Append(q, m)) = Len(q) + 1 /\ Append(q, m)[Len(q) + 1] = m
  OBVIOUS
<1>2. \A i \in 1..Len(q) : Append(q, m)[i] = q[i] /\ i \in 1..(Len(q) + 1)
  OBVIOUS
<1> QED BY <1>1, <1>2

LEMMA TailTells ==
  ASSUME NEW S, NEW q \in Seq(S), q # <<>>, Head(q) # End,
         NEW i \in 1..Len(q), q[i] = End
  PROVE  \E j \in 1..Len(Tail(q)) : Tail(q)[j] = End
<1>1. i # 1 /\ i - 1 \in 1..Len(Tail(q)) /\ Tail(q)[i - 1] = q[i]
  OBVIOUS
<1> QED BY <1>1

LEMMA EndIsNoNote == End \notin Notes /\ End \notin Replies
  BY DEF End, Notes, Replies

(***************************************************************************)
(* MarkDead, Send and BeginClose                                           *)
(***************************************************************************)

LEMMA MarkDeadTells ==
  ASSUME SessionTypeOK, NEW c \in SUBSET Calls, NEW f \in Futures, MarkDead(c, f)
  PROVE  /\ alive' = FALSE /\ pending' \subseteq Calls /\ future' \in Futures
         /\ queues' \in [Threads -> Seq(Messages)]
         /\ alive => \A t \in subscribed : Told(t)'
         /\ \A t \in Threads : Told(t) => Told(t)'
         /\ (f = "waiting" => alive /\ call \in c) => future' # "waiting"
<1>1. End \in Messages /\ queues \in [Threads -> Seq(Messages)] /\ subscribed \subseteq Threads
  BY DEF SessionTypeOK, Messages
<1>2. queues' \in [Threads -> Seq(Messages)]
  BY <1>1 DEF MarkDead
<1>3. ASSUME NEW t \in Threads PROVE /\ alive /\ t \in subscribed => Told(t)'
                                     /\ Told(t) => Told(t)'
  <2>1. queues[t] \in Seq(Messages)
    BY <1>1
  <2>2. CASE alive /\ t \in subscribed
    <3>1. queues'[t] = Append(queues[t], End)
      BY <2>2 DEF MarkDead
    <3> QED BY <3>1, <2>1, <1>1, AppendTells DEF Told
  <2>3. CASE ~(alive /\ t \in subscribed)
    BY <2>3 DEF MarkDead, Told
  <2> QED BY <2>2, <2>3
<1> QED BY <1>1, <1>2, <1>3 DEF MarkDead, Futures

LEMMA SendTyped ==
  ASSUME SessionTypeOK, NEW c \in Calls, Send(c)
  PROVE  /\ alive /\ alive' /\ pending' \subseteq Calls /\ c \in pending' /\ call' = c
         /\ future' = "waiting" /\ stage' = "sending" /\ stdin' \in Seq(Calls)
         /\ UNCHANGED <<process, signal, stdout, reader, closing, server, history>>
BY DEF SessionTypeOK, Send, Usable

LEMMA BeginCloseTells ==
  ASSUME SessionTypeOK, NEW k \in Closers, NEW c \in SUBSET Calls, NEW f \in Futures,
         BeginClose(k, c, f)
  PROVE  /\ MarkDead(c, f)
         /\ signal' \in {"none", "term", "kill"}
         /\ closing' \in [Closers -> {"no", "grace", "killed", "readers", "closed", "cut"}]
         /\ UNCHANGED <<process, pipes, reader, owed, running>>
BY DEF SessionTypeOK, BeginClose

(***************************************************************************)
(* The initial states                                                      *)
(***************************************************************************)

LEMMA InitInv == SessionInit => SessionInv
<1> SUFFICES ASSUME SessionInit PROVE SessionInv
  OBVIOUS
<1> USE SessionBounds
<1>1. Initialize \in Calls
  BY DEF Calls
<1>2. queues \in [Threads -> Seq(Notes \cup {End})]
  BY DEF SessionInit
<1>3. /\ closing \in [Closers -> {"no", "grace", "killed", "readers", "closed", "cut"}]
      /\ stdin \in Seq(Calls) /\ stdout \in Seq(Replies \cup Notes) /\ heard \in Seq(Nat)
      /\ thread \in 0..MaxTurns /\ running \in 0..MaxTurns
  BY DEF SessionInit
<1>4. SessionTypeOK
  BY <1>1, <1>2, <1>3 DEF SessionInit, SessionTypeOK
<1>5. ToldInv
  BY DEF SessionInit, ToldInv, Calling, Engaged
<1>6. QuietInv
  <2>1. \A t \in Threads : queues[t] = <<>> /\ NoEnd(queues[t])
    BY DEF SessionInit, NoEnd
  <2>2. Quiet /\ OneTurn(stdin) /\ EndIsLast(stdout) /\ NoEnd(stdout)
    BY DEF SessionInit, Quiet, NoTurn, NoNote, OneTurn, EndIsLast, NoEnd
  <2> QED BY <2>1, <2>2 DEF SessionInit, QuietInv, Fresh
<1> QED BY <1>4, <1>5, <1>6 DEF SessionInv

(***************************************************************************)
(* Types                                                                   *)
(***************************************************************************)

LEMMA CallTypes ==
  /\ Initialize \in Calls
  /\ \A t \in Threads, m \in {"thread", "turn", "interrupt"} : Call(m, t) \in Calls
  /\ \A c \in Calls : c = Initialize \/ (c.method \in {"thread", "turn", "interrupt"} /\ c.thread \in Threads)
  /\ Initialize.method = "initialize"
  /\ \A t, m : Call(m, t).method = m /\ Call(m, t).thread = t
  /\ \A c \in Calls : c.method = "initialize" => c = Initialize
<1>1. Initialize = [method |-> "initialize", thread |-> 0]
  BY DEF Initialize, Call
<1>2. \A c \in Calls : c = Initialize \/ c \in [method : {"thread", "turn", "interrupt"}, thread : Threads]
  BY DEF Calls
<1>3. \A c \in [method : {"thread", "turn", "interrupt"}, thread : Threads] :
         c.method \in {"thread", "turn", "interrupt"} /\ c.thread \in Threads
  OBVIOUS
<1>4. \A t, m : Call(m, t).method = m /\ Call(m, t).thread = t
  BY DEF Call
<1>5. \A t \in Threads, m \in {"thread", "turn", "interrupt"} : Call(m, t) \in Calls
  BY DEF Call, Calls
<1>6. Initialize \in Calls
  BY DEF Calls
<1>7. Initialize.method = "initialize"
  BY <1>1
<1>8. \A c \in Calls : c = Initialize \/ (c.method \in {"thread", "turn", "interrupt"} /\ c.thread \in Threads)
  BY <1>2, <1>3
<1>9. \A c \in Calls : c.method = "initialize" => c = Initialize
  BY <1>8
<1> QED BY <1>4, <1>5, <1>6, <1>7, <1>8, <1>9, Zenon

LEMMA MessageTypes ==
  /\ \A c \in Calls, result \in {"ok", "error"} : Reply(c, result) \in Replies
  /\ \A c, result : Reply(c, result).type = "reply" /\ ~Ends(Reply(c, result))
  /\ \A m \in Replies : m.type = "reply" /\ m.call \in Calls /\ m.result \in {"ok", "error"} /\ ~Ends(m)
  /\ \A t \in Threads, n \in Nat, last \in BOOLEAN : Note(t, n, last) \in Notes
  /\ \A t, n, last : Note(t, n, last).type = "note" /\ Note(t, n, last).last = last
  /\ \A m \in Notes : m.type = "note" /\ m.thread \in Threads /\ m.place \in Nat /\ m.last \in BOOLEAN
  /\ \A m \in Notes : Ends(m) <=> m.last
  /\ End.type = "end" /\ ~Ends(End)
BY DEF Reply, Note, Replies, Notes, Ends, End

LEMMA SeqTypes ==
  ASSUME NEW S, NEW q \in Seq(S)
  PROVE  /\ q # <<>> => Head(q) \in S /\ Tail(q) \in Seq(S)
         /\ \A m \in S : Append(q, m) \in Seq(S)
OBVIOUS

LEMMA WriteTyped ==
  ASSUME SessionTypeOK, NEW m \in Replies \cup Notes, WriteOut(m)
  PROVE  stdout' \in Seq(Replies \cup Notes)
<1>1. stdout \in Seq(Replies \cup Notes)
  BY DEF SessionTypeOK
<1>2. Append(stdout, m) \in Seq(Replies \cup Notes)
  BY <1>1, SeqTypes
<1> QED BY <1>1, <1>2 DEF WriteOut

LEMMA TypeStep == SessionInv /\ [SessionNext]_session => SessionTypeOK'
<1> SUFFICES ASSUME SessionInv, [SessionNext]_session PROVE SessionTypeOK'
  OBVIOUS
<1> USE SessionBounds
<1>a. SessionTypeOK /\ ToldInv
  BY DEF SessionInv
<1>b. Engaged => thread \in Threads
  BY <1>a DEF SessionTypeOK, ToldInv
<1>c. Calling => call = Initialize \/ thread \in Threads
  BY <1>a, CallTypes DEF SessionTypeOK, ToldInv
<1>d. /\ <<>> \in Seq(Nat) /\ <<>> \in Seq(Calls)
      /\ <<>> \in Seq(Notes \cup {End}) /\ <<>> \in Seq(Replies \cup Notes)
  OBVIOUS
<1>1. CASE Start
  BY <1>1, <1>a, CallTypes DEF Start, SessionTypeOK, server, history
<1>2. CASE Written
  BY <1>2, <1>a DEF Written, SessionTypeOK, pipes, server, history
<1>3. CASE Broken
  <2>1. CASE call = Initialize
    <3>1. BeginClose("starter", pending, "none")
      BY <1>3, <2>1 DEF Broken
    <3>2. pending \in SUBSET Calls /\ "none" \in Futures /\ "starter" \in Closers
      BY <1>a DEF SessionTypeOK, Futures, Closers
    <3> QED BY <1>3, <3>1, <3>2, <2>1, <1>a, BeginCloseTells, MarkDeadTells, CallTypes
            DEF Broken, SessionTypeOK, AfterFailure, pipes, history, Messages, Futures
  <2>2. CASE call # Initialize
    <3>1. MarkDead(pending \ {call}, "none")
      BY <1>3, <2>2 DEF Broken
    <3>2. pending \ {call} \in SUBSET Calls /\ "none" \in Futures
      BY <1>a DEF SessionTypeOK, Futures
    <3> QED BY <1>3, <3>1, <3>2, <2>2, <1>a, MarkDeadTells, CallTypes
            DEF Broken, SessionTypeOK, AfterFailure, pipes, server, history, Messages, Futures
  <2> QED BY <2>1, <2>2
<1>4. ASSUME NEW c \in SUBSET Calls, CallFails(c) PROVE SessionTypeOK'
  <2>1. CASE call = Initialize
    <3>1. BeginClose("starter", c, "none")
      BY <1>4, <2>1 DEF CallFails
    <3>2. "none" \in Futures /\ "starter" \in Closers
      BY DEF Futures, Closers
    <3> QED BY <1>4, <3>1, <3>2, <2>1, <1>a, BeginCloseTells, MarkDeadTells, CallTypes
            DEF CallFails, SessionTypeOK, AfterFailure, pipes, history, Messages, Futures
  <2>2. CASE call # Initialize
    BY <1>4, <2>2, <1>a, CallTypes
       DEF CallFails, SessionTypeOK, AfterFailure, pipes, server, history
  <2> QED BY <2>1, <2>2
<1>5. CASE Refused \/ CallGivenUp
  <2>1. pending \in SUBSET Calls /\ pending \ {call} \in SUBSET Calls
    BY <1>a DEF SessionTypeOK
  <2> QED BY <1>5, <2>1, <1>4 DEF Refused, CallGivenUp
<1>6. CASE HandshakeDone
  <2>1. pending \in SUBSET Calls /\ "none" \in Futures /\ "starter" \in Closers
    BY <1>a DEF SessionTypeOK, Futures, Closers
  <2>2. CASE stage' = "ready"
    BY <1>6, <2>2, <1>a DEF HandshakeDone, SessionTypeOK, pipes, server, history
  <2>3. CASE stage' # "ready"
    <3>1. BeginClose("starter", pending, "none") /\ stage' = "over"
      BY <1>6, <2>3 DEF HandshakeDone
    <3> QED BY <1>6, <2>1, <3>1, <1>a, BeginCloseTells, MarkDeadTells
            DEF HandshakeDone, SessionTypeOK, pipes, history, Messages, Futures
  <2> QED BY <2>2, <2>3
<1>7. CASE BeginTurn
  <2>1. thread' \in Threads /\ Call("thread", thread') \in Calls
    BY <1>7, <1>a, CallTypes DEF BeginTurn, SessionTypeOK, Threads
  <2>2. CASE Send(Call("thread", thread'))
    <3>1. thread' \in 0..MaxTurns
      BY <2>1 DEF Threads
    <3> QED BY <1>7, <2>1, <2>2, <3>1, <1>a, SendTyped DEF BeginTurn, SessionTypeOK, server, history
  <2>3. CASE ~Send(Call("thread", thread'))
    BY <1>7, <2>1, <2>3, <1>a DEF BeginTurn, SessionTypeOK, Threads, pipes, server, history
  <2> QED BY <2>2, <2>3
<1>8. CASE FoundDead
  <2>1. pending \in SUBSET Calls /\ "none" \in Futures /\ "starter" \in Closers
    BY <1>a DEF SessionTypeOK, Futures, Closers
  <2>2. BeginClose("starter", pending, "none")
    BY <1>8 DEF FoundDead
  <2> QED BY <1>8, <2>1, <2>2, <1>a, BeginCloseTells, MarkDeadTells
          DEF FoundDead, SessionTypeOK, pipes, history, Messages, Futures
<1>9. CASE ThreadOpened
  <2>1. thread \in Threads /\ Call("turn", thread) \in Calls
    BY <1>9, <1>c, CallTypes DEF ThreadOpened, Calling
  <2>2. CASE Send(Call("turn", thread)) /\ UNCHANGED queues
    BY <1>9, <2>1, <2>2, <1>a, SendTyped DEF ThreadOpened, SessionTypeOK, server, history
  <2>3. CASE ~(Send(Call("turn", thread)) /\ UNCHANGED queues)
    <3>1. <<End>> \in Seq(Notes \cup {End})
      OBVIOUS
    <3>2. queues' \in [Threads -> Seq(Notes \cup {End})]
      BY <1>9, <2>3, <3>1, <1>a DEF ThreadOpened, SessionTypeOK
    <3> QED BY <1>9, <2>1, <2>3, <3>2, <1>a
            DEF ThreadOpened, SessionTypeOK, pipes, server, history
  <2> QED BY <2>2, <2>3
<1>10. CASE TurnBegun
  BY <1>10, <1>a DEF TurnBegun, SessionTypeOK, pipes, server, history
<1>11. CASE Feed
  <2>1. thread \in Threads /\ queues[thread] \in Seq(Notes \cup {End})
    BY <1>11, <1>a, <1>b DEF Feed, Engaged, SessionTypeOK
  <2>2. Head(queues[thread]) \in Notes \cup {End} /\ Tail(queues[thread]) \in Seq(Notes \cup {End})
    BY <1>11, <2>1, SeqTypes DEF Feed
  <2>3. queues' \in [Threads -> Seq(Notes \cup {End})]
    BY <1>11, <1>a, <2>2 DEF Feed, SessionTypeOK
  <2>4. heard' \in Seq(Nat) /\ completed' \in BOOLEAN
    <3>1. CASE Head(queues[thread]) = End
      BY <1>11, <1>a, <3>1 DEF Feed, SessionTypeOK
    <3>2. CASE Head(queues[thread]) # End
      <4>1. Head(queues[thread]).place \in Nat /\ Head(queues[thread]).last \in BOOLEAN
        BY <2>2, <3>2, MessageTypes
      <4>2. Append(heard, Head(queues[thread]).place) \in Seq(Nat)
        BY <4>1, <1>a, SeqTypes DEF SessionTypeOK
      <4> QED BY <1>11, <3>2, <4>1, <4>2 DEF Feed
    <3> QED BY <3>1, <3>2
  <2> QED BY <1>11, <2>3, <2>4, <1>a DEF Feed, SessionTypeOK, pipes, server, history
<1>12. CASE ReadingGivenUp
  BY <1>12, <1>a DEF ReadingGivenUp, SessionTypeOK, pipes, table, server, history
<1>13. CASE Interrupt
  <2>1. thread \in Threads /\ Call("interrupt", thread) \in Calls
    BY <1>13, <1>b, CallTypes DEF Interrupt, Engaged
  <2>2. CASE Send(Call("interrupt", thread))
    BY <1>13, <2>1, <2>2, <1>a, SendTyped DEF Interrupt, SessionTypeOK, server, history
  <2>3. CASE ~Send(Call("interrupt", thread))
    BY <1>13, <2>1, <2>3, <1>a DEF Interrupt, SessionTypeOK, pipes, server, history
  <2> QED BY <2>2, <2>3
<1>14. CASE Listen
  <2>1. thread \in Threads /\ queues[thread] \in Seq(Notes \cup {End})
    BY <1>14, <1>a, <1>b DEF Listen, Engaged, SessionTypeOK
  <2>2. Head(queues[thread]) \in Notes \cup {End} /\ Tail(queues[thread]) \in Seq(Notes \cup {End})
    BY <1>14, <2>1, SeqTypes DEF Listen
  <2>3. queues' \in [Threads -> Seq(Notes \cup {End})]
    BY <1>14, <1>a, <2>2 DEF Listen, SessionTypeOK
  <2>4. completed' \in BOOLEAN
    BY <1>14 DEF Listen, Ends
  <2> QED BY <1>14, <2>3, <2>4, <1>a DEF Listen, SessionTypeOK, pipes, server, history
<1>15. CASE GraceEnds
  BY <1>15, <1>a DEF GraceEnds, SessionTypeOK, pipes, table, server, history
<1>16. CASE GiveBack
  <2>1. queues' \in [Threads -> Seq(Notes \cup {End})]
    BY <1>16, <1>a, <1>d DEF GiveBack, SessionTypeOK
  <2> QED BY <1>16, <2>1, <1>a, <1>d DEF GiveBack, Forget, SessionTypeOK, pipes
<1>17. CASE ThrowAway
  <2>1. pending \in SUBSET Calls /\ "none" \in Futures /\ "settler" \in Closers
    BY <1>a DEF SessionTypeOK, Futures, Closers
  <2>2. BeginClose("settler", pending, "none")
    BY <1>17 DEF ThrowAway
  <2> QED BY <1>17, <2>1, <2>2, <1>a, <1>d, BeginCloseTells, MarkDeadTells
          DEF ThrowAway, Forget, SessionTypeOK, pipes, Messages, Futures
<1>18. CASE ReadLine
  <2> DEFINE m == Head(stdout)
  <2>1. m \in Replies \cup Notes /\ stdout' \in Seq(Replies \cup Notes)
    BY <1>18, <1>a, SeqTypes DEF ReadLine, SessionTypeOK
  <2>2. CASE m.type = "reply" /\ Resolve(m)
    <3>1. m \in Replies
      BY <2>1, <2>2, MessageTypes
    <3> QED BY <1>18, <2>1, <2>2, <3>1, <1>a, MessageTypes
            DEF ReadLine, Resolve, SessionTypeOK, caller, server, history
  <2>3. CASE m.type = "note" /\ Deliver(m)
    <3>1. m \in Notes
      BY <2>1, <2>3, MessageTypes
    <3>2. queues' \in [Threads -> Seq(Notes \cup {End})]
      <4>1. m.thread \in Threads /\ queues[m.thread] \in Seq(Notes \cup {End})
        BY <3>1, <1>a, MessageTypes DEF SessionTypeOK
      <4>2. Append(queues[m.thread], m) \in Seq(Notes \cup {End})
        BY <3>1, <4>1, SeqTypes
      <4> QED BY <2>3, <4>1, <4>2, <1>a DEF Deliver, SessionTypeOK
    <3> QED BY <1>18, <2>1, <2>3, <3>2, <1>a
            DEF ReadLine, Deliver, SessionTypeOK, caller, server, history
  <2> QED BY <1>18, <2>2, <2>3 DEF ReadLine
<1>19. CASE SkipLine
  BY <1>19, <1>a, SeqTypes DEF SkipLine, SessionTypeOK, table, caller, server
<1>20. CASE ReadEnd \/ BreakOff
  <2>1. pending \in SUBSET Calls /\ future \in Futures /\ MarkDead(pending, future)
    BY <1>20, <1>a DEF SessionTypeOK, Futures, ReadEnd, BreakOff
  <2> QED BY <1>20, <2>1, <1>a, <1>d, MarkDeadTells
          DEF ReadEnd, BreakOff, ReaderEnds, SessionTypeOK, caller, server, history, Messages, Futures
<1>21. CASE PoolCloses
  <2>1. pending \in SUBSET Calls /\ future \in Futures /\ "pool" \in Closers
    BY <1>a DEF SessionTypeOK, Futures, Closers
  <2>2. BeginClose("pool", pending, future)
    BY <1>21 DEF PoolCloses
  <2> QED BY <1>21, <2>1, <2>2, <1>a, BeginCloseTells, MarkDeadTells
          DEF PoolCloses, SessionTypeOK, pipes, caller, history, Messages, Futures
<1>22. ASSUME NEW k \in Closers, Finish(k) PROVE SessionTypeOK'
  <2>1. CASE TermIgnored(k)
    BY <2>1, <1>a DEF TermIgnored, GoOn, SessionTypeOK, pipes, table, caller, server, history
  <2>2. CASE Waited(k)
    BY <2>2, <1>a DEF Waited, GoOn, SessionTypeOK, pipes, table, caller, server, history
  <2>3. CASE StopReaders(k)
    BY <2>3, <1>a, <1>d DEF StopReaders, GoOn, ReaderEnds, SessionTypeOK, table, caller, server, history
  <2> QED BY <1>22, <2>1, <2>2, <2>3 DEF Finish
<1>23. CASE CloseCut
  BY <1>23, <1>a DEF CloseCut, GoOn, SessionTypeOK, Closers, pipes, table, caller, server, history
<1>24. CASE Exit \/ Reap
  <2>1. CASE Exit
    <3>1. running' \in 0..MaxTurns /\ owed' \subseteq Calls /\ stdin' \in Seq(Calls)
      BY <2>1, <1>d DEF Exit
    <3> QED BY <2>1, <3>1, <1>a DEF Exit, SessionTypeOK, table, caller
  <2>2. CASE Reap
    BY <2>2, <1>a DEF Reap, SessionTypeOK, pipes, table, caller, server, history
  <2> QED BY <1>24, <2>1, <2>2
<1>25. CASE TakeUp
  <2>1. Head(stdin) \in Calls /\ stdin' \in Seq(Calls)
    BY <1>25, <1>a, SeqTypes DEF TakeUp, SessionTypeOK
  <2>2. running' \in 0..MaxTurns /\ owed' \subseteq Calls
    BY <1>25, <2>1, <1>a, CallTypes DEF TakeUp, SessionTypeOK, Threads
  <2>3. stdout' \in Seq(Replies \cup Notes)
    <3>1. \A result \in {"ok", "error"} : Reply(Head(stdin), result) \in Replies \cup Notes
      BY <2>1, MessageTypes
    <3>2. CASE UNCHANGED stdout
      BY <3>2, <1>a DEF SessionTypeOK
    <3>3. CASE \E result \in {"ok", "error"} : WriteOut(Reply(Head(stdin), result))
      BY <3>1, <3>3, <1>a, WriteTyped
    <3> QED BY <1>25, <3>2, <3>3 DEF TakeUp
  <2> QED BY <1>25, <2>1, <2>2, <2>3, <1>a DEF TakeUp, SessionTypeOK, table, caller
<1>26. ASSUME NEW c \in Calls, AnswerTurn(c) PROVE SessionTypeOK'
  <2>1. stdout' \in Seq(Replies \cup Notes)
    <3>1. Reply(c, "ok") \in Replies \cup Notes /\ Reply(c, "error") \in Replies \cup Notes
      BY MessageTypes
    <3> QED BY <1>26, <3>1, <1>a, WriteTyped DEF AnswerTurn
  <2> QED BY <1>26, <2>1, <1>a DEF AnswerTurn, SessionTypeOK, table, caller
<1>27. CASE Say
  <2>1. running \in Threads /\ said' \in Nat
    BY <1>27, <1>a DEF Say, SessionTypeOK, Threads
  <2>2. stdout' \in Seq(Replies \cup Notes) /\ running' \in 0..MaxTurns
    <3>1. PICK last \in BOOLEAN : WriteOut(Note(running, said', last)) /\ running' = IF last THEN 0 ELSE running
      BY <1>27 DEF Say
    <3>2. Note(running, said', last) \in Replies \cup Notes
      BY <2>1, MessageTypes
    <3> QED BY <3>1, <3>2, <1>a, WriteTyped DEF SessionTypeOK
  <2> QED BY <1>27, <2>1, <2>2, <1>a DEF Say, SessionTypeOK, table, caller
<1>28. CASE UNCHANGED session
  BY <1>28, <1>a DEF session, pipes, table, caller, server, history, SessionTypeOK
<1> QED BY <1>1, <1>2, <1>3, <1>5, <1>6, <1>7, <1>8, <1>9, <1>10, <1>11, <1>12, <1>13, <1>14, <1>15,
           <1>16, <1>17, <1>18, <1>19, <1>20, <1>21, <1>22, <1>23, <1>24, <1>25, <1>26, <1>27, <1>28
    DEF SessionNext, Proceed, ReadOn

(***************************************************************************)
(* ToldInv                                                                 *)
(***************************************************************************)

LEMMA ToldStep == SessionInv /\ [SessionNext]_session => ToldInv'
<1> SUFFICES ASSUME SessionInv, [SessionNext]_session PROVE ToldInv'
  OBVIOUS
<1> USE DEF ToldInv, Calling, Engaged
<1>a. SessionTypeOK /\ ToldInv
  BY DEF SessionInv
<1>b. pending \in SUBSET Calls /\ pending \ {call} \in SUBSET Calls /\ future \in Futures
  BY <1>a DEF SessionTypeOK, Futures
<1>c. "none" \in Futures /\ {"starter", "settler", "pool"} \subseteq Closers
  BY DEF Futures, Closers
<1>d. Engaged => thread \in Threads
  BY <1>a DEF SessionTypeOK
\* Whoever leaves the caller and what it waits for alone.
<1>e. ASSUME UNCHANGED <<alive, pending, future, queues, subscribed, stage, thread, call>>,
             reader' \in {reader, "off"}
      PROVE  ToldInv'
  BY <1>a, <1>e DEF Told
\* Where a call that came to nothing leads.
<1>f. AfterFailure(call) \in {"over", "settled", "settle"} /\
      (AfterFailure(call) = "settle" => call.method = "turn")
  BY <1>a, CallTypes DEF AfterFailure, SessionTypeOK
<1>1. CASE Start
  BY <1>1, <1>a, CallTypes DEF Start
<1>2. CASE Written
  BY <1>2, <1>a, CallTypes DEF Written, Told
<1>3. CASE Broken
  <2>1. stage' \in {"over", "settled", "settle"} /\ (stage' = "settle" => Engaged) /\ stage = "sending"
    BY <1>3, <1>f DEF Broken
  <2> QED BY <2>1, <1>3, <1>a DEF Broken
<1>4. ASSUME NEW c \in SUBSET Calls, CallFails(c), Calling PROVE ToldInv'
  <2>1. stage' \in {"over", "settled", "settle"} /\ (stage' = "settle" => Engaged)
    BY <1>4, <1>f DEF CallFails
  <2> QED BY <2>1, <1>4, <1>a DEF CallFails
<1>5. CASE Refused \/ CallGivenUp
  BY <1>5, <1>b, <1>4 DEF Refused, CallGivenUp
<1>6. CASE HandshakeDone
  BY <1>6 DEF HandshakeDone
<1>7. CASE BeginTurn
  <2>1. CASE Send(Call("thread", thread + 1))
    <3>1. thread' \in Threads /\ thread' = thread + 1 /\ Call("thread", thread + 1) \in Calls
      BY <1>7, <1>a, SessionBounds, CallTypes DEF BeginTurn, SessionTypeOK, Threads
    <3> QED BY <2>1, <3>1, <1>a, SendTyped, CallTypes
  <2>2. CASE ~Send(Call("thread", thread + 1))
    BY <1>7, <2>2 DEF BeginTurn
  <2> QED BY <2>1, <2>2
<1>8. CASE FoundDead
  BY <1>8 DEF FoundDead
<1>9. CASE ThreadOpened
  <2>1. thread \in Threads /\ Call("turn", thread) \in Calls
    BY <1>9, <1>a, CallTypes DEF ThreadOpened, SessionTypeOK
  <2>2. CASE Send(Call("turn", thread)) /\ UNCHANGED queues
    BY <1>9, <2>1, <2>2, <1>a, SendTyped, CallTypes DEF ThreadOpened
  <2>3. CASE ~(Send(Call("turn", thread)) /\ UNCHANGED queues)
    BY <1>9, <2>1, <2>3, <1>a DEF ThreadOpened
  <2> QED BY <2>2, <2>3
<1>10. CASE TurnBegun
  BY <1>10, <1>a, CallTypes DEF TurnBegun, Told
<1>11. CASE Feed
  <2>1. thread \in Threads /\ queues[thread] \in Seq(Messages) /\ queues[thread] # <<>>
    BY <1>11, <1>a, <1>d DEF Feed, SessionTypeOK, Messages
  <2>2. queues'[thread] = Tail(queues[thread])
    BY <1>11, <2>1, <1>a DEF Feed, SessionTypeOK
  <2>3. Head(queues[thread]) # End /\ Told(thread) => Told(thread)'
    BY <1>11, <2>1, <2>2, TailTells DEF Told, Feed
  <2> QED BY <1>11, <2>3, <1>a DEF Feed
<1>12. CASE ReadingGivenUp
  BY <1>12, <1>a DEF ReadingGivenUp, table
<1>13. CASE Interrupt
  <2>1. thread \in Threads /\ Call("interrupt", thread) \in Calls
    BY <1>13, <1>d, CallTypes DEF Interrupt
  <2>2. CASE Send(Call("interrupt", thread))
    BY <1>13, <2>1, <2>2, <1>a, SendTyped, CallTypes DEF Interrupt
  <2>3. CASE ~Send(Call("interrupt", thread))
    BY <1>13, <2>3, <1>a DEF Interrupt
  <2> QED BY <2>2, <2>3
<1>14. CASE Listen
  <2>1. thread \in Threads /\ queues[thread] \in Seq(Messages) /\ queues[thread] # <<>>
    BY <1>14, <1>a, <1>d DEF Listen, SessionTypeOK, Messages
  <2>2. queues'[thread] = Tail(queues[thread])
    BY <1>14, <2>1, <1>a DEF Listen, SessionTypeOK
  <2>3. Head(queues[thread]) # End /\ Told(thread) => Told(thread)'
    BY <1>14, <2>1, <2>2, TailTells DEF Told, Listen
  <2>4. stage' = "settled" \/ (stage' = "listening" /\ Head(queues[thread]) # End)
    BY <1>14 DEF Listen
  <2> QED BY <1>14, <2>3, <2>4, <1>a DEF Listen
<1>15. CASE GraceEnds \/ GiveBack \/ ThrowAway
  BY <1>15 DEF GraceEnds, GiveBack, ThrowAway
<1>16. CASE ReadLine
  <2> DEFINE m == Head(stdout)
  <2>1. m \in Replies \cup Notes
    BY <1>16, <1>a, SeqTypes DEF ReadLine, SessionTypeOK
  <2>2. CASE m.type = "reply" /\ Resolve(m)
    <3>1. UNCHANGED <<alive, queues, subscribed, stage, thread, call, reader>>
      BY <1>16, <2>2 DEF ReadLine, Resolve, caller
    <3>2. m \in Replies
      BY <2>1, <2>2, MessageTypes
    <3>3. future' = "waiting" => future = "waiting" /\ pending' = pending \ {m.call} /\ (call \in pending => m.call # call)
      BY <2>2, <3>2, MessageTypes DEF Resolve
    <3>4. Calling /\ future' = "waiting" => alive /\ call \in pending'
      BY <3>3, <1>a
    <3>5. \A t : Told(t) => Told(t)'
      BY <3>1 DEF Told
    <3> QED BY <3>1, <3>4, <3>5, <1>a
  <2>3. CASE m.type = "note" /\ Deliver(m)
    <3>1. m \in Notes /\ m \in Messages /\ m.thread \in Threads
      BY <2>1, <2>3, MessageTypes DEF Messages
    <3>2. ASSUME NEW t \in Threads, Told(t) PROVE Told(t)'
      <4>1. queues[t] \in Seq(Messages)
        BY <1>a DEF SessionTypeOK, Messages
      <4>2. queues'[t] \in {queues[t], Append(queues[t], m)}
        BY <2>3, <3>1, <1>a DEF Deliver, SessionTypeOK
      <4>3. CASE queues'[t] = queues[t]
        BY <3>2, <4>3 DEF Told
      <4>4. CASE queues'[t] = Append(queues[t], m)
        BY <3>1, <3>2, <4>1, <4>4, AppendTells DEF Told
      <4> QED BY <4>2, <4>3, <4>4
    <3>3. UNCHANGED <<alive, pending, future, subscribed, stage, thread, call, reader>>
      BY <1>16, <2>3 DEF ReadLine, Deliver, caller
    <3> QED BY <3>2, <3>3, <1>a, <1>d
  <2> QED BY <1>16, <2>2, <2>3 DEF ReadLine
<1>17. CASE ReadEnd \/ BreakOff
  <2>1. MarkDead(pending, future) /\ UNCHANGED <<subscribed, stage, thread, call>> /\ reader = "on"
    BY <1>17 DEF ReadEnd, BreakOff, caller
  <2>2. Engaged /\ stage # "settle" => Told(thread)'
    BY <2>1, <1>a, <1>b, <1>d, MarkDeadTells
  <2>3. Calling => future' # "waiting"
    BY <2>1, <1>a, <1>b, MarkDeadTells DEF MarkDead
  <2> QED BY <2>1, <2>2, <2>3, <1>a
<1>18. CASE PoolCloses
  <2>1. MarkDead(pending, future) /\ UNCHANGED <<subscribed, stage, thread, call>> /\ stage # "new"
    BY <1>18 DEF PoolCloses, BeginClose, caller
  <2>2. Engaged /\ stage # "settle" => Told(thread)'
    BY <2>1, <1>a, <1>b, <1>d, MarkDeadTells
  <2>3. Calling => future' # "waiting"
    BY <2>1, <1>a, <1>b, MarkDeadTells DEF MarkDead
  <2> QED BY <2>1, <2>2, <2>3, <1>a
<1>19. CASE SkipLine
  BY <1>19, <1>e DEF SkipLine, table, caller
<1>20. ASSUME NEW k \in Closers, Finish(k) PROVE ToldInv'
  BY <1>20, <1>e DEF Finish, TermIgnored, Waited, StopReaders, GoOn, ReaderEnds, table, caller
<1>21. CASE CloseCut
  BY <1>21, <1>e DEF CloseCut, table, caller
<1>22. CASE Exit \/ Reap \/ TakeUp \/ Say
  BY <1>22, <1>e DEF Exit, Reap, TakeUp, Say, table, caller
<1>23. ASSUME NEW c \in Calls, AnswerTurn(c) PROVE ToldInv'
  BY <1>23, <1>e DEF AnswerTurn, table, caller
<1>24. CASE UNCHANGED session
  BY <1>24, <1>e DEF session, table, caller
<1> QED BY <1>1, <1>2, <1>3, <1>5, <1>6, <1>7, <1>8, <1>9, <1>10, <1>11, <1>12, <1>13, <1>14, <1>15,
           <1>16, <1>17, <1>18, <1>19, <1>20, <1>21, <1>22, <1>23, <1>24
    DEF SessionNext, Proceed, ReadOn

(***************************************************************************)
(* QuietInv                                                                *)
(***************************************************************************)

LEMMA AppendItems ==
  ASSUME NEW S, NEW q \in Seq(S), NEW m \in S
  PROVE  /\ Len(Append(q, m)) = Len(q) + 1 /\ Len(q) \in Nat
         /\ \A i \in 1..Len(q) : Append(q, m)[i] = q[i]
         /\ Append(q, m)[Len(q) + 1] = m
OBVIOUS

LEMMA TailItems ==
  ASSUME NEW S, NEW q \in Seq(S), q # <<>>
  PROVE  /\ Len(q) \in Nat /\ Len(Tail(q)) = Len(q) - 1
         /\ 1 \in 1..Len(q) /\ Head(q) = q[1]
         /\ \A i \in 1..Len(Tail(q)) : i + 1 \in 1..Len(q) /\ Tail(q)[i] = q[i + 1]
OBVIOUS

LEMMA NoneAtAll ==
  NoTurn(<<>>) /\ OneTurn(<<>>) /\ NoNote(<<>>) /\ NoEnd(<<>>) /\ EndIsLast(<<>>)
BY DEF NoTurn, OneTurn, NoNote, NoEnd, EndIsLast

LEMMA CallAppended ==
  ASSUME NEW q \in Seq(Calls), NEW c \in Calls
  PROVE  /\ NoTurn(q) => OneTurn(Append(q, c))
         /\ c.method # "turn" /\ NoTurn(q) => NoTurn(Append(q, c))
         /\ c.method # "turn" /\ OneTurn(q) => OneTurn(Append(q, c))
BY AppendItems DEF NoTurn, OneTurn

LEMMA CallTaken ==
  ASSUME NEW q \in Seq(Calls), q # <<>>
  PROVE  /\ NoTurn(q) => NoTurn(Tail(q)) /\ Head(q).method # "turn"
         /\ OneTurn(q) => OneTurn(Tail(q))
         /\ OneTurn(q) /\ Head(q).method = "turn" => NoTurn(Tail(q))
BY TailItems DEF NoTurn, OneTurn

LEMMA MessageAppended ==
  ASSUME NEW S, NEW q \in Seq(S), NEW m \in S
  PROVE  /\ NoEnd(q) => EndIsLast(Append(q, m))
         /\ ~Ends(m) /\ NoEnd(q) => NoEnd(Append(q, m))
         /\ m.type # "note" /\ NoNote(q) => NoNote(Append(q, m))
         /\ m.type # "note" /\ EndIsLast(q) => EndIsLast(Append(q, m))
<1>1. NoEnd(q) => EndIsLast(Append(q, m))
  BY AppendItems DEF NoEnd, EndIsLast
<1>2. ~Ends(m) /\ NoEnd(q) => NoEnd(Append(q, m))
  BY AppendItems DEF NoEnd
<1>3. m.type # "note" /\ NoNote(q) => NoNote(Append(q, m))
  BY AppendItems DEF NoNote
<1>4. m.type # "note" /\ EndIsLast(q) => EndIsLast(Append(q, m))
  BY AppendItems DEF EndIsLast, Ends
<1> QED BY <1>1, <1>2, <1>3, <1>4

LEMMA MessageTaken ==
  ASSUME NEW S, NEW q \in Seq(S), q # <<>>
  PROVE  /\ NoEnd(q) => NoEnd(Tail(q)) /\ ~Ends(Head(q))
         /\ NoNote(q) => NoNote(Tail(q)) /\ Head(q).type # "note"
         /\ EndIsLast(q) => EndIsLast(Tail(q))
         /\ EndIsLast(q) /\ Ends(Head(q)) => NoNote(Tail(q))
<1>1. NoEnd(q) => NoEnd(Tail(q)) /\ ~Ends(Head(q))
  BY TailItems DEF NoEnd
<1>2. NoNote(q) => NoNote(Tail(q)) /\ Head(q).type # "note"
  BY TailItems DEF NoNote
<1>3. EndIsLast(q) => EndIsLast(Tail(q))
  BY TailItems DEF EndIsLast
<1>4. EndIsLast(q) /\ Ends(Head(q)) => NoNote(Tail(q))
  BY TailItems DEF EndIsLast, NoNote
<1> QED BY <1>1, <1>2, <1>3, <1>4

LEMMA NoteFree ==
  ASSUME NEW q \in Seq(Replies \cup Notes), NoNote(q)
  PROVE  NoEnd(q)
BY DEF NoNote, NoEnd, Ends

\* A step that brings no turn and no notification keeps QuietInv.
StdinKept == /\ NoTurn(stdin) => NoTurn(stdin')
             /\ OneTurn(stdin) => OneTurn(stdin')
StdoutKept == /\ NoNote(stdout) => NoNote(stdout')
              /\ NoEnd(stdout) => NoEnd(stdout')
              /\ EndIsLast(stdout) => EndIsLast(stdout')
QueuesKept == \A t \in Threads : /\ NoEnd(queues[t]) => NoEnd(queues'[t])
                                 /\ t \notin subscribed => queues'[t] = queues[t]
Stays == /\ subscribed' = subscribed /\ thread' = thread /\ completed' = completed
         /\ running' \in {running, 0} /\ (stage = "over" => stage' = "over")
         /\ Fresh' => Fresh

LEMMA QuietKept ==
  ASSUME QuietInv, StdinKept, StdoutKept, QueuesKept, Stays
  PROVE  QuietInv'
<1>1. Quiet => Quiet'
  BY DEF Quiet, StdinKept, StdoutKept, Stays
<1>2. /\ subscribed' \subseteq {thread'}
      /\ stage' # "over" => \A t \in Threads \ subscribed' : queues'[t] = <<>>
  BY DEF QuietInv, QueuesKept, Stays
<1>3. OneTurn(stdin') /\ EndIsLast(stdout')
  BY DEF QuietInv, StdinKept, StdoutKept
<1>4. running' # 0 => NoTurn(stdin')
  BY DEF QuietInv, StdinKept, Stays
<1>5. ~NoEnd(stdout') => running' = 0 /\ NoTurn(stdin')
  BY DEF QuietInv, StdinKept, StdoutKept, Stays
<1>6. completed' => Quiet'
  BY <1>1 DEF QuietInv, Stays
<1>7. \A t \in Threads : ~NoEnd(queues'[t]) => Quiet'
  BY <1>1 DEF QuietInv, QueuesKept
<1>8. Fresh' => Quiet' /\ ~completed' /\ subscribed' = {}
  BY <1>1 DEF QuietInv, Stays
<1> QED BY <1>2, <1>3, <1>4, <1>5, <1>6, <1>7, <1>8 DEF QuietInv

LEMMA MarkDeadKeeps ==
  ASSUME SessionTypeOK, NEW c, NEW f, MarkDead(c, f)
  PROVE  QueuesKept
<1> SUFFICES ASSUME NEW t \in Threads
             PROVE  /\ NoEnd(queues[t]) => NoEnd(queues'[t])
                    /\ t \notin subscribed => queues'[t] = queues[t]
  BY DEF QueuesKept
<1>1. queues[t] \in Seq(Messages) /\ End \in Messages /\ ~Ends(End)
  BY DEF SessionTypeOK, Messages, Ends, End
<1>2. queues'[t] = IF alive /\ t \in subscribed THEN Append(queues[t], End) ELSE queues[t]
  BY DEF MarkDead
<1>3. CASE alive /\ t \in subscribed
  BY <1>1, <1>2, <1>3, MessageAppended
<1>4. CASE ~(alive /\ t \in subscribed)
  BY <1>2, <1>4
<1> QED BY <1>3, <1>4

LEMMA SendKeeps ==
  ASSUME SessionTypeOK, NEW c \in Calls, Send(c), c.method # "turn"
  PROVE  StdinKept
BY CallAppended DEF SessionTypeOK, Send, StdinKept

LEMMA ReplyKeeps ==
  ASSUME SessionTypeOK, NEW m \in Replies, WriteOut(m)
  PROVE  StdoutKept
<1>1. m \in Replies \cup Notes /\ stdout \in Seq(Replies \cup Notes)
  BY DEF SessionTypeOK
<1>2. m.type # "note" /\ ~Ends(m)
  BY MessageTypes
<1> QED BY <1>1, <1>2, MessageAppended DEF WriteOut, StdoutKept

LEMMA QuietStep == SessionInv /\ [SessionNext]_session => QuietInv'
<1> SUFFICES ASSUME SessionInv, [SessionNext]_session PROVE QuietInv'
  OBVIOUS
<1>a. SessionTypeOK /\ ToldInv /\ QuietInv
  BY DEF SessionInv
<1>b. stdin \in Seq(Calls) /\ stdout \in Seq(Replies \cup Notes) /\ running \in 0..MaxTurns
  BY <1>a DEF SessionTypeOK
<1>c. \A t \in Threads : queues[t] \in Seq(Messages)
  BY <1>a DEF SessionTypeOK, Messages
<1>d. AfterFailure(call) \in {"over", "settled", "settle"}
  BY <1>a, CallTypes DEF AfterFailure, SessionTypeOK
\* What a step that leaves a part alone keeps.
<1>e. /\ UNCHANGED stdin => StdinKept
      /\ UNCHANGED stdout => StdoutKept
      /\ UNCHANGED queues => QueuesKept
      /\ UNCHANGED running => running' \in {running, 0}
  BY DEF StdinKept, StdoutKept, QueuesKept
<1>f. stage' \in {"over", "settled", "settle", "reading", "listening"} => ~Fresh'
  BY DEF Fresh, Calling
<1>g. stdin' = <<>> => StdinKept
  BY NoneAtAll DEF StdinKept
<1>h. stdout' = <<>> => StdoutKept
  BY NoneAtAll DEF StdoutKept
<1>i. stdout # <<>> /\ stdout' = Tail(stdout) => StdoutKept
  BY <1>b, MessageTaken DEF StdoutKept
<1>j. UNCHANGED caller => thread' = thread /\ completed' = completed /\ stage' = stage /\ (Fresh' <=> Fresh)
  BY DEF caller, Fresh, Calling
<1>1. CASE Start
  <2>1. Quiet /\ ~completed /\ subscribed = {} /\ (\A t \in Threads : queues[t] = <<>>)
    BY <1>1, <1>a DEF Start, QuietInv, Fresh
  <2>2. NoTurn(stdin') /\ OneTurn(stdin')
    BY <1>1, CallTypes DEF Start, NoTurn, OneTurn
  <2>3. StdinKept /\ StdoutKept /\ QueuesKept
    BY <1>1, <1>e, <2>2 DEF Start, StdinKept
  <2>4. Stays
    BY <1>1 DEF Start, Stays, Fresh, server
  <2> QED BY <2>3, <2>4, <1>a, QuietKept
<1>2. CASE Written
  <2>1. Stays
    BY <1>2 DEF Written, Stays, Fresh, Calling, server
  <2> QED BY <1>2, <2>1, <1>a, <1>e, QuietKept DEF Written, pipes
<1>3. CASE Broken
  <2>1. QueuesKept
    BY <1>3, <1>a, MarkDeadKeeps DEF Broken, BeginClose
  <2>2. Stays /\ UNCHANGED pipes
    BY <1>3, <1>d, <1>f DEF Broken, BeginClose, Stays, server
  <2> QED BY <2>1, <2>2, <1>a, <1>e, QuietKept DEF pipes
<1>4. ASSUME NEW c \in SUBSET Calls, CallFails(c), Calling PROVE QuietInv'
  <2>1. QueuesKept
    BY <1>4, <1>a, <1>e, MarkDeadKeeps DEF CallFails, BeginClose
  <2>2. Stays /\ UNCHANGED pipes
    BY <1>4, <1>d, <1>f DEF CallFails, BeginClose, Stays, Calling, server
  <2> QED BY <2>1, <2>2, <1>a, <1>e, QuietKept DEF pipes
<1>5. CASE Refused \/ CallGivenUp
  <2>1. pending \in SUBSET Calls /\ pending \ {call} \in SUBSET Calls
    BY <1>a DEF SessionTypeOK
  <2> QED BY <1>5, <2>1, <1>4 DEF Refused, CallGivenUp, Calling
<1>6. CASE HandshakeDone
  <2>1. QueuesKept
    BY <1>6, <1>a, <1>e, MarkDeadKeeps DEF HandshakeDone, BeginClose
  <2>2. Fresh
    BY <1>6, CallTypes DEF HandshakeDone, Fresh, Calling
  <2>3. Stays /\ UNCHANGED pipes
    BY <1>6, <2>2 DEF HandshakeDone, BeginClose, Stays, server
  <2> QED BY <2>1, <2>3, <1>a, <1>e, QuietKept DEF pipes
<1>7. CASE BeginTurn
  <2>1. Quiet /\ ~completed /\ subscribed = {} /\ (\A t \in Threads : queues[t] = <<>>) /\ Fresh
    BY <1>7, <1>a DEF BeginTurn, QuietInv, Fresh
  <2>2. Call("thread", thread + 1) \in Calls /\ Call("thread", thread + 1).method = "thread"
    <3>1. thread + 1 \in Threads
      BY <1>7, <1>a, SessionBounds DEF BeginTurn, SessionTypeOK, Threads
    <3> QED BY <3>1, CallTypes
  <2>3. StdinKept /\ StdoutKept /\ UNCHANGED <<running, queues, subscribed, completed>>
    <3>1. CASE Send(Call("thread", thread + 1))
      BY <1>7, <3>1, <2>2, <1>a, <1>e, SendKeeps DEF BeginTurn, Send, server
    <3>2. CASE ~Send(Call("thread", thread + 1))
      BY <1>7, <3>2, <1>e DEF BeginTurn, pipes, server
    <3> QED BY <3>1, <3>2
  <2>4. Quiet' /\ OneTurn(stdin') /\ EndIsLast(stdout') /\ NoTurn(stdin')
    BY <2>1, <2>3, <1>a DEF Quiet, QuietInv, StdinKept, StdoutKept
  <2> QED BY <2>1, <2>3, <2>4 DEF QuietInv, Quiet
<1>8. CASE FoundDead
  <2>1. QueuesKept
    BY <1>8, <1>a, MarkDeadKeeps DEF FoundDead, BeginClose
  <2>2. Stays /\ UNCHANGED pipes
    BY <1>8, <1>f DEF FoundDead, BeginClose, Stays
  <2> QED BY <2>1, <2>2, <1>a, <1>e, QuietKept DEF pipes
<1>9. CASE ThreadOpened
  <2>1. Quiet /\ ~completed /\ subscribed = {} /\ \A t \in Threads : queues[t] = <<>>
    BY <1>9, <1>a DEF ThreadOpened, QuietInv, Fresh, Calling
  <2>2. thread \in Threads /\ Call("turn", thread) \in Calls /\ Call("turn", thread).method = "turn"
    BY <1>9, <1>a, CallTypes DEF ThreadOpened, SessionTypeOK, ToldInv, Calling
  <2>3. /\ UNCHANGED <<stdout, running, thread, completed>> /\ subscribed' = {thread} /\ ~Fresh'
        /\ stdin' \in {stdin, Append(stdin, Call("turn", thread))}
    BY <1>9, <2>1, <2>2 DEF ThreadOpened, Send, Fresh, Calling, pipes, server
  <2>4. OneTurn(stdin')
    <3>1. OneTurn(stdin) /\ NoTurn(stdin)
      BY <2>1, <1>a DEF Quiet, QuietInv
    <3> QED BY <3>1, <2>2, <2>3, <1>b, CallAppended
  <2>5. NoEnd(stdout) /\ EndIsLast(stdout) /\ running' = 0
    BY <2>1, <2>3, <1>a, <1>b, NoteFree DEF QuietInv, Quiet
  <2>6. \A t \in Threads : NoEnd(queues'[t]) /\ (t # thread => queues'[t] = <<>>)
    <3>1. NoEnd(<<End>>) /\ NoEnd(<<>>)
      BY MessageTypes, NoneAtAll DEF NoEnd
    <3>2. UNCHANGED queues \/ queues' = [queues EXCEPT ![thread] = <<End>>]
      BY <1>9 DEF ThreadOpened
    <3> QED BY <2>1, <3>1, <3>2, <1>a DEF SessionTypeOK
  <2> QED BY <2>1, <2>3, <2>4, <2>5, <2>6 DEF QuietInv
<1>10. CASE TurnBegun
  <2>1. Stays
    BY <1>10, <1>f DEF TurnBegun, Stays, server
  <2> QED BY <1>10, <2>1, <1>a, <1>e, QuietKept DEF TurnBegun, pipes
\* The caller takes a message from the queue of its thread.
<1>11. ASSUME Engaged, queues[thread] # <<>>, queues' = [queues EXCEPT ![thread] = Tail(@)],
              UNCHANGED <<pipes, subscribed, thread, running>>, stage # "over", ~Fresh',
              completed' => completed \/ Ends(Head(queues[thread]))
       PROVE  QuietInv'
  <2>1. thread \in Threads
    BY <1>11, <1>a DEF ToldInv, SessionTypeOK
  <2>2. \A t \in Threads : NoEnd(queues[t]) => NoEnd(queues'[t])
    BY <1>11, <2>1, <1>a, <1>c, MessageTaken DEF SessionTypeOK
  <2>3. \A t \in Threads \ subscribed : queues'[t] = queues[t]
    BY <1>11, <2>1, <1>a DEF ToldInv, SessionTypeOK
  <2>4. Ends(Head(queues[thread])) => Quiet
    BY <1>11, <2>1, <1>a, <1>c, MessageTaken DEF QuietInv
  <2>5. Quiet' <=> Quiet
    BY <1>11 DEF Quiet, pipes
  <2>6. completed' => Quiet'
    BY <1>11, <2>4, <2>5, <1>a DEF QuietInv
  <2> QED BY <1>11, <2>2, <2>3, <2>5, <2>6, <1>a DEF QuietInv, pipes
<1>12. CASE Feed
  <2>1. Engaged /\ thread \in Threads /\ Head(queues[thread]) \in Messages
    <3>1. Engaged /\ thread \in Threads
      BY <1>12, <1>a DEF Feed, Engaged, ToldInv, SessionTypeOK
    <3> QED BY <1>12, <3>1, <1>c, SeqTypes DEF Feed
  <2>2. completed' => completed \/ Ends(Head(queues[thread]))
    BY <1>12, <2>1, MessageTypes DEF Feed, Messages
  <2>3. ~Fresh'
    BY <1>12, <1>f DEF Feed
  <2> QED BY <1>12, <2>1, <2>2, <2>3, <1>11 DEF Feed, server
<1>13. CASE ReadingGivenUp
  <2>1. Stays
    BY <1>13, <1>f DEF ReadingGivenUp, Stays, server
  <2> QED BY <1>13, <2>1, <1>a, <1>e, QuietKept DEF ReadingGivenUp, pipes, table
<1>14. CASE Interrupt
  <2>1. thread \in Threads /\ Call("interrupt", thread) \in Calls /\ Call("interrupt", thread).method = "interrupt"
    BY <1>14, <1>a, CallTypes DEF Interrupt, ToldInv, Engaged, SessionTypeOK
  <2>2. StdinKept /\ StdoutKept /\ QueuesKept /\ Stays
    <3>1. CASE Send(Call("interrupt", thread))
      <4>1. ~Fresh' /\ Stays
        BY <1>14, <2>1, <3>1 DEF Interrupt, Send, Stays, Fresh, Calling, server
      <4> QED BY <1>14, <2>1, <3>1, <4>1, <1>a, <1>e, SendKeeps DEF Interrupt, Send
    <3>2. CASE ~Send(Call("interrupt", thread))
      <4>1. Stays
        BY <1>14, <3>2, <1>f DEF Interrupt, Stays, server
      <4> QED BY <1>14, <3>2, <4>1, <1>e DEF Interrupt, pipes
    <3> QED BY <3>1, <3>2
  <2> QED BY <2>2, <1>a, QuietKept
<1>15. CASE Listen
  <2>1. Engaged
    BY <1>15 DEF Listen, Engaged
  <2>2. ~Fresh'
    BY <1>15, <1>f DEF Listen
  <2> QED BY <1>15, <2>1, <2>2, <1>11 DEF Listen, server
<1>16. CASE GraceEnds
  <2>1. Stays
    BY <1>16, <1>f DEF GraceEnds, Stays, server
  <2> QED BY <1>16, <2>1, <1>a, <1>e, QuietKept DEF GraceEnds, pipes, table
<1>17. CASE GiveBack
  <2>1. Quiet /\ UNCHANGED <<stdin, stdout, running, thread>> /\ ~completed' /\ subscribed' = {}
    BY <1>17, <1>a DEF GiveBack, Forget, QuietInv, pipes
  <2>2. \A t \in Threads : queues'[t] = <<>>
    BY <1>17, <1>a DEF GiveBack, QuietInv, SessionTypeOK
  <2> QED BY <2>1, <2>2, <1>a, NoneAtAll DEF QuietInv, Quiet
<1>18. CASE ThrowAway
  <2>1. QueuesKept
    BY <1>18, <1>a, MarkDeadKeeps DEF ThrowAway, BeginClose
  <2>2. /\ UNCHANGED <<stdin, stdout, running, thread>> /\ ~completed' /\ stage' = "over" /\ ~Fresh'
        /\ subscribed' \subseteq subscribed
    BY <1>18, <1>f DEF ThrowAway, BeginClose, Forget, pipes
  <2>3. Quiet' <=> Quiet
    BY <2>2 DEF Quiet
  <2> QED BY <2>1, <2>2, <2>3, <1>a DEF QuietInv, QueuesKept
<1>19. CASE ReadLine
  <2> DEFINE m == Head(stdout)
  <2>1. m \in Replies \cup Notes /\ stdout' = Tail(stdout) /\ stdout # <<>>
    BY <1>19, <1>b, SeqTypes DEF ReadLine
  <2>2. StdinKept /\ StdoutKept /\ Stays
    BY <1>19, <2>1, <1>e, <1>i, <1>j DEF ReadLine, Stays, server
  <2>3. CASE UNCHANGED queues
    BY <2>2, <2>3, <1>a, <1>e, QuietKept
  <2>4. CASE ~UNCHANGED queues
    <3>1. /\ m.type = "note" /\ m.thread \in subscribed
          /\ queues' = [queues EXCEPT ![m.thread] = Append(@, m)]
      BY <1>19, <2>4 DEF ReadLine, Resolve, Deliver
    <3>2. m \in Messages /\ m.thread \in Threads
      BY <2>1, <3>1, MessageTypes DEF Messages
    <3>3. CASE ~Ends(m)
      <4>1. \A t \in Threads : NoEnd(queues[t]) => NoEnd(queues'[t])
        BY <3>1, <3>2, <3>3, <1>a, <1>c, MessageAppended DEF SessionTypeOK
      <4>2. QueuesKept
        BY <3>1, <4>1, <1>a DEF QueuesKept, SessionTypeOK
      <4> QED BY <2>2, <4>2, <1>a, QuietKept
    <3>4. CASE Ends(m)
      <4>1. ~NoEnd(stdout) /\ NoNote(stdout')
        BY <2>1, <3>4, <1>a, <1>b, MessageTaken DEF QuietInv
      <4>2. UNCHANGED <<stdin, running, subscribed, completed, thread, stage>> /\ (Fresh' <=> Fresh)
        BY <1>19, <1>j DEF ReadLine, server
      <4>3. Quiet'
        BY <4>1, <4>2, <1>a DEF Quiet, QuietInv
      <4>4. \A t \in Threads \ subscribed : queues'[t] = queues[t]
        BY <3>1, <1>a DEF SessionTypeOK
      <4>5. EndIsLast(stdout') /\ OneTurn(stdin')
        BY <2>2, <1>a DEF StdoutKept, StdinKept, QuietInv
      <4> QED BY <4>2, <4>3, <4>4, <4>5, <1>a DEF QuietInv, Quiet
    <3> QED BY <3>3, <3>4
  <2> QED BY <2>3, <2>4
<1>20. CASE SkipLine
  BY <1>20, <1>a, <1>e, <1>i, <1>j, QuietKept DEF SkipLine, Stays, table, server
<1>21. CASE ReadEnd \/ BreakOff
  <2>1. QueuesKept
    BY <1>21, <1>a, MarkDeadKeeps DEF ReadEnd, BreakOff
  <2> QED BY <1>21, <2>1, <1>a, <1>e, <1>h, <1>j, QuietKept DEF ReadEnd, BreakOff, ReaderEnds, Stays, server
<1>22. CASE PoolCloses
  <2>1. QueuesKept
    BY <1>22, <1>a, MarkDeadKeeps DEF PoolCloses, BeginClose
  <2> QED BY <1>22, <2>1, <1>a, <1>e, <1>j, QuietKept DEF PoolCloses, BeginClose, Stays, pipes
<1>23. ASSUME NEW k \in Closers, Finish(k) PROVE QuietInv'
  BY <1>23, <1>a, <1>e, <1>h, <1>j, QuietKept
     DEF Finish, TermIgnored, Waited, StopReaders, ReaderEnds, Stays, pipes, table, server
<1>24. CASE CloseCut \/ Reap
  BY <1>24, <1>a, <1>e, <1>j, QuietKept DEF CloseCut, Reap, Stays, pipes, table, server
<1>25. CASE Exit
  BY <1>25, <1>a, <1>e, <1>g, <1>j, QuietKept DEF Exit, Stays, table
<1>26. CASE TakeUp
  <2> DEFINE c == Head(stdin)
  <2>1. c \in Calls /\ stdin' = Tail(stdin) /\ stdin # <<>>
    BY <1>26, <1>b, SeqTypes DEF TakeUp
  <2>2. StdinKept
    BY <2>1, <1>b, CallTaken DEF StdinKept
  <2>3. CASE c.method # "turn"
    <3>1. StdoutKept
      BY <1>26, <2>1, <2>3, <1>a, MessageTypes, ReplyKeeps DEF TakeUp
    <3>2. Stays /\ UNCHANGED queues
      BY <1>26, <2>3, <1>j DEF TakeUp, Stays, table
    <3> QED BY <2>2, <3>1, <3>2, <1>a, <1>e, QuietKept
  <2>4. CASE c.method = "turn"
    <3>1. ~NoTurn(stdin) /\ NoTurn(stdin')
      BY <2>1, <2>4, <1>a, <1>b, CallTaken DEF QuietInv
    <3>2. /\ UNCHANGED <<stdout, queues, subscribed, completed, thread, stage>>
          /\ (Fresh' <=> Fresh)
      BY <1>26, <2>4, <1>j DEF TakeUp, table
    <3>3. ~Quiet
      BY <3>1 DEF Quiet
    <3>4. OneTurn(stdin')
      BY <2>2, <1>a DEF StdinKept, QuietInv
    <3> QED BY <3>1, <3>2, <3>3, <3>4, <1>a DEF QuietInv
  <2> QED BY <2>3, <2>4
<1>27. ASSUME NEW c \in Calls, AnswerTurn(c) PROVE QuietInv'
  <2>1. StdoutKept
    <3>1. Reply(c, "ok") \in Replies /\ Reply(c, "error") \in Replies
      BY MessageTypes
    <3> QED BY <1>27, <3>1, <1>a, ReplyKeeps DEF AnswerTurn
  <2>2. Stays /\ UNCHANGED <<stdin, queues>>
    BY <1>27, <1>j DEF AnswerTurn, Stays, table
  <2> QED BY <2>1, <2>2, <1>a, <1>e, QuietKept
<1>28. CASE Say
  <2>1. /\ ~Quiet /\ NoTurn(stdin) /\ NoEnd(stdout) /\ EndIsLast(stdout)
        /\ running \in Threads /\ said' \in Nat
    BY <1>28, <1>a DEF Say, Quiet, QuietInv, SessionTypeOK, Threads
  <2>2. PICK last \in BOOLEAN : /\ WriteOut(Note(running, said', last))
                                /\ running' = IF last THEN 0 ELSE running
    BY <1>28 DEF Say
  <2>3. /\ Note(running, said', last) \in Replies \cup Notes
        /\ Ends(Note(running, said', last)) => last
    BY <2>1, MessageTypes
  <2>4. EndIsLast(stdout') /\ (~NoEnd(stdout') => running' = 0)
    BY <2>1, <2>2, <2>3, <1>b, MessageAppended DEF WriteOut
  <2>5. UNCHANGED <<stdin, queues, subscribed, completed, thread, stage>> /\ (Fresh' <=> Fresh)
    BY <1>28, <1>j DEF Say, table
  <2> QED BY <2>1, <2>4, <2>5, <1>a DEF QuietInv
<1>29. CASE UNCHANGED session
  BY <1>29, <1>a, <1>e, <1>j, QuietKept DEF session, Stays, pipes, table, server
<1> QED BY <1>1, <1>2, <1>3, <1>5, <1>6, <1>7, <1>8, <1>9, <1>10, <1>12, <1>13, <1>14, <1>15,
           <1>16, <1>17, <1>18, <1>19, <1>20, <1>21, <1>22, <1>23, <1>24, <1>25, <1>26, <1>27, <1>28, <1>29
    DEF SessionNext, Proceed, ReadOn

(***************************************************************************)
(* HearInv                                                                 *)
(***************************************************************************)

LEMMA PlaceIn ==
  ASSUME NEW s, NEW p
  PROVE  p \in PlacesIn(s) <=> \E i \in 1..Len(s) : s[i].type = "note" /\ s[i].place = p
BY DEF PlacesIn

LEMMA NoPlaces == PlacesIn(<<>>) = {} /\ Rising(<<>>)
BY DEF PlacesIn, Rising

LEMMA PlacesAppended ==
  ASSUME NEW S, NEW q \in Seq(S), NEW m \in S
  PROVE  /\ PlacesIn(Append(q, m)) = IF m.type = "note" THEN PlacesIn(q) \cup {m.place} ELSE PlacesIn(q)
         /\ Rising(q) /\ (m.type = "note" => \A p \in PlacesIn(q) : p < m.place) => Rising(Append(q, m))
<1> DEFINE l == Append(q, m)
<1>1. /\ Len(l) = Len(q) + 1 /\ Len(q) \in Nat /\ l[Len(q) + 1] = m
      /\ \A i \in 1..Len(q) : l[i] = q[i]
      /\ \A i \in 1..Len(l) : i \in 1..Len(q) \/ i = Len(q) + 1
  BY AppendItems
<1>2. ASSUME NEW p PROVE p \in PlacesIn(l) <=> (p \in PlacesIn(q) \/ (m.type = "note" /\ p = m.place))
  <2>1. \A i \in 1..Len(q) : i \in 1..Len(l)
    BY <1>1
  <2>2. Len(q) + 1 \in 1..Len(l)
    BY <1>1
  <2> HIDE DEF l
  <2> QED BY <1>1, <2>1, <2>2, PlaceIn
<1>3. ASSUME Rising(q), m.type = "note" => \A p \in PlacesIn(q) : p < m.place PROVE Rising(l)
  <2> HIDE DEF l
  <2>1. SUFFICES ASSUME NEW i \in 1..Len(l), NEW j \in 1..Len(l), i < j, l[i].type = "note", l[j].type = "note"
                 PROVE  l[i].place < l[j].place
    BY DEF Rising
  <2>2. i \in 1..Len(q) /\ l[i] = q[i]
    BY <1>1, <2>1
  <2>3. CASE j \in 1..Len(q)
    BY <1>1, <1>3, <2>1, <2>2, <2>3 DEF Rising
  <2>4. CASE j = Len(q) + 1
    BY <1>1, <1>3, <2>1, <2>2, <2>4, PlaceIn
  <2> QED BY <1>1, <2>3, <2>4
<1> HIDE DEF l
<1>4. PlacesIn(l) = IF m.type = "note" THEN PlacesIn(q) \cup {m.place} ELSE PlacesIn(q)
  <2>1. CASE m.type = "note"
    BY <1>2, <2>1
  <2>2. CASE m.type # "note"
    BY <1>2, <2>2
  <2> QED BY <2>1, <2>2
<1> QED BY <1>3, <1>4 DEF l

LEMMA PlacesLeft ==
  ASSUME NEW S, NEW q \in Seq(S), q # <<>>
  PROVE  /\ PlacesIn(q) = IF Head(q).type = "note" THEN PlacesIn(Tail(q)) \cup {Head(q).place} ELSE PlacesIn(Tail(q))
         /\ Rising(q) => /\ Rising(Tail(q))
                         /\ Head(q).type = "note" => \A p \in PlacesIn(Tail(q)) : Head(q).place < p
<1> DEFINE l == Tail(q)
<1>1. /\ Len(q) \in Nat /\ Len(l) = Len(q) - 1 /\ 1 \in 1..Len(q) /\ Head(q) = q[1]
      /\ \A i \in 1..Len(l) : i + 1 \in 1..Len(q) /\ l[i] = q[i + 1]
  BY TailItems
<1>2. ASSUME NEW i \in 1..Len(q), i # 1 PROVE i - 1 \in 1..Len(l) /\ l[i - 1] = q[i]
  <2>1. i - 1 \in 1..Len(l) /\ (i - 1) + 1 = i
    BY <1>1, <1>2
  <2>2. l[i - 1] = q[(i - 1) + 1]
    BY <1>1, <2>1
  <2> QED BY <2>1, <2>2
<1> DEFINE h == Head(q)
<1> HIDE DEF l, h
<1>3. \A p : p \in PlacesIn(q) <=> (p \in PlacesIn(l) \/ (h.type = "note" /\ p = h.place))
  <2> TAKE p
  <2>1. p \in PlacesIn(q) <=> \E i \in 1..Len(q) : q[i].type = "note" /\ q[i].place = p
    BY PlaceIn
  <2>2. p \in PlacesIn(l) <=> \E i \in 1..Len(l) : l[i].type = "note" /\ l[i].place = p
    BY PlaceIn
  <2>3. ASSUME p \in PlacesIn(q) PROVE p \in PlacesIn(l) \/ (h.type = "note" /\ p = h.place)
    <3>1. PICK i \in 1..Len(q) : q[i].type = "note" /\ q[i].place = p
      BY <2>1, <2>3
    <3>2. CASE i = 1
      BY <1>1, <3>1, <3>2 DEF h
    <3>3. CASE i # 1
      BY <1>2, <2>2, <3>1, <3>3
    <3> QED BY <3>2, <3>3
  <2>4. ASSUME p \in PlacesIn(l) PROVE p \in PlacesIn(q)
    BY <1>1, <2>1, <2>2, <2>4
  <2>5. ASSUME h.type = "note", p = h.place PROVE p \in PlacesIn(q)
    BY <1>1, <2>1, <2>5 DEF h
  <2> QED BY <2>3, <2>4, <2>5
<1>4. PlacesIn(q) = IF h.type = "note" THEN PlacesIn(l) \cup {h.place} ELSE PlacesIn(l)
  <2>1. CASE h.type = "note"
    BY <1>3, <2>1
  <2>2. CASE h.type # "note"
    BY <1>3, <2>2
  <2> QED BY <2>1, <2>2
<1>5. ASSUME Rising(q) PROVE Rising(l)
  <2>1. SUFFICES ASSUME NEW i \in 1..Len(l), NEW j \in 1..Len(l), i < j, l[i].type = "note", l[j].type = "note"
                 PROVE  l[i].place < l[j].place
    BY DEF Rising
  <2>2. i + 1 < j + 1 /\ i + 1 \in 1..Len(q) /\ j + 1 \in 1..Len(q) /\ l[i] = q[i + 1] /\ l[j] = q[j + 1]
    BY <1>1, <2>1
  <2> QED BY <1>5, <2>1, <2>2 DEF Rising
<1>6. ASSUME Rising(q), h.type = "note", NEW p \in PlacesIn(l) PROVE h.place < p
  <2>1. PICK i \in 1..Len(l) : l[i].type = "note" /\ l[i].place = p
    BY <1>6, PlaceIn
  <2>2. 1 < i + 1 /\ i + 1 \in 1..Len(q) /\ l[i] = q[i + 1]
    BY <1>1, <2>1
  <2> QED BY <1>1, <1>6, <2>1, <2>2 DEF Rising, h
<1> QED BY <1>4, <1>5, <1>6 DEF l, h

\* A step that neither says nor hears anything, nor begins or ends a turn.
OutKept ==
    \/ reader' = reader /\ PlacesIn(stdout') = PlacesIn(stdout) /\ (Rising(stdout) => Rising(stdout'))
       /\ (reader # "on" /\ stdout = <<>> => stdout' = <<>>)
    \/ reader' # "on" /\ stdout' = <<>>
QueueKept ==
    /\ PlacesIn(Queue') \subseteq PlacesIn(Queue) /\ (Rising(Queue) => Rising(Queue'))
    /\ Hearing' => Hearing /\ PlacesIn(Queue') = PlacesIn(Queue) /\ (Told(thread) => Told(thread)')
TurnKept ==
    /\ UNCHANGED <<thread, heard, said, skipped>>
    /\ stage = "over" => stage' = "over"
    /\ stage' = "over" => stage = "over" \/ Fresh
    /\ Fresh' => Fresh

LEMMA HearKept ==
  ASSUME HearInv, OutKept, QueueKept, TurnKept, OwnThread => OwnThread'
  PROVE  HearInv'
<1>1. reader' # "on" => stdout' = <<>>
  BY DEF OutKept, HearInv
<1>2. Heard' = Heard /\ GivenUp' = GivenUp /\ said' = said /\ heard' = heard
  BY DEF TurnKept, Heard, GivenUp
<1>3. stage' = "over" => heard' = <<>>
  <2>1. stage # "over" /\ Fresh => Heard = {}
    BY DEF HearInv, NoneMissing
  <2>2. Heard = {} => heard = <<>>
    BY DEF Heard, Range
  <2> QED BY <1>2, <2>1, <2>2 DEF TurnKept, HearInv
<1>4. ASSUME stage' # "over" PROVE OwnThread' /\ PlacesInOrder' /\ NoneMissing'
  <2>1. stage # "over" /\ OwnThread /\ PlacesInOrder /\ NoneMissing
    BY <1>4 DEF HearInv, TurnKept
  <2>2. /\ PlacesIn(stdout') \subseteq PlacesIn(stdout) /\ Rising(stdout')
        /\ reader' = "on" => reader = "on" /\ PlacesIn(stdout') = PlacesIn(stdout)
    BY <2>1, NoPlaces DEF OutKept, PlacesInOrder
  <2>3. Rising(Queue') /\ PlacesIn(Queue') \subseteq PlacesIn(Queue)
    BY <2>1 DEF QueueKept, PlacesInOrder
  <2>4. PlacesInOrder'
    BY <1>2, <2>1, <2>2, <2>3 DEF PlacesInOrder
  <2>5. NoneMissing'
    BY <1>2, <2>1, <2>2, <2>3 DEF NoneMissing, QueueKept, TurnKept
  <2> QED BY <2>1, <2>4, <2>5
<1> QED BY <1>1, <1>3, <1>4 DEF HearInv

\* Of a turn that has not begun there is nothing.
LEMMA FreshIsEmpty ==
  ASSUME SessionInv, HearInv, Fresh
  PROVE  /\ heard = <<>> /\ GivenUp = {} /\ said = 0 /\ PlacesIn(stdout) = {} /\ Queue = <<>>
         /\ running = 0 /\ NoTurn(stdin) /\ NoNote(stdout) /\ stage # "over"
         /\ \A t \in Threads : queues[t] = <<>>
<1>1. stage # "over"
  BY DEF Fresh, Calling
<1>2. said = 0 /\ Heard = {} /\ GivenUp = {} /\ PlacesIn(stdout) = {}
  BY <1>1 DEF HearInv, NoneMissing
<1>3. heard = <<>>
  BY <1>2 DEF Heard, Range
<1>4. Quiet /\ \A t \in Threads : queues[t] = <<>>
  BY <1>1 DEF SessionInv, QuietInv
<1>5. Queue = <<>>
  BY <1>4 DEF Queue
<1> QED BY <1>1, <1>2, <1>3, <1>4, <1>5 DEF Quiet

LEMMA HearAnew ==
  ASSUME heard' = <<>>, GivenUp' = {}, said' = 0, NoNote(stdout'), PlacesIn(Queue') = {}, Rising(Queue'),
         reader' # "on" => stdout' = <<>>, OwnThread'
  PROVE  HearInv'
<1>1. Heard' = {} /\ \A i, j \in 1..Len(heard') : i < j => heard'[i] < heard'[j]
  BY DEF Heard, Range
<1>2. PlacesIn(stdout') = {} /\ Rising(stdout')
  BY DEF NoNote, PlacesIn, Rising
<1>3. PlacesInOrder'
  BY <1>1, <1>2 DEF PlacesInOrder
<1>4. NoneMissing'
  BY <1>1, <1>2 DEF NoneMissing
<1> QED BY <1>3, <1>4 DEF HearInv

LEMMA HearStart == SessionInit => HearInv
<1> SUFFICES ASSUME SessionInit PROVE HearInv
  OBVIOUS
<1>1. Queue = <<>> /\ Heard = {} /\ GivenUp = {}
  BY DEF SessionInit, Queue, Heard, Range, GivenUp
<1>2. OwnThread /\ PlacesInOrder /\ NoneMissing
  BY <1>1, NoPlaces DEF SessionInit, OwnThread, TurnsOf, NotesOf, PlacesInOrder, NoneMissing
<1> QED BY <1>2 DEF SessionInit, HearInv

LEMMA QueueIs ==
  ASSUME SessionTypeOK
  PROVE  Queue \in Seq(Messages)
BY DEF SessionTypeOK, Queue, Messages

LEMMA HearingHasThread ==
  ASSUME SessionInv, Hearing
  PROVE  thread \in Threads /\ thread \in subscribed /\ Queue = queues[thread] /\ ~Fresh
BY DEF SessionInv, SessionTypeOK, ToldInv, Hearing, Engaged, Calling, Fresh, Queue

LEMMA MarkDeadHears ==
  ASSUME SessionTypeOK, NEW c \in SUBSET Calls, NEW f \in Futures, MarkDead(c, f), thread' = thread
  PROVE  /\ PlacesIn(Queue') = PlacesIn(Queue) /\ (Rising(Queue) => Rising(Queue'))
         /\ thread \in Threads => (Told(thread) => Told(thread)')
<1>1. thread \in Threads => (Told(thread) => Told(thread)')
  BY MarkDeadTells
<1>2. Queue' = Queue \/ Queue' = Append(Queue, End)
  BY DEF MarkDead, Queue
<1>3. Queue \in Seq(Messages) /\ End \in Messages /\ End.type # "note"
  BY QueueIs, MessageTypes DEF Messages
<1>4. PlacesIn(Append(Queue, End)) = PlacesIn(Queue) /\ (Rising(Queue) => Rising(Append(Queue, End)))
  <2>1. Queue \in Seq(Messages) /\ End \in Messages /\ End.type # "note"
    BY <1>3
  <2> HIDE DEF Messages
  <2> QED BY ONLY <2>1, PlacesAppended
<1> QED BY <1>1, <1>2, <1>4

LEMMA OwnCalls ==
  ASSUME NEW q \in Seq(Calls), NEW t, TurnsOf(q, t)
  PROVE  /\ \A c \in Calls : (c.method = "turn" => c.thread = t) => TurnsOf(Append(q, c), t)
         /\ q # <<>> => TurnsOf(Tail(q), t) /\ (Head(q).method = "turn" => Head(q).thread = t)
BY AppendItems, TailItems DEF TurnsOf

LEMMA OwnNotes ==
  ASSUME NEW q \in Seq(Replies \cup Notes), NEW t, NotesOf(q, t)
  PROVE  /\ \A m \in Replies \cup Notes : (m.type = "note" => m.thread = t) => NotesOf(Append(q, m), t)
         /\ q # <<>> => NotesOf(Tail(q), t) /\ (Head(q).type = "note" => Head(q).thread = t)
BY AppendItems, TailItems DEF NotesOf

LEMMA OwnKept ==
  ASSUME OwnThread, UNCHANGED <<thread, skipped>>, running' \in {running, 0},
         TurnsOf(stdin', thread), NotesOf(stdout', thread)
  PROVE  OwnThread'
BY DEF OwnThread, TurnsOf, NotesOf

LEMMA NoneOwned == \A t : TurnsOf(<<>>, t) /\ NotesOf(<<>>, t)
BY DEF TurnsOf, NotesOf

\* A reply written or read, a call written or taken up: no notification is moved.
LEMMA ReplyHears ==
  ASSUME SessionTypeOK, NEW m \in Replies, WriteOut(m), reader' = reader
  PROVE  OutKept /\ \A t : NotesOf(stdout, t) => NotesOf(stdout', t)
<1>1. m \in Replies \cup Notes /\ stdout \in Seq(Replies \cup Notes) /\ m.type # "note"
  BY MessageTypes DEF SessionTypeOK
<1>2. stdout' = stdout \/ (reader = "on" /\ stdout' = Append(stdout, m))
  BY DEF WriteOut
<1>3. PlacesIn(stdout') = PlacesIn(stdout) /\ (Rising(stdout) => Rising(stdout'))
  <2>1. PlacesIn(Append(stdout, m)) = PlacesIn(stdout) /\ (Rising(stdout) => Rising(Append(stdout, m)))
    BY ONLY <1>1, PlacesAppended
  <2> QED BY <1>2, <2>1
<1> QED BY <1>1, <1>2, <1>3, OwnNotes DEF OutKept

\* The next notification of the queue is fed.
LEMMA FeedHears ==
  ASSUME SessionInv, HearInv, Feed, Head(queues[thread]) # End
  PROVE  HearInv'
<1> DEFINE m == Head(queues[thread])
<1>1. SessionTypeOK /\ stage = "reading" /\ Hearing
  BY DEF Feed, SessionInv, Hearing
<1>2. thread \in Threads /\ Queue = queues[thread] /\ Queue # <<>> /\ Queue \in Seq(Messages)
  BY <1>1, HearingHasThread, QueueIs DEF Feed
<1>3. m \in Notes /\ m.type = "note" /\ m.place \in Nat
  BY <1>2, SeqTypes, MessageTypes DEF Messages
<1>4. /\ Queue' = Tail(Queue) /\ heard' = Append(heard, m.place)
      /\ UNCHANGED <<thread, said, skipped, reader, stdin, stdout, running>>
      /\ stage' \in {"reading", "settle", "settled"}
  BY <1>1, <1>2 DEF Feed, Queue, SessionTypeOK, pipes, server, history
<1> HIDE DEF m
<1>5. /\ PlacesIn(Queue) = PlacesIn(Queue') \cup {m.place} /\ Rising(Queue')
      /\ \A p \in PlacesIn(Queue') : m.place < p
  BY <1>1, <1>2, <1>3, <1>4, PlacesLeft DEF m, HearInv, PlacesInOrder
<1>6. Heard' = Heard \cup {m.place}
  <2>1. /\ DOMAIN heard' = DOMAIN heard \cup {Len(heard) + 1} /\ heard'[Len(heard) + 1] = m.place
        /\ \A i \in DOMAIN heard : heard'[i] = heard[i]
    BY <1>1, <1>4 DEF SessionTypeOK
  <2>2. \A v : v \in Heard' <=> \E i \in DOMAIN heard' : v = heard'[i]
    BY DEF Heard, Range
  <2>3. \A v : v \in Heard <=> \E i \in DOMAIN heard : v = heard[i]
    BY DEF Heard, Range
  <2>4. \A v : v \in Heard' <=> (v \in Heard \/ v = m.place)
    BY <2>1, <2>2, <2>3
  <2> QED BY <2>4
<1>7. GivenUp' = GivenUp
  BY <1>4 DEF GivenUp
<1>8. /\ OwnThread /\ PlacesInOrder /\ NoneMissing /\ (reader # "on" => stdout = <<>>)
      /\ Heard \subseteq Nat /\ PlacesIn(Queue) \subseteq Nat
  BY <1>1 DEF HearInv, NoneMissing
<1>9. \A i, j \in 1..Len(heard') : i < j => heard'[i] < heard'[j]
  <2>1. SUFFICES ASSUME NEW i \in 1..Len(heard'), NEW j \in 1..Len(heard'), i < j PROVE heard'[i] < heard'[j]
    OBVIOUS
  <2>2. /\ Len(heard') = Len(heard) + 1 /\ Len(heard) \in Nat /\ heard'[Len(heard) + 1] = m.place
        /\ \A k \in 1..Len(heard) : heard'[k] = heard[k] /\ heard[k] \in Heard
    BY <1>1, <1>4 DEF SessionTypeOK, Heard, Range
  <2>3. i \in 1..Len(heard) /\ (j \in 1..Len(heard) \/ j = Len(heard) + 1)
    BY <2>1, <2>2
  <2>4. CASE j \in 1..Len(heard)
    BY <1>8, <2>1, <2>2, <2>3, <2>4 DEF PlacesInOrder
  <2>5. CASE j = Len(heard) + 1
    BY <1>5, <1>8, <2>2, <2>3, <2>5 DEF PlacesInOrder
  <2> QED BY <2>3, <2>4, <2>5
<1>10. PlacesInOrder'
  BY <1>4, <1>5, <1>6, <1>7, <1>8, <1>9 DEF PlacesInOrder
<1>11. OwnThread'
  BY <1>4, <1>8 DEF OwnThread, TurnsOf, NotesOf
<1>12. Told(thread) => Told(thread)'
  BY <1>2, <1>4, TailTells DEF Feed, Told, Queue, m
<1>13. NoneMissing'
  <2>1. Heard' \cup PlacesIn(Queue') = Heard \cup PlacesIn(Queue)
    BY <1>5, <1>6
  <2>2. ASSUME NEW h \in Heard' PROVE 1..h \subseteq Heard' \cup GivenUp'
    <3>1. CASE h \in Heard
      BY <1>6, <1>7, <1>8, <3>1 DEF NoneMissing
    <3>2. CASE h = m.place
      <4>1. 1..h \subseteq Heard \cup PlacesIn(Queue) \cup GivenUp
        BY <1>1, <1>5, <1>8, <3>2 DEF NoneMissing
      <4>2. \A p \in 1..h : p \notin PlacesIn(Queue')
        BY <1>3, <1>5, <1>8, <3>2
      <4> QED BY <1>5, <1>6, <1>7, <4>1, <4>2
    <3> QED BY <1>6, <3>1, <3>2
  <2>3. ~Fresh'
    BY <1>4 DEF Fresh, Calling
  <2>4. \A q \in PlacesIn(Queue') : 1..q \subseteq Heard' \cup PlacesIn(Queue') \cup GivenUp'
    BY <1>1, <1>5, <1>7, <1>8, <2>1 DEF NoneMissing
  <2>5. reader' = "on" /\ ~Told(thread)' => 1..said' \subseteq Heard' \cup PlacesIn(Queue') \cup PlacesIn(stdout') \cup GivenUp'
    BY <1>1, <1>4, <1>7, <1>8, <1>12, <2>1 DEF NoneMissing
  <2>6. Heard' \cup PlacesIn(Queue') \cup PlacesIn(stdout') \cup GivenUp' \subseteq 1..said'
    BY <1>4, <1>7, <1>8, <2>1 DEF NoneMissing
  <2>7. thread' = thread
    BY <1>4
  <2> QED BY <2>2, <2>3, <2>4, <2>5, <2>6, <2>7 DEF NoneMissing
<1> QED BY <1>4, <1>8, <1>10, <1>11, <1>13 DEF HearInv

\* The reader takes a notification off the pipe, for the queue or for nobody.
LEMMA DeliverHears ==
  ASSUME SessionInv, HearInv, stage # "over", ReadLine, Head(stdout).type = "note"
  PROVE  HearInv'
<1> DEFINE m == Head(stdout)
<1>1. SessionTypeOK /\ stdout \in Seq(Replies \cup Notes) /\ stdout # <<>> /\ stdout' = Tail(stdout)
      /\ UNCHANGED <<stdin, reader, subscribed, caller, running, history>> /\ reader = "on" /\ Deliver(m)
  <2>1. m.type # "reply"
    OBVIOUS
  <2> QED BY <2>1 DEF SessionInv, SessionTypeOK, ReadLine, server
<1>2. UNCHANGED <<stage, thread, call, heard, said, skipped>> /\ (Hearing' <=> Hearing) /\ (Fresh' <=> Fresh)
  BY <1>1 DEF caller, history, Hearing, Fresh, Calling
<1>3. m \in Notes /\ m \in Messages /\ m.thread \in Threads /\ m.place \in Nat /\ m.type = "note"
  BY <1>1, SeqTypes, MessageTypes DEF Messages
<1> HIDE DEF m
<1>4. OwnThread /\ PlacesInOrder /\ NoneMissing
  BY DEF HearInv
<1>5. m.thread = thread /\ NotesOf(stdout', thread)
  BY <1>1, <1>3, <1>4, OwnNotes DEF OwnThread, m
<1>6. /\ PlacesIn(stdout) = PlacesIn(stdout') \cup {m.place} /\ Rising(stdout')
      /\ \A p \in PlacesIn(stdout') : m.place < p
  BY <1>1, <1>3, <1>4, PlacesLeft DEF m, PlacesInOrder
<1>7. Heard' = Heard /\ GivenUp' = GivenUp
  BY <1>2 DEF Heard, GivenUp
<1>8. OwnThread'
  BY <1>1, <1>2, <1>4, <1>5, OwnKept DEF OwnThread
<1>9. /\ PlacesIn(Queue) \subseteq Nat /\ PlacesIn(stdout) \subseteq Nat /\ Heard \subseteq Nat /\ m.place \in 1..said
  BY <1>4, <1>6 DEF NoneMissing
<1>10. thread \in Threads /\ Queue = queues[thread] /\ Queue \in Seq(Messages)
  BY <1>1, <1>3, <1>5, QueueIs DEF Queue
<1>11. CASE queues' = queues
  <2>1. Queue' = Queue /\ Told(thread)' = Told(thread)
    BY <1>2, <1>11 DEF Queue, Told
  <2>2. PlacesInOrder'
    BY <1>2, <1>4, <1>6, <1>7, <2>1 DEF PlacesInOrder
  <2>3. Hearing => Told(thread)
    <3>1. SUFFICES ASSUME Hearing, ~Told(thread) PROVE FALSE
      OBVIOUS
    <3>2. m.thread \in subscribed /\ End \notin Range(queues[thread])
      <4>1. thread \in subscribed
        BY <3>1, HearingHasThread
      <4>2. DOMAIN queues[thread] = 1..Len(queues[thread])
        BY <1>10
      <4> QED BY <1>5, <3>1, <4>1, <4>2 DEF Told, Range
    <3>3. queues' = [queues EXCEPT ![thread] = Append(@, m)]
      BY <1>1, <1>5, <3>2 DEF Deliver
    <3>4. queues'[thread] = Append(queues[thread], m)
      BY <1>1, <1>10, <3>3 DEF SessionTypeOK
    <3>5. Len(Append(queues[thread], m)) # Len(queues[thread])
      BY <1>3, <1>10, AppendItems
    <3> QED BY <1>11, <3>4, <3>5
  <2>4. NoneMissing'
    BY <1>2, <1>4, <1>6, <1>7, <2>1, <2>3 DEF NoneMissing
  <2> QED BY <1>1, <1>2, <1>8, <2>2, <2>4 DEF HearInv
<1>12. CASE queues' # queues
  <2>1. queues' = [queues EXCEPT ![thread] = Append(@, m)] /\ End \notin Range(queues[thread])
    BY <1>1, <1>5, <1>12 DEF Deliver
  <2>2. Queue' = Append(Queue, m)
    BY <1>1, <1>2, <1>10, <2>1 DEF SessionTypeOK, Queue
  <2>3. ~Told(thread)
    <3>1. DOMAIN queues[thread] = 1..Len(queues[thread])
      BY <1>10
    <3> QED BY <2>1, <3>1 DEF Told, Range
  <2>4. \A p \in PlacesIn(Queue) : p < m.place
    BY <1>4, <1>6 DEF PlacesInOrder
  <2>5. PlacesIn(Queue') = PlacesIn(Queue) \cup {m.place} /\ Rising(Queue')
    BY <1>3, <1>4, <1>10, <2>2, <2>4, PlacesAppended DEF PlacesInOrder
  <2>6. PlacesInOrder'
    BY <1>2, <1>4, <1>6, <1>7, <2>5 DEF PlacesInOrder
  <2>7. Hearing => \A q \in PlacesIn(Queue') : 1..q \subseteq Heard' \cup PlacesIn(Queue') \cup GivenUp'
    <3>1. SUFFICES ASSUME Hearing, NEW q \in PlacesIn(Queue')
                   PROVE  1..q \subseteq Heard' \cup PlacesIn(Queue') \cup GivenUp'
      OBVIOUS
    <3>2. CASE q \in PlacesIn(Queue)
      BY <1>4, <1>7, <2>5, <3>1, <3>2 DEF NoneMissing
    <3>3. CASE q = m.place
      <4>1. 1..said \subseteq Heard \cup PlacesIn(Queue) \cup PlacesIn(stdout) \cup GivenUp
        BY <1>1, <1>4, <2>3, <3>1 DEF NoneMissing
      <4>2. \A p \in 1..q : p \in 1..said /\ p \notin PlacesIn(stdout')
        <5>1. said \in Nat
          BY <1>1 DEF SessionTypeOK
        <5> QED BY <1>6, <1>9, <3>3, <5>1
      <4> QED BY <1>6, <1>7, <2>5, <4>1, <4>2
    <3> QED BY <2>5, <3>2, <3>3
  <2>8. Heard' \cup PlacesIn(Queue') \cup PlacesIn(stdout') \cup GivenUp' = Heard \cup PlacesIn(Queue) \cup PlacesIn(stdout) \cup GivenUp
    BY <1>6, <1>7, <2>5
  <2>9. NoneMissing'
    BY <1>1, <1>2, <1>4, <1>7, <2>3, <2>7, <2>8 DEF NoneMissing
  <2> QED BY <1>1, <1>2, <1>8, <2>6, <2>9 DEF HearInv
<1> QED BY <1>11, <1>12

\* The reader gives a line up.
LEMMA SkipHears ==
  ASSUME SessionInv, HearInv, stage # "over", SkipLine
  PROVE  HearInv'
<1> DEFINE m == Head(stdout)
<1>1. SessionTypeOK /\ stdout \in Seq(Replies \cup Notes) /\ stdout # <<>> /\ stdout' = Tail(stdout)
      /\ skipped' = skipped \cup {m}
      /\ UNCHANGED <<stdin, reader, queues, subscribed, stage, thread, call, heard, running, said>> /\ reader = "on"
  BY DEF SessionInv, SessionTypeOK, SkipLine, server, table, caller
<1>2. Queue' = Queue /\ Told(thread)' = Told(thread) /\ Heard' = Heard /\ (Hearing' <=> Hearing) /\ (Fresh' <=> Fresh)
  BY <1>1 DEF Queue, Told, Heard, Hearing, Fresh, Calling
<1> HIDE DEF m
<1>3. OwnThread /\ PlacesInOrder /\ NoneMissing
  BY DEF HearInv
<1>4. NotesOf(stdout', thread) /\ (m.type = "note" => m.thread = thread)
  BY <1>1, <1>3, OwnNotes DEF OwnThread, m
<1>5. OwnThread'
  BY <1>1, <1>3, <1>4 DEF OwnThread, TurnsOf, NotesOf
<1>6. GivenUp' = GivenUp \cup IF m.type = "note" THEN {m.place} ELSE {}
  <2>1. \A v : v \in GivenUp <=> \E k \in skipped : k.type = "note" /\ v = k.place
    BY DEF GivenUp
  <2>2. \A v : v \in GivenUp' <=> \E k \in skipped' : k.type = "note" /\ v = k.place
    BY DEF GivenUp
  <2>3. \A v : v \in GivenUp' <=> (v \in GivenUp \/ (m.type = "note" /\ v = m.place))
    BY <1>1, <2>1, <2>2
  <2> QED BY <2>3
<1>7. /\ PlacesIn(stdout) = IF m.type = "note" THEN PlacesIn(stdout') \cup {m.place} ELSE PlacesIn(stdout')
      /\ Rising(stdout') /\ (m.type = "note" => \A p \in PlacesIn(stdout') : m.place < p)
  BY <1>1, <1>3, PlacesLeft DEF m, PlacesInOrder
<1>8. /\ PlacesIn(Queue) \subseteq Nat /\ PlacesIn(stdout) \subseteq Nat /\ Heard \subseteq Nat
  BY <1>3 DEF NoneMissing
<1>9. PlacesInOrder'
  <2>1. GivenUp' \cap (Heard' \cup PlacesIn(Queue') \cup PlacesIn(stdout')) = {}
    <3>1. GivenUp \cap (Heard \cup PlacesIn(Queue) \cup PlacesIn(stdout)) = {} /\ PlacesIn(stdout') \subseteq PlacesIn(stdout)
      BY <1>3, <1>7 DEF PlacesInOrder
    <3>2. CASE m.type # "note"
      BY <1>2, <1>6, <3>1, <3>2
    <3>3. CASE m.type = "note"
      <4>1. m.place \in PlacesIn(stdout) /\ m.place \notin PlacesIn(stdout')
        BY <1>7, <1>8, <3>3
      <4>2. m.place \notin Heard /\ m.place \notin PlacesIn(Queue)
        BY <1>3, <1>8, <4>1 DEF PlacesInOrder
      <4> QED BY <1>2, <1>6, <3>1, <3>3, <4>1, <4>2
    <3> QED BY <3>2, <3>3
  <2>2. PlacesIn(stdout') \subseteq PlacesIn(stdout)
    BY <1>7
  <2> QED BY <1>1, <1>2, <1>3, <1>7, <2>1, <2>2 DEF PlacesInOrder
<1>10. PlacesIn(stdout') \cup GivenUp' = PlacesIn(stdout) \cup GivenUp /\ GivenUp \subseteq GivenUp'
  BY <1>6, <1>7
<1>11. NoneMissing'
  BY <1>1, <1>2, <1>3, <1>10 DEF NoneMissing
<1> QED BY <1>1, <1>5, <1>9, <1>11 DEF HearInv

\* The turn says something.
LEMMA SayHears ==
  ASSUME SessionInv, HearInv, Say
  PROVE  HearInv'
<1>1. /\ SessionTypeOK /\ stdout \in Seq(Replies \cup Notes) /\ said \in Nat /\ said' = said + 1
      /\ UNCHANGED <<stdin, reader, queues, subscribed, stage, thread, call, heard, skipped>>
      /\ stage # "over" /\ running # 0 /\ running \in Threads
  BY DEF SessionInv, SessionTypeOK, Say, table, caller, Threads
<1>2. PICK last \in BOOLEAN : WriteOut(Note(running, said', last)) /\ running' \in {running, 0}
  BY DEF Say
<1> DEFINE m == Note(running, said + 1, last)
<1>3. m \in Replies \cup Notes /\ m.type = "note" /\ m.place = said + 1 /\ m.thread = running
  <2>1. said + 1 \in Nat
    BY <1>1
  <2>2. m \in Notes /\ m.type = "note"
    BY <1>1, <2>1, MessageTypes
  <2> QED BY <2>2 DEF Note
<1>4. OwnThread /\ PlacesInOrder /\ NoneMissing /\ running = thread /\ (reader # "on" => stdout = <<>>)
  BY <1>1 DEF HearInv, OwnThread
<1>5. Queue' = Queue /\ Told(thread)' = Told(thread) /\ Heard' = Heard /\ GivenUp' = GivenUp /\ (Hearing' <=> Hearing)
      /\ (Fresh' <=> Fresh)
  BY <1>1 DEF Queue, Told, Heard, GivenUp, Hearing, Fresh, Calling
<1>6. ~Fresh
  BY <1>1, FreshIsEmpty
<1> HIDE DEF m
<1>7. stdout' = IF reader = "on" THEN Append(stdout, m) ELSE stdout
  BY <1>1, <1>2 DEF WriteOut, m
<1>8. \A p \in PlacesIn(stdout) \cup PlacesIn(Queue) \cup Heard \cup GivenUp : p \in 1..said /\ p < said + 1
  BY <1>1, <1>4 DEF NoneMissing
<1>9. /\ PlacesIn(stdout') = PlacesIn(stdout) \cup IF reader = "on" THEN {said + 1} ELSE {}
      /\ Rising(stdout')
  BY <1>1, <1>3, <1>4, <1>7, <1>8, PlacesAppended DEF PlacesInOrder
<1>10. OwnThread'
  <2>1. NotesOf(stdout', thread)
    BY <1>1, <1>3, <1>4, <1>7, OwnNotes DEF OwnThread
  <2> QED BY <1>1, <1>2, <1>4, <2>1, OwnKept DEF OwnThread
<1>11. PlacesInOrder'
  BY <1>1, <1>4, <1>5, <1>8, <1>9 DEF PlacesInOrder
<1>12. NoneMissing'
  <2>1. 1..said' = 1..said \cup {said + 1}
    BY <1>1
  <2> QED BY <1>1, <1>4, <1>5, <1>6, <1>9, <2>1 DEF NoneMissing
<1> QED BY <1>1, <1>4, <1>7, <1>10, <1>11, <1>12 DEF HearInv

LEMMA HearStep == SessionInv /\ HearInv /\ [SessionNext]_session => HearInv'
<1> SUFFICES ASSUME SessionInv, HearInv, [SessionNext]_session PROVE HearInv'
  OBVIOUS
<1>a. /\ SessionTypeOK /\ ToldInv /\ QuietInv
      /\ stdin \in Seq(Calls) /\ stdout \in Seq(Replies \cup Notes) /\ (reader # "on" => stdout = <<>>)
      /\ pending \in SUBSET Calls /\ future \in Futures /\ "none" \in Futures
  BY DEF SessionInv, SessionTypeOK, HearInv, Futures
<1>b. stage # "over" => OwnThread /\ TurnsOf(stdin, thread) /\ NotesOf(stdout, thread)
  BY DEF HearInv, OwnThread
\* What a step that leaves a part alone keeps.
<1>c. UNCHANGED <<reader, stdout>> => OutKept
  BY DEF OutKept
<1>d. UNCHANGED <<thread, queues>> /\ (Hearing' => Hearing) => QueueKept
  BY DEF QueueKept, Queue, Told
<1>e. ASSUME NEW c \in SUBSET Calls, NEW f \in Futures, MarkDead(c, f), thread' = thread, Hearing' => Hearing
      PROVE  QueueKept
  BY <1>a, <1>e, MarkDeadHears, HearingHasThread DEF QueueKept
<1>f. OwnThread /\ UNCHANGED <<stdin, stdout, running, thread, skipped>> => OwnThread'
  BY DEF OwnThread, TurnsOf, NotesOf
<1>g. /\ stage' \in {"over", "settled", "settle", "listening"} => ~Fresh' /\ ~Hearing'
      /\ UNCHANGED <<stage, call>> => (Fresh' <=> Fresh) /\ (Hearing' <=> Hearing)
      /\ Hearing => ~Fresh
  BY DEF Fresh, Calling, Hearing
<1>h. /\ AfterFailure(call) \in {"over", "settled", "settle"}
      /\ Calling /\ AfterFailure(call) = "over" => Fresh
  BY <1>a, CallTypes DEF AfterFailure, SessionTypeOK, Fresh
<1>i. UNCHANGED caller => UNCHANGED <<stage, thread, call, heard>>
  BY DEF caller
<1>1. CASE Start
  <2>1. Fresh
    BY <1>1 DEF Start, Fresh
  <2>2. /\ heard' = <<>> /\ GivenUp' = {} /\ said' = 0 /\ NoNote(stdout') /\ Queue' = <<>> /\ running' = 0
        /\ stdin' = <<Initialize>> /\ reader' = "on"
    BY <1>1, <2>1, FreshIsEmpty DEF Start, GivenUp, Queue, server, history
  <2>3. OwnThread'
    <3>1. stdin'[1].method # "turn" /\ Len(stdin') = 1
      BY <2>2, CallTypes
    <3>2. \A m \in skipped' : m.type # "note"
      BY <2>2 DEF GivenUp
    <3> QED BY <2>2, <3>1, <3>2 DEF OwnThread, TurnsOf, NotesOf, NoNote
  <2> QED BY <2>2, <2>3, NoPlaces, HearAnew
<1>2. CASE Written
  <2>1. (Fresh' => Fresh) /\ (Hearing' => Hearing) /\ stage # "over" /\ stage' # "over"
    BY <1>2 DEF Written, Fresh, Hearing, Calling
  <2> QED BY <1>2, <2>1, <1>c, <1>d, <1>f, HearKept DEF Written, TurnKept, pipes, server, history
<1>3. CASE Broken
  <2>1. \E c \in SUBSET Calls : MarkDead(c, "none")
    BY <1>3, <1>a DEF Broken, BeginClose
  <2>2. /\ UNCHANGED <<stdin, stdout, reader, running, thread, heard, said, skipped>>
        /\ stage # "over" /\ stage' = AfterFailure(call) /\ Calling
    BY <1>3 DEF Broken, BeginClose, Calling, pipes, server, history
  <2> QED BY <2>1, <2>2, <1>a, <1>c, <1>e, <1>f, <1>g, <1>h, HearKept DEF TurnKept
<1>4. ASSUME NEW c \in SUBSET Calls, CallFails(c), Calling PROVE HearInv'
  <2>1. (\E d \in SUBSET Calls : MarkDead(d, "none")) \/ UNCHANGED queues
    BY <1>4, <1>a DEF CallFails, BeginClose
  <2>2. /\ UNCHANGED <<stdin, stdout, reader, running, thread, heard, said, skipped>>
        /\ stage # "over" /\ stage' = AfterFailure(call)
    BY <1>4 DEF CallFails, BeginClose, Calling, pipes, server, history
  <2> QED BY <2>1, <2>2, <1>4, <1>a, <1>c, <1>d, <1>e, <1>f, <1>g, <1>h, HearKept DEF TurnKept
<1>5. CASE Refused \/ CallGivenUp
  <2>1. pending \ {call} \in SUBSET Calls
    BY <1>a
  <2> QED BY <1>5, <1>a, <2>1, <1>4 DEF Refused, CallGivenUp, Calling
<1>6. CASE HandshakeDone
  <2>1. Fresh /\ stage # "over" /\ stage' \in {"ready", "over"} /\ ~Hearing' /\ (Fresh' => Fresh)
    BY <1>6, CallTypes DEF HandshakeDone, Fresh, Calling, Hearing
  <2>2. MarkDead(pending, "none") \/ UNCHANGED queues
    BY <1>6 DEF HandshakeDone, BeginClose
  <2>3. UNCHANGED <<stdin, stdout, reader, running, thread, heard, said, skipped>>
    BY <1>6 DEF HandshakeDone, BeginClose, pipes, server, history
  <2> QED BY <2>1, <2>2, <2>3, <1>a, <1>c, <1>d, <1>e, <1>f, HearKept DEF TurnKept
<1>7. CASE BeginTurn
  <2>1. Fresh
    BY <1>7 DEF BeginTurn, Fresh
  <2>2. Call("thread", thread + 1) \in Calls /\ Call("thread", thread + 1).method = "thread"
    <3>1. thread + 1 \in Threads
      BY <1>7, <1>a, SessionBounds DEF BeginTurn, SessionTypeOK, Threads
    <3> QED BY <3>1, CallTypes
  <2>3. /\ UNCHANGED <<stdout, reader, running, queues, heard, said, skipped>> /\ thread' = thread + 1
        /\ stdin' \in {stdin, Append(stdin, Call("thread", thread + 1))}
    BY <1>7 DEF BeginTurn, Send, pipes, server, history
  <2>4. /\ heard = <<>> /\ GivenUp = {} /\ said = 0 /\ NoTurn(stdin) /\ NoNote(stdout) /\ running = 0
        /\ \A t \in Threads : queues[t] = <<>>
    BY <2>1, FreshIsEmpty
  <2>5. Queue' = <<>> /\ GivenUp' = {}
    BY <2>3, <2>4 DEF Queue, GivenUp
  <2>6. OwnThread'
    <3>1. NoTurn(stdin')
      BY <1>a, <2>2, <2>3, <2>4, CallAppended, AppendItems DEF NoTurn
    <3>2. \A m \in skipped' : m.type # "note"
      BY <2>5 DEF GivenUp
    <3> QED BY <2>3, <2>4, <3>1, <3>2 DEF OwnThread, TurnsOf, NotesOf, NoTurn, NoNote
  <2> QED BY <2>3, <2>4, <2>5, <2>6, <1>a, NoPlaces, HearAnew
<1>8. CASE FoundDead
  <2>1. Fresh /\ stage # "over" /\ stage' = "over"
    BY <1>8 DEF FoundDead, Fresh
  <2>2. MarkDead(pending, "none")
    BY <1>8 DEF FoundDead, BeginClose
  <2>3. UNCHANGED <<stdin, stdout, reader, running, thread, heard, said, skipped>>
    BY <1>8 DEF FoundDead, BeginClose, pipes, history
  <2> QED BY <2>1, <2>2, <2>3, <1>a, <1>c, <1>e, <1>f, <1>g, HearKept DEF TurnKept
<1>9. CASE ThreadOpened
  <2>1. Fresh /\ thread \in Threads
    BY <1>9, <1>a, CallTypes DEF ThreadOpened, SessionTypeOK, ToldInv, Calling, Fresh
  <2>2. Call("turn", thread) \in Calls /\ Call("turn", thread).method = "turn" /\ Call("turn", thread).thread = thread
    BY <2>1, CallTypes
  <2>3. /\ UNCHANGED <<stdout, reader, running, thread, heard, said, skipped>>
        /\ stdin' \in {stdin, Append(stdin, Call("turn", thread))}
        /\ queues' = queues \/ queues' = [queues EXCEPT ![thread] = <<End>>]
    BY <1>9 DEF ThreadOpened, Send, pipes, server, history
  <2>4. /\ heard = <<>> /\ GivenUp = {} /\ said = 0 /\ NoTurn(stdin) /\ NoNote(stdout) /\ running = 0 /\ Queue = <<>>
    BY <2>1, FreshIsEmpty
  <2>5. (Queue' = <<>> \/ Queue' = <<End>>) /\ GivenUp' = {}
    BY <2>1, <2>3, <2>4, <1>a DEF Queue, GivenUp, SessionTypeOK
  <2>6. PlacesIn(Queue') = {} /\ Rising(Queue')
    <3>1. <<End>>[1].type # "note" /\ Len(<<End>>) = 1
      BY MessageTypes
    <3>2. PlacesIn(<<End>>) = {} /\ Rising(<<End>>)
      BY <3>1 DEF PlacesIn, Rising
    <3> QED BY <2>5, <3>2, NoPlaces
  <2>7. OwnThread'
    <3>1. TurnsOf(stdin', thread)
      <4>1. TurnsOf(stdin, thread)
        BY <2>4 DEF NoTurn, TurnsOf
      <4> QED BY <1>a, <2>2, <2>3, <4>1, OwnCalls
    <3>2. \A m \in skipped' : m.type # "note"
      BY <2>5 DEF GivenUp
    <3> QED BY <2>3, <2>4, <3>1, <3>2 DEF OwnThread, TurnsOf, NotesOf, NoNote
  <2> QED BY <2>3, <2>4, <2>5, <2>6, <2>7, <1>a, HearAnew
<1>10. CASE TurnBegun
  <2>1. Hearing /\ ~Fresh' /\ stage # "over" /\ stage' # "over"
    BY <1>10 DEF TurnBegun, Fresh, Hearing, Calling
  <2> QED BY <1>10, <2>1, <1>c, <1>d, <1>f, HearKept DEF TurnBegun, TurnKept, pipes, server, history
\* A message is taken from the queue without being fed.
<1>11. ASSUME Engaged, queues[thread] # <<>>, queues' = [queues EXCEPT ![thread] = Tail(@)],
              UNCHANGED <<stdin, stdout, reader, running, thread, heard, said, skipped>>,
              stage # "over", stage' \in {"settled", "settle", "listening"}
       PROVE  HearInv'
  <2>1. thread \in Threads /\ Queue = queues[thread] /\ Queue \in Seq(Messages)
    BY <1>11, <1>a, QueueIs DEF ToldInv, SessionTypeOK, Queue
  <2>2. Queue' = Tail(Queue)
    BY <1>11, <2>1, <1>a DEF Queue, SessionTypeOK
  <2>3. PlacesIn(Queue') \subseteq PlacesIn(Queue) /\ (Rising(Queue) => Rising(Queue'))
    BY <1>11, <2>1, <2>2, PlacesLeft
  <2>4. QueueKept
    BY <1>11, <1>g, <2>3 DEF QueueKept
  <2> QED BY <1>11, <2>4, <1>c, <1>f, <1>g, HearKept DEF TurnKept
<1>12. CASE Feed
  <2>1. CASE Head(queues[thread]) = End
    <3>1. Engaged /\ stage' = "settle" /\ heard' = heard
      BY <1>12, <2>1 DEF Feed, Engaged
    <3> QED BY <1>12, <3>1, <1>11 DEF Feed, pipes, server, history
  <2> QED BY <1>12, <2>1, FeedHears
<1>13. CASE ReadingGivenUp \/ GraceEnds
  <2>1. stage # "over" /\ stage' \in {"settle", "settled"}
    BY <1>13 DEF ReadingGivenUp, GraceEnds
  <2>2. UNCHANGED <<stdin, stdout, reader, queues, running, thread, heard, said, skipped>>
    BY <1>13 DEF ReadingGivenUp, GraceEnds, pipes, table, server, history
  <2> QED BY <2>1, <2>2, <1>c, <1>d, <1>f, <1>g, HearKept DEF TurnKept
<1>14. CASE Interrupt
  <2>1. thread \in Threads /\ Call("interrupt", thread) \in Calls /\ Call("interrupt", thread).method = "interrupt"
    BY <1>14, <1>a, CallTypes DEF Interrupt, ToldInv, Engaged, SessionTypeOK
  <2>2. ~Fresh' /\ ~Hearing' /\ stage # "over" /\ stage' # "over"
    BY <1>14, <2>1 DEF Interrupt, Send, Fresh, Hearing, Calling
  <2>3. /\ UNCHANGED <<stdout, reader, queues, running, thread, heard, said, skipped>>
        /\ stdin' \in {stdin, Append(stdin, Call("interrupt", thread))}
    BY <1>14 DEF Interrupt, Send, pipes, server, history
  <2>4. OwnThread'
    <3>1. TurnsOf(stdin', thread)
      BY <1>a, <1>b, <2>1, <2>2, <2>3, OwnCalls
    <3> QED BY <1>b, <2>2, <2>3, <3>1, OwnKept
  <2> QED BY <2>2, <2>3, <2>4, <1>c, <1>d, HearKept DEF TurnKept
<1>15. CASE Listen
  <2>1. Engaged /\ stage' \in {"settled", "listening"}
    BY <1>15 DEF Listen, Engaged
  <2> QED BY <1>15, <2>1, <1>11 DEF Listen, pipes, server, history
<1>16. CASE GiveBack
  <2>1. Quiet /\ UNCHANGED <<stdin, stdout, reader, running, thread>>
    BY <1>16, <1>a DEF GiveBack, QuietInv, pipes
  <2>2. heard' = <<>> /\ said' = 0 /\ skipped' = {} /\ GivenUp' = {}
    BY <1>16 DEF GiveBack, Forget, GivenUp
  <2>3. Queue' = <<>>
    BY <1>16, <1>a DEF GiveBack, Queue, SessionTypeOK
  <2>4. OwnThread' /\ NoNote(stdout')
    BY <2>1, <2>2 DEF Quiet, OwnThread, NoTurn, NoNote, TurnsOf, NotesOf
  <2> QED BY <2>1, <2>2, <2>3, <2>4, <1>a, NoPlaces, HearAnew
<1>17. CASE ThrowAway
  <2>1. heard' = <<>> /\ stage' = "over" /\ UNCHANGED <<stdout, reader>>
    BY <1>17 DEF ThrowAway, Forget, BeginClose, pipes
  <2> QED BY <2>1, <1>a DEF HearInv
<1>18. CASE ReadLine
  <2>1. CASE stage = "over"
    <3>1. UNCHANGED <<stage, heard, reader>> /\ reader = "on" /\ heard = <<>>
      BY <1>18, <1>i, <2>1 DEF ReadLine, HearInv
    <3> QED BY <2>1, <3>1 DEF HearInv
  <2>2. CASE stage # "over" /\ Head(stdout).type = "note"
    BY <1>18, <2>2, DeliverHears
  <2>3. CASE stage # "over" /\ Head(stdout).type # "note"
    <3>1. /\ stdout' = Tail(stdout) /\ stdout # <<>> /\ reader = "on"
          /\ UNCHANGED <<stdin, reader, queues, stage, call, running, thread, heard, said, skipped>>
      BY <1>18, <1>i, <2>3 DEF ReadLine, Resolve, server, history
    <3>2. OutKept
      <4>1. stdout \in Seq(Replies \cup Notes) /\ stdout # <<>> /\ Head(stdout).type # "note"
        BY <1>a, <2>3, <3>1
      <4>2. PlacesIn(stdout) = PlacesIn(Tail(stdout)) /\ (Rising(stdout) => Rising(Tail(stdout)))
        BY ONLY <4>1, PlacesLeft
      <4> QED BY <3>1, <4>2 DEF OutKept
    <3>3. OwnThread'
      <4>1. NotesOf(stdout', thread)
        BY <1>a, <1>b, <2>3, <3>1, OwnNotes
      <4> QED BY <1>b, <2>3, <3>1, <4>1, OwnKept
    <3> QED BY <2>3, <3>1, <3>2, <3>3, <1>d, <1>g, HearKept DEF TurnKept
  <2> QED BY <2>1, <2>2, <2>3
<1>19. CASE SkipLine
  <2>1. CASE stage = "over"
    <3>1. UNCHANGED <<stage, heard, reader>> /\ reader = "on" /\ heard = <<>>
      BY <1>19, <1>i, <2>1 DEF SkipLine, HearInv
    <3> QED BY <2>1, <3>1 DEF HearInv
  <2> QED BY <1>19, <2>1, SkipHears
<1>20. CASE ReadEnd \/ BreakOff
  <2>1. /\ MarkDead(pending, future) /\ reader' = "off" /\ stdout' = <<>>
        /\ UNCHANGED <<stdin, stage, call, running, thread, heard, said, skipped>>
    BY <1>20, <1>i DEF ReadEnd, BreakOff, ReaderEnds, server, history
  <2>2. OwnThread => OwnThread'
    BY <2>1, NoneOwned, OwnKept DEF OwnThread
  <2>3. OutKept
    BY <2>1 DEF OutKept
  <2> QED BY <2>1, <2>2, <2>3, <1>a, <1>e, <1>g, HearKept DEF TurnKept
<1>21. CASE PoolCloses
  <2>1. /\ MarkDead(pending, future)
        /\ UNCHANGED <<stdin, stdout, reader, stage, call, running, thread, heard, said, skipped>>
    BY <1>21, <1>i DEF PoolCloses, BeginClose, pipes, history
  <2> QED BY <2>1, <1>a, <1>c, <1>e, <1>f, <1>g, HearKept DEF TurnKept
<1>22. ASSUME NEW k \in Closers, StopReaders(k) PROVE HearInv'
  <2>1. /\ reader' = "off" /\ stdout' = <<>>
        /\ UNCHANGED <<stdin, queues, stage, call, running, thread, heard, said, skipped>>
    BY <1>22, <1>i DEF StopReaders, ReaderEnds, table, server, history
  <2>2. OwnThread => OwnThread'
    BY <2>1, NoneOwned, OwnKept DEF OwnThread
  <2>3. OutKept
    BY <2>1 DEF OutKept
  <2> QED BY <2>1, <2>2, <2>3, <1>d, <1>g, HearKept DEF TurnKept
<1>23. ASSUME NEW k \in Closers, TermIgnored(k) \/ Waited(k) \/ CloseCut \/ Reap \/ UNCHANGED session
       PROVE  HearInv'
  <2>1. UNCHANGED <<stdin, stdout, reader, queues, stage, call, running, thread, heard, said, skipped>>
    BY <1>23, <1>i DEF TermIgnored, Waited, CloseCut, Reap, session, pipes, table, server, history
  <2> QED BY <2>1, <1>c, <1>d, <1>f, <1>g, HearKept DEF TurnKept
<1>24. CASE Exit
  <2>1. /\ stdin' = <<>> /\ running' = 0
        /\ UNCHANGED <<stdout, reader, queues, stage, call, thread, heard, said, skipped>>
    BY <1>24, <1>i DEF Exit, table
  <2>2. OwnThread => OwnThread'
    BY <2>1, NoneOwned, OwnKept DEF OwnThread
  <2> QED BY <2>1, <2>2, <1>c, <1>d, <1>g, HearKept DEF TurnKept
<1>25. CASE TakeUp
  <2> DEFINE c == Head(stdin)
  <2>1. /\ stdin # <<>> /\ stdin' = Tail(stdin) /\ stage # "over"
        /\ UNCHANGED <<reader, queues, stage, call, thread, heard, said, skipped>>
    BY <1>25, <1>i DEF TakeUp, table
  <2>2. c \in Calls /\ TurnsOf(stdin', thread) /\ (c.method = "turn" => c.thread = thread)
    BY <1>a, <1>b, <2>1, SeqTypes, OwnCalls
  <2>3. CASE c.method = "turn"
    <3>1. running' = thread /\ stdout' = stdout
      BY <1>25, <2>2, <2>3 DEF TakeUp
    <3>2. OwnThread'
      BY <1>b, <2>1, <2>2, <3>1 DEF OwnThread
    <3> QED BY <2>1, <3>1, <3>2, <1>c, <1>d, <1>g, HearKept DEF TurnKept
  <2>4. CASE c.method # "turn"
    <3>1. PICK result \in {"ok", "error"} : WriteOut(Reply(c, result)) /\ running' = running
      BY <1>25, <2>4 DEF TakeUp
    <3>2. OutKept /\ NotesOf(stdout', thread)
      BY <1>a, <1>b, <2>1, <2>2, <3>1, MessageTypes, ReplyHears
    <3>3. OwnThread'
      BY <1>b, <2>1, <2>2, <3>1, <3>2, OwnKept
    <3> QED BY <2>1, <3>2, <3>3, <1>d, <1>g, HearKept DEF TurnKept
  <2> QED BY <2>3, <2>4
<1>26. ASSUME NEW c \in Calls, AnswerTurn(c) PROVE HearInv'
  <2>1. /\ stage # "over" /\ running' \in {running, 0}
        /\ UNCHANGED <<stdin, reader, queues, stage, call, thread, heard, said, skipped>>
        /\ \E result \in {"ok", "error"} : WriteOut(Reply(c, result))
    BY <1>26, <1>i DEF AnswerTurn, table
  <2>2. OutKept /\ NotesOf(stdout', thread)
    BY <1>a, <1>b, <1>26, <2>1, MessageTypes, ReplyHears
  <2>3. OwnThread'
    BY <1>b, <2>1, <2>2, OwnKept
  <2> QED BY <2>1, <2>2, <2>3, <1>d, <1>g, HearKept DEF TurnKept
<1>27. CASE Say
  BY <1>27, SayHears
<1>28. "pool" \in Closers
  BY DEF Closers
<1> QED BY <1>1, <1>2, <1>3, <1>5, <1>6, <1>7, <1>8, <1>9, <1>10, <1>12, <1>13, <1>14, <1>15, <1>16, <1>17,
           <1>18, <1>19, <1>20, <1>21, <1>22, <1>23, <1>24, <1>25, <1>26, <1>27, <1>28
    DEF SessionNext, Proceed, ReadOn, Finish

LEMMA HearImplies == SessionInv /\ HearInv => TurnHearsAll
<1> SUFFICES ASSUME SessionInv, HearInv PROVE TurnHearsAll
  OBVIOUS
<1>1. CASE heard = <<>>
  BY <1>1 DEF TurnHearsAll
<1>2. CASE heard # <<>>
  <2>1. OwnThread /\ PlacesInOrder /\ NoneMissing /\ SessionTypeOK
    BY <1>2 DEF HearInv, SessionInv
  <2> DEFINE n == heard[Len(heard)]
  <2>2. n \in Heard /\ Heard = {heard[i] : i \in 1..Len(heard)} /\ Len(heard) \in Nat \ {0} /\ Heard \subseteq Nat
    BY <1>2, <2>1 DEF Heard, Range, SessionTypeOK
  <2>3. \A h \in Heard : h \in 1..n
    <3>1. TAKE h \in Heard
    <3>2. PICK i \in 1..Len(heard) : heard[i] = h
      BY <2>2
    <3>3. h <= n
      <4>1. CASE i = Len(heard)
        BY <2>2, <3>2, <4>1
      <4>2. CASE i < Len(heard)
        <5>1. heard[i] < heard[Len(heard)]
          BY <2>1, <2>2, <3>2, <4>2 DEF PlacesInOrder
        <5>2. h \in Nat /\ n \in Nat /\ h < n
          BY <2>2, <3>2, <5>1
        <5> QED BY <5>2
      <4> QED BY <2>2, <3>2, <4>1, <4>2
    <3>4. h \in 1..said /\ said \in Nat
      BY <2>1 DEF NoneMissing, SessionTypeOK
    <3> QED BY <2>2, <3>3, <3>4
  <2>4. \A k \in 1..n : k \in Heard <=> k \notin GivenUp
    BY <2>1, <2>2 DEF NoneMissing, PlacesInOrder
  <2>5. \A k \in Nat : k \in GivenUp <=> \E last \in BOOLEAN : Note(thread, k, last) \in skipped
    <3>1. TAKE k \in Nat
    <3>2. ASSUME k \in GivenUp PROVE \E last \in BOOLEAN : Note(thread, k, last) \in skipped
      <4>1. PICK m \in skipped : m.type = "note" /\ m.place = k
        BY <3>2 DEF GivenUp
      <4>2. m \in Notes /\ m.thread = thread
        <5>1. m \in Replies \cup Notes
          BY <2>1 DEF SessionTypeOK
        <5> QED BY <2>1, <4>1, <5>1, MessageTypes DEF OwnThread
      <4>3. m = Note(thread, k, m.last) /\ m.last \in BOOLEAN
        BY <4>1, <4>2 DEF Notes, Note
      <4> QED BY <4>3
    <3>3. ASSUME NEW last \in BOOLEAN, Note(thread, k, last) \in skipped PROVE k \in GivenUp
      <4>1. Note(thread, k, last).type = "note" /\ Note(thread, k, last).place = k
        BY DEF Note
      <4> QED BY <3>3, <4>1 DEF GivenUp
    <3> QED BY <3>2, <3>3
  <2>6. Heard = {k \in 1..n : \A last \in BOOLEAN : Note(thread, k, last) \notin skipped}
    <3>1. \A k \in 1..n : k \in Nat
      BY <2>2
    <3> HIDE DEF n
    <3> QED BY <2>3, <2>4, <2>5, <3>1
  <2> QED BY <2>1, <2>6 DEF TurnHearsAll, PlacesInOrder, Heard
<1> QED BY <1>1, <1>2

(***************************************************************************)
(* The theorems                                                            *)
(***************************************************************************)

\* The parts of a session keep their types, and the calls, queues and stages of the
\* caller stay bound together the way generate, the reader and _mark_dead assume.
THEOREM SessionInvariant == SessionSpec => []SessionInv
<1>1. SessionInv /\ [SessionNext]_session => SessionInv'
  BY TypeStep, ToldStep, QuietStep DEF SessionInv
<1> QED BY InitInv, <1>1, PTL DEF SessionSpec

\* Nobody waits for the answers or the notifications of a dead session, however its
\* death, its answers and the calls of the caller interleave (_mark_dead, subscribe,
\* send).
THEOREM DeathTold == SessionSpec => []DeathIsTold
<1>1. SessionInv => DeathIsTold
  BY DEF SessionInv, ToldInv, DeathIsTold, Calling, Engaged, Told
<1> QED BY <1>1, SessionInvariant, PTL

\* Whatever is given back to the pool has no turn running, none about to run and no
\* notification of one on its way (_settle, _interrupt).
THEOREM GivenBackQuiet == SessionSpec => []ReadyIsQuiet
<1>1. SessionInv => ReadyIsQuiet
  BY DEF SessionInv, QuietInv, ReadyIsQuiet, Fresh, Quiet, NoTurn, NoNote
<1> QED BY <1>1, SessionInvariant, PTL

\* A turn is fed all that the server says of it from its first word on, in that order and
\* nothing else, but for the lines the reader gives up: whatever is read, skipped or lost
\* while the caller starts, reads, settles and closes (subscribe, _dispatch, generate).
THEOREM TurnsHearAll == SessionSpec => []TurnHearsAll
<1>1. SessionInit => HearInv
  BY HearStart
<1>2. SessionInv /\ HearInv /\ [SessionNext]_session => HearInv'
  BY HearStep
<1>3. SessionInv /\ HearInv => TurnHearsAll
  BY HearImplies
<1> QED BY <1>1, <1>2, <1>3, SessionInvariant, PTL DEF SessionSpec

===============================================================================
