-------------------------------- MODULE Session --------------------------------
(***************************************************************************)
(* One app-server session: a process, JSON-RPC over its stdin and stdout,  *)
(* and the turns that generate runs on it one after the other, until it    *)
(* is closed.  SessionPool sees all of this as one session that is up or   *)
(* down and has a turn or none.                                            *)
(*                                                                         *)
(* Tasks: the caller (start, then generate with its settling), the reader  *)
(* of stdout, and whoever runs close(): start when it fails or acquire     *)
(* when it finds the session dead ("starter"), the settling of a turn      *)
(* ("settler"), the shutdown of the pool ("pool"), in any combination the  *)
(* code allows at the same time.                                           *)
(*                                                                         *)
(* Abstractions.  A request id is the call it was given to: ids are never  *)
(* used twice, and neither is a method on one thread.  Of the futures only *)
(* the one that is waited for is kept: a future that was cancelled or      *)
(* dropped takes no answer.  A notification is its place among those of    *)
(* its turn and whether it ends the turn; what TurnReader makes of it is   *)
(* the module of that name.  stderr, which nothing waits for, is left out, *)
(* as is what a write longer than the pipe waits for: drain ends when it   *)
(* may.                                                                    *)
(***************************************************************************)
EXTENDS Integers, Sequences, FiniteSets, Functions

CONSTANTS
    MaxTurns,       \* bound: turns run on the session
    MaxNotes,       \* bound: notifications of a turn
    MaxSkips        \* bound: lines that are too long or are no JSON object

ASSUME SessionBounds == MaxTurns \in Nat /\ MaxNotes \in Nat /\ MaxSkips \in Nat

VARIABLES
    process,        \* "none", "up", "exited", "reaped" once the loop has its exit code
    signal,         \* what was sent to it: "none", "term" or "kill"
    stdin, stdout,  \* the pipes: calls written; replies and notifications not yet read
    alive,          \* _alive
    reader,         \* _readers: "none", "on" or "off"
    pending,        \* calls in _pending
    future,         \* the future of the call the caller waits for
    queues,         \* _turns: the queue of each thread
    subscribed,     \* the threads _turns has
    stage,          \* where the caller stands
    thread,         \* the thread of its turn; 0 before the first
    call,           \* the call it is waiting for
    completed,      \* TurnReader.completed, or what _interrupt found
    heard,          \* history: places of the notifications fed to TurnReader
    closing,        \* where each run of close() stands
    owed,           \* calls the server has yet to answer
    running,        \* the thread its turn runs on, 0 for none
    said,           \* history: notifications of the turn so far
    skipped         \* history: the lines the reader gave up

pipes == <<stdin, stdout>>
table == <<alive, pending, future, queues>>
caller == <<stage, thread, call, completed, heard>>
server == <<owed, running>>
history == <<said, skipped>>
session == <<process, signal, pipes, table, subscribed, reader, caller, closing, server, history>>

Threads == 1..MaxTurns
Closers == {"starter", "settler", "pool"}

Call(method, t) == [method |-> method, thread |-> t]
Initialize == Call("initialize", 0)
Calls == {Initialize} \cup [method : {"thread", "turn", "interrupt"}, thread : Threads]

\* `reply`: the answer to a call; `note`: the n-th notification of a thread.
Reply(c, result) == [type |-> "reply", call |-> c, result |-> result]
Note(t, n, last) == [type |-> "note", thread |-> t, place |-> n, last |-> last]

Ends(m) == m.type = "note" /\ m.last

\* None in a queue: the session is dead.
End == [type |-> "end"]

SessionInit ==
    /\ process = "none" /\ signal = "none"
    /\ stdin = <<>> /\ stdout = <<>>
    /\ alive = TRUE /\ reader = "none"
    /\ pending = {} /\ future = "none"
    /\ queues = [t \in Threads |-> <<>>] /\ subscribed = {}
    /\ stage = "new" /\ thread = 0 /\ call = Initialize /\ completed = FALSE
    /\ heard = <<>>
    /\ closing = [k \in Closers |-> "no"]
    /\ owed = {} /\ running = 0 /\ said = 0
    /\ skipped = {}

-----------------------------------------------------------------------------
(* AppServerSession: alive, _mark_dead, send and _write, close.            *)

Usable == alive /\ process # "reaped"

\* Mutant: whoever waits for notifications is not told.
MarkDeadQuietly(p, f) ==
    /\ alive' = FALSE
    /\ pending' = IF alive THEN {} ELSE p
    /\ future' = IF alive /\ call \in p /\ f = "waiting" THEN "dead" ELSE f
    /\ queues' = queues

\* _mark_dead, with the calls p in _pending and the future f: every future that
\* waits fails, every queue gets the end mark.  Only the first time counts.
MarkDead(p, f) ==
    /\ alive' = FALSE
    /\ pending' = IF alive THEN {} ELSE p
    /\ future' = IF alive /\ call \in p /\ f = "waiting" THEN "dead" ELSE f
    /\ queues' = [t \in Threads |-> IF alive /\ t \in subscribed THEN Append(queues[t], End)
                                                                 ELSE queues[t]]

\* The call is registered and written; what is written to a process that has
\* exited is lost.  `drain` is still to come.
Send(c) ==
    /\ Usable
    /\ pending' = pending \cup {c}
    /\ future' = "waiting"
    /\ stdin' = IF process = "up" THEN Append(stdin, c) ELSE stdin
    /\ call' = c /\ stage' = "sending"
    /\ UNCHANGED <<process, signal, stdout, alive, reader, closing, server, history>>

\* close() up to its first await: dead, stdin closed, SIGTERM.
BeginClose(k, p, f) ==
    /\ closing[k] = "no"
    /\ MarkDead(p, f)
    /\ IF process = "reaped"
       THEN closing' = [closing EXCEPT ![k] = "readers"] /\ UNCHANGED signal
       ELSE /\ closing' = [closing EXCEPT ![k] = "grace"]
            /\ signal' = IF signal = "kill" THEN signal ELSE "term"
    /\ UNCHANGED <<process, pipes, reader, owed, running>>

\* Where the caller goes when its call came to nothing.
AfterFailure(c) ==
    CASE c.method = "initialize" -> "over"
      [] c.method = "thread" -> "settled"
      [] c.method = "turn" -> "settle"
      [] c.method = "interrupt" -> "settled"

\* A failed call, after which p is in _pending.  start closes what it has begun; a turn
\* is settled.
CallFails(p) ==
    /\ stage' = AfterFailure(call)
    /\ IF call = Initialize
       THEN BeginClose("starter", p, "none")
       ELSE /\ pending' = p /\ future' = "none"
            /\ UNCHANGED <<process, signal, pipes, alive, queues, reader, closing, server>>
    /\ UNCHANGED <<subscribed, thread, call, completed, heard, history>>

-----------------------------------------------------------------------------
(* The caller: start, then turn after turn.                                *)

\* start: the process is there, the readers run, initialize is written.
Start ==
    /\ stage = "new"
    /\ process' = "up" /\ reader' = "on"
    /\ pending' = {Initialize} /\ future' = "waiting"
    /\ stdin' = <<Initialize>> /\ stage' = "sending"
    /\ UNCHANGED <<signal, stdout, alive, queues, subscribed, thread, call, completed, heard, closing, server, history>>

\* drain returned.  The answer to an interrupt is not waited for.
Written ==
    /\ stage = "sending"
    /\ IF call.method = "interrupt" THEN stage' = "listening" /\ future' = "none"
                                    ELSE stage' = "waiting" /\ UNCHANGED future
    /\ UNCHANGED <<process, signal, pipes, alive, pending, queues, subscribed, reader, thread,
                   call, completed, heard, closing, server, history>>

\* The pipe is broken: the writer finds the session dead and takes its call back.
Broken ==
    /\ stage = "sending"
    /\ process # "up" \/ closing["pool"] # "no"
    /\ stage' = AfterFailure(call)
    /\ IF call = Initialize
       THEN BeginClose("starter", pending, "none")
       ELSE /\ MarkDead(pending \ {call}, "none")
            /\ UNCHANGED <<process, signal, pipes, reader, closing, server>>
    /\ UNCHANGED <<subscribed, thread, call, completed, heard, history>>

\* A call was refused, or the session died under it.
Refused ==
    /\ stage = "waiting" /\ future \in {"error", "dead"}
    /\ CallFails(pending)

\* The time is up or the request is cancelled, perhaps just when the answer has come.
\* While writing the call is taken back; while waiting its future is cancelled and its
\* id stays.
CallGivenUp ==
    /\ stage \in {"sending", "waiting"} /\ call.method # "interrupt"
    /\ CallFails(IF stage = "sending" THEN pending \ {call} ELSE pending)

\* The handshake ends with a notification, which may find the pipe broken.
HandshakeDone ==
    /\ stage = "waiting" /\ call = Initialize /\ future = "ok"
    /\ \/ /\ Usable /\ stage' = "ready" /\ future' = "none"
          /\ UNCHANGED <<process, signal, pipes, alive, pending, queues, reader, closing, server>>
       \/ /\ ~Usable \/ process # "up"
          /\ stage' = "over"
          /\ BeginClose("starter", pending, "none")
    /\ UNCHANGED <<subscribed, thread, call, completed, heard, history>>

\* acquire lends the session and generate opens a thread on it, unless the time is up by
\* now or the session, just started, is dead.
BeginTurn ==
    /\ stage = "ready" /\ closing["pool"] = "no" /\ thread < MaxTurns
    /\ \/ Send(Call("thread", thread + 1))
       \/ /\ stage' = "settled"
          /\ UNCHANGED <<process, signal, pipes, alive, pending, future, reader, call, closing, server, history>>
    /\ thread' = thread + 1
    /\ UNCHANGED <<queues, subscribed, completed, heard>>

\* acquire finds the session dead and closes it.
FoundDead ==
    /\ stage = "ready" /\ closing["pool"] = "no" /\ ~Usable
    /\ stage' = "over"
    /\ BeginClose("starter", pending, "none")
    /\ UNCHANGED <<subscribed, thread, call, completed, heard, history>>

\* The thread is subscribed to before the turn is started; if the session is dead
\* or the time is up by now nothing is written.
ThreadOpened ==
    /\ stage = "waiting" /\ call.method = "thread" /\ future = "ok"
    /\ subscribed' = subscribed \cup {thread}
    /\ \/ Send(Call("turn", thread)) /\ UNCHANGED queues
       \/ /\ stage' = "settle" /\ future' = "none"
          /\ queues' = IF Usable THEN queues ELSE [queues EXCEPT ![thread] = <<End>>]
          /\ UNCHANGED <<process, signal, pipes, alive, pending, reader, call, closing, server, history>>
    /\ UNCHANGED <<thread, completed, heard>>

\* Mutant: the subscription comes after the start of the turn.
TurnBegunUnheard ==
    /\ stage = "waiting" /\ call.method = "turn" /\ future = "ok"
    /\ stage' = "reading" /\ future' = "none"
    /\ queues' = [queues EXCEPT ![thread] = <<>>]
    /\ UNCHANGED <<process, signal, pipes, alive, pending, subscribed, reader, thread,
                   call, completed, heard, closing, server, history>>

TurnBegun ==
    /\ stage = "waiting" /\ call.method = "turn" /\ future = "ok"
    /\ stage' = "reading" /\ future' = "none"
    /\ UNCHANGED <<process, signal, pipes, alive, pending, queues, subscribed, reader, thread,
                   call, completed, heard, closing, server, history>>

-----------------------------------------------------------------------------
(* The loop of generate around TurnReader.feed.                            *)

\* The end mark raises, and feed may raise at any notification.
Feed ==
    /\ stage = "reading" /\ queues[thread] # <<>>
    /\ queues' = [queues EXCEPT ![thread] = Tail(@)]
    /\ LET m == Head(queues[thread]) IN
       \/ /\ m = End
          /\ stage' = "settle" /\ UNCHANGED <<completed, heard>>
       \/ /\ m # End
          /\ heard' = Append(heard, m.place)
          /\ completed' = m.last
          /\ stage' \in IF m.last THEN {"settled"} ELSE {"reading", "settle"}
    /\ UNCHANGED <<process, signal, pipes, alive, pending, future, subscribed, reader, thread,
                   call, closing, server, history>>

\* The time is up, the request is cancelled, or its client has left.
ReadingGivenUp ==
    /\ stage = "reading" /\ stage' = "settle"
    /\ UNCHANGED <<process, signal, pipes, table, subscribed, reader, thread, call, completed, heard, closing, server, history>>

-----------------------------------------------------------------------------
(* _settle and _interrupt.                                                 *)

Interrupt ==
    /\ stage = "settle"
    /\ \/ Send(Call("interrupt", thread))
       \/ /\ ~Usable /\ stage' = "settled"
          /\ UNCHANGED <<process, signal, pipes, alive, pending, future, reader, call, closing,
                         server, history>>
    /\ UNCHANGED <<queues, subscribed, thread, completed, heard>>

\* What comes before the end of the turn is thrown away.
Listen ==
    /\ stage = "listening" /\ queues[thread] # <<>>
    /\ queues' = [queues EXCEPT ![thread] = Tail(@)]
    /\ LET m == Head(queues[thread]) IN
       /\ completed' = Ends(m)
       /\ stage' = IF Ends(m) \/ m = End THEN "settled" ELSE "listening"
    /\ UNCHANGED <<process, signal, pipes, alive, pending, future, subscribed, reader, thread,
                   call, heard, closing, server, history>>

\* Mutant: the turn is taken for over when the interrupt was written.
GraceEndsWell ==
    /\ stage = "listening" /\ stage' = "settled" /\ completed' = TRUE
    /\ UNCHANGED <<process, signal, pipes, table, subscribed, reader, thread, call, heard, closing, server, history>>

\* The end of the turn did not come within the grace.
GraceEnds ==
    /\ stage = "listening" /\ stage' = "settled"
    /\ UNCHANGED <<process, signal, pipes, table, subscribed, reader, thread, call, completed, heard, closing, server, history>>

\* The locals of generate go with it, and so does the history of the turn.
Forget ==
    /\ heard' = <<>> /\ completed' = FALSE
    /\ said' = 0 /\ skipped' = {}

\* unsubscribe: what is left in the queue goes with it.
GiveBack ==
    /\ stage = "settled" /\ completed /\ Usable
    /\ stage' = "ready"
    /\ subscribed' = subscribed \ {thread}
    /\ queues' = [queues EXCEPT ![thread] = <<>>]
    /\ Forget
    /\ UNCHANGED <<process, signal, pipes, alive, pending, future, reader, thread, call, closing,
                   owed, running>>

ThrowAway ==
    /\ stage = "settled" /\ ~(completed /\ Usable)
    /\ stage' = "over"
    /\ BeginClose("settler", pending, "none")
    /\ subscribed' = subscribed \ {thread}
    /\ Forget
    /\ UNCHANGED <<thread, call>>

-----------------------------------------------------------------------------
(* The reader of stdout.                                                   *)

\* _resolve: a call that was given up or taken back is not answered any more.
Resolve(m) ==
    /\ pending' = pending \ {m.call}
    /\ future' = IF m.call \in pending /\ m.call = call /\ future = "waiting" THEN m.result ELSE future
    /\ UNCHANGED queues

\* A notification of a thread nobody subscribed to is dropped; one behind the end mark
\* is never looked at.
Deliver(m) ==
    /\ queues' = IF m.thread \in subscribed /\ End \notin Range(queues[m.thread])
                 THEN [queues EXCEPT ![m.thread] = Append(@, m)] ELSE queues
    /\ UNCHANGED <<pending, future>>

ReadLine ==
    /\ reader = "on" /\ stdout # <<>>
    /\ stdout' = Tail(stdout)
    /\ LET m == Head(stdout) IN
       \/ m.type = "reply" /\ Resolve(m)
       \/ m.type = "note" /\ Deliver(m)
    /\ UNCHANGED <<process, signal, stdin, alive, reader, subscribed, caller, closing, server, history>>

\* A line over the limit, or one that is no JSON object, is given up alone.
SkipLine ==
    /\ reader = "on" /\ stdout # <<>> /\ Cardinality(skipped) < MaxSkips
    /\ stdout' = Tail(stdout)
    /\ skipped' = skipped \cup {Head(stdout)}
    /\ UNCHANGED <<process, signal, stdin, table, reader, subscribed, caller, closing, server, said>>

\* What is left when the reader ends is never read.
ReaderEnds == reader' = "off" /\ stdout' = <<>>

\* Mutant: the end of the output is not taken for the end of the session.
ReadEndQuietly ==
    /\ reader = "on" /\ stdout = <<>> /\ process \in {"exited", "reaped"}
    /\ ReaderEnds
    /\ UNCHANGED <<process, signal, stdin, table, subscribed, caller, closing, server, history>>

\* End of file.
ReadEnd ==
    /\ reader = "on" /\ stdout = <<>> /\ process \in {"exited", "reaped"}
    /\ ReaderEnds
    /\ MarkDead(pending, future)
    /\ UNCHANGED <<process, signal, stdin, subscribed, caller, closing, server, history>>

\* A message the dispatch does not expect, or a process that closes its output, ends the
\* reader: the process may be well, but the session is not.
BreakOff ==
    /\ reader = "on" /\ (stdout # <<>> \/ process = "up")
    /\ ReaderEnds
    /\ MarkDead(pending, future)
    /\ UNCHANGED <<process, signal, stdin, subscribed, caller, closing, server, history>>

-----------------------------------------------------------------------------
(* close() past its first await.                                           *)

\* aclose closes what the pool knows of: not a session that is being started.
PoolCloses ==
    /\ stage \notin {"new", "over"} /\ (call # Initialize \/ stage = "ready")
    /\ BeginClose("pool", pending, future)
    /\ UNCHANGED <<subscribed, caller, history>>

GoOn(k, from, to) == closing[k] = from /\ closing' = [closing EXCEPT ![k] = to]

\* Mutant: a process that ignores SIGTERM is waited for, not killed.
TermIgnoredForEver(k) ==
    /\ GoOn(k, "grace", "killed")
    /\ process # "reaped"
    /\ UNCHANGED <<process, signal, pipes, table, subscribed, reader, caller, server, history>>

TermIgnored(k) ==
    /\ GoOn(k, "grace", "killed")
    /\ process # "reaped" /\ signal' = "kill"
    /\ UNCHANGED <<process, pipes, table, subscribed, reader, caller, server, history>>

Waited(k) ==
    /\ process = "reaped"
    /\ GoOn(k, "grace", "readers") \/ GoOn(k, "killed", "readers")
    /\ UNCHANGED <<process, signal, pipes, table, subscribed, reader, caller, server, history>>

StopReaders(k) ==
    /\ GoOn(k, "readers", "closed")
    /\ ReaderEnds
    /\ UNCHANGED <<process, signal, stdin, table, subscribed, caller, server, history>>

\* Nothing shields the close() of start and of acquire: a request that is cancelled
\* then leaves the process with the SIGTERM it was sent.
CloseCut ==
    /\ \E from \in {"grace", "killed", "readers"} : GoOn("starter", from, "cut")
    /\ UNCHANGED <<process, signal, pipes, table, subscribed, reader, caller, server, history>>

-----------------------------------------------------------------------------
(* The process.                                                            *)

\* It may exit at any time, with or without a signal; what it wrote can still be read.
Exit ==
    /\ process = "up" /\ process' = "exited"
    /\ stdin' = <<>> /\ owed' = {} /\ running' = 0
    /\ UNCHANGED <<signal, stdout, table, subscribed, reader, caller, closing, said, skipped>>

\* SIGKILL cannot be ignored.
DieOfKill == signal = "kill" /\ Exit

\* The event loop learns the exit code.
Reap ==
    /\ process = "exited" /\ process' = "reaped"
    /\ UNCHANGED <<signal, pipes, table, subscribed, reader, caller, closing, server, history>>

\* What is written when nobody reads any more is lost.  What the server does when nobody
\* uses the session any more is left out.
WriteOut(m) == stdout' = IF reader = "on" THEN Append(stdout, m) ELSE stdout

\* The server takes up a call.  A turn begins before or after its call is answered; the
\* other calls are answered at once.
TakeUp ==
    /\ process = "up" /\ stdin # <<>> /\ stage # "over"
    /\ stdin' = Tail(stdin)
    /\ LET c == Head(stdin) IN
       \/ /\ c.method = "turn"
          /\ running' = c.thread /\ owed' = owed \cup {c}
          /\ UNCHANGED stdout
       \/ /\ c.method # "turn"
          /\ \E result \in {"ok", "error"} : WriteOut(Reply(c, result))
          /\ UNCHANGED <<running, owed>>
    /\ UNCHANGED <<process, signal, table, subscribed, reader, caller, closing, said, skipped>>

\* A turn that is refused has not begun.
AnswerTurn(c) ==
    /\ process = "up" /\ c \in owed /\ stage # "over"
    /\ owed' = owed \ {c}
    /\ \/ WriteOut(Reply(c, "ok")) /\ UNCHANGED running
       \/ /\ running = c.thread /\ said = 0
          /\ WriteOut(Reply(c, "error")) /\ running' = 0
    /\ UNCHANGED <<process, signal, stdin, table, subscribed, reader, caller, closing, said,
                   skipped>>

\* The running turn says something, which may be its end; the bound leaves room for it.
Say ==
    /\ process = "up" /\ running # 0 /\ stage # "over"
    /\ said' = said + 1
    /\ \E last \in BOOLEAN :
       /\ last \/ said' < MaxNotes
       /\ WriteOut(Note(running, said', last))
       /\ running' = IF last THEN 0 ELSE running
    /\ UNCHANGED <<process, signal, stdin, table, subscribed, reader, caller, closing, owed,
                   skipped>>

-----------------------------------------------------------------------------
\* What the caller does by itself; that it gives up is not counted on.
Proceed ==
    \/ Start \/ Written \/ Broken \/ Refused \/ HandshakeDone \/ ThreadOpened \/ TurnBegun
    \/ Feed \/ Interrupt \/ Listen \/ GiveBack \/ ThrowAway

ReadOn == ReadLine \/ ReadEnd

Finish(k) == TermIgnored(k) \/ Waited(k) \/ StopReaders(k)

SessionNext ==
    \/ Proceed \/ BeginTurn \/ FoundDead \/ CallGivenUp \/ ReadingGivenUp \/ GraceEnds
    \/ ReadOn \/ SkipLine \/ BreakOff
    \/ PoolCloses \/ CloseCut \/ \E k \in Closers : Finish(k)
    \/ Exit \/ Reap \/ TakeUp \/ Say \/ \E c \in Calls : AnswerTurn(c)

SessionSpec == SessionInit /\ [][SessionNext]_session

\* The tasks run on, the event loop reads to the end and collects the exit code, and
\* SIGKILL works.  Nothing is asked of the server, and no time limit has to strike but
\* the grace of close().
SessionFairness ==
    /\ WF_session(Proceed) /\ WF_session(ReadOn) /\ WF_session(Reap) /\ WF_session(DieOfKill)
    /\ \A k \in Closers : WF_session(Finish(k))

-----------------------------------------------------------------------------
(* Properties.                                                             *)

TurnStages == {"reading", "settle", "listening", "settled"}

\* A turn is fed every notification of its own thread and no other, in the order the
\* server said them, but for lines the reader gave up: none comes before the
\* subscription, none is left from the turn before.
TurnHearsAll ==
    /\ \A i, j \in 1..Len(heard) : i < j => heard[i] < heard[j]
    /\ heard # <<>> =>
           Range(heard) = {n \in 1..heard[Len(heard)] :
                              \A last \in BOOLEAN : Note(thread, n, last) \notin skipped}

\* Nobody waits for the answers and notifications of a dead session: a caller that waits
\* has a settled future or an end mark to find.
DeathIsTold ==
    ~alive =>
        /\ stage \in {"sending", "waiting"} => future # "waiting"
        /\ stage \in {"reading", "listening"} =>
               \E i \in 1..Len(queues[thread]) : queues[thread][i] = End

\* A session is given back with no turn running or about to, and nothing of a turn
\* still on its way.
ReadyIsQuiet ==
    stage = "ready" =>
        /\ running = 0 /\ subscribed = {}
        /\ \A i \in 1..Len(stdin) : stdin[i].method # "turn"
        /\ \A i \in 1..Len(stdout) : stdout[i].type # "note"

\* Whoever waits on a process that has gone is told, without any time limit.
DeathEndsWaiting ==
    process \in {"exited", "reaped"} ~> stage \notin {"sending", "waiting", "reading", "listening"}

\* A close that is not cut short ends with the process gone and its exit code collected,
\* even if the process ignores SIGTERM.
CloseFinishes ==
    \A k \in Closers :
        closing[k] # "no" ~> (closing[k] = "cut" \/ (closing[k] = "closed" /\ process = "reaped"))

-----------------------------------------------------------------------------
(* Why DeathIsTold and ReadyIsQuiet hold: the invariant they need.         *)

Replies == [type : {"reply"}, call : Calls, result : {"ok", "error"}]
Notes == [type : {"note"}, thread : Threads, place : Nat, last : BOOLEAN]

SessionTypeOK ==
    /\ process \in {"none", "up", "exited", "reaped"} /\ signal \in {"none", "term", "kill"}
    /\ stdin \in Seq(Calls) /\ stdout \in Seq(Replies \cup Notes)
    /\ alive \in BOOLEAN /\ reader \in {"none", "on", "off"}
    /\ pending \subseteq Calls /\ future \in {"none", "waiting", "ok", "error", "dead"}
    /\ queues \in [Threads -> Seq(Notes \cup {End})] /\ subscribed \subseteq Threads
    /\ stage \in {"new", "sending", "waiting", "ready", "reading", "settle", "listening", "settled", "over"}
    /\ thread \in 0..MaxTurns /\ call \in Calls
    /\ completed \in BOOLEAN /\ heard \in Seq(Nat)
    /\ closing \in [Closers -> {"no", "grace", "killed", "readers", "closed", "cut"}]
    /\ owed \subseteq Calls /\ running \in 0..MaxTurns /\ said \in Nat
    /\ skipped \subseteq Replies \cup Notes

Calling == stage \in {"sending", "waiting"}

\* The caller listens to its thread, or will once its call is through.
Engaged ==
    \/ stage \in {"reading", "settle", "listening"}
    \/ Calling /\ call.method \in {"turn", "interrupt"}

Told(t) == \E i \in 1..Len(queues[t]) : queues[t][i] = End

ToldInv ==
    /\ stage = "new" => alive /\ reader # "on" /\ call = Initialize
    /\ Calling => call = Initialize \/ call.thread = thread
    /\ Calling /\ future = "waiting" => alive /\ call \in pending
    /\ Engaged => thread \in subscribed
    /\ Engaged /\ stage # "settle" /\ ~alive => Told(thread)

NoTurn(s) == \A i \in 1..Len(s) : s[i].method # "turn"
OneTurn(s) == \A i, j \in 1..Len(s) : s[i].method = "turn" /\ s[j].method = "turn" => i = j
NoNote(s) == \A i \in 1..Len(s) : s[i].type # "note"
NoEnd(s) == \A i \in 1..Len(s) : ~Ends(s[i])
EndIsLast(s) == \A i, j \in 1..Len(s) : Ends(s[i]) /\ i < j => s[j].type # "note"

Quiet == running = 0 /\ NoTurn(stdin) /\ NoNote(stdout)

\* No turn has been asked for since the session was new or given back.
Fresh ==
    \/ stage \in {"new", "ready"}
    \/ Calling /\ call.method \in {"initialize", "thread"}

\* The end of a turn is the last that is heard of it.
QuietInv ==
    /\ subscribed \subseteq {thread}
    /\ stage # "over" => \A t \in Threads \ subscribed : queues[t] = <<>>
    /\ OneTurn(stdin) /\ EndIsLast(stdout)
    /\ running # 0 => NoTurn(stdin)
    /\ ~NoEnd(stdout) => running = 0 /\ NoTurn(stdin)
    /\ completed => Quiet
    /\ \A t \in Threads : ~NoEnd(queues[t]) => Quiet
    /\ Fresh => Quiet /\ ~completed /\ subscribed = {}

SessionInv == SessionTypeOK /\ ToldInv /\ QuietInv

-----------------------------------------------------------------------------
(* Why TurnHearsAll holds: every notification of the turn has been fed, is *)
(* in the queue, on its way or given up, and these are in their order.     *)

PlacesIn(s) == {s[i].place : i \in {i \in 1..Len(s) : s[i].type = "note"}}
Rising(s) ==
    \A i, j \in 1..Len(s) : i < j /\ s[i].type = "note" /\ s[j].type = "note" => s[i].place < s[j].place

Queue == IF thread \in Threads THEN queues[thread] ELSE <<>>
Heard == Range(heard)
GivenUp == {m.place : m \in {m \in skipped : m.type = "note"}}

\* Of the turn whose notifications still count.
Hearing == stage = "reading" \/ (Calling /\ call.method = "turn")

TurnsOf(s, t) == \A i \in 1..Len(s) : s[i].method = "turn" => s[i].thread = t
NotesOf(s, t) == \A i \in 1..Len(s) : s[i].type = "note" => s[i].thread = t

OwnThread ==
    /\ running \in {0, thread} /\ TurnsOf(stdin, thread) /\ NotesOf(stdout, thread)
    /\ \A m \in skipped : m.type = "note" => m.thread = thread

PlacesInOrder ==
    /\ \A i, j \in 1..Len(heard) : i < j => heard[i] < heard[j]
    /\ Rising(Queue) /\ Rising(stdout)
    /\ \A h \in Heard, q \in PlacesIn(Queue) : h < q
    /\ \A h \in Heard, o \in PlacesIn(stdout) : h < o
    /\ \A q \in PlacesIn(Queue), o \in PlacesIn(stdout) : q < o
    /\ GivenUp \cap (Heard \cup PlacesIn(Queue) \cup PlacesIn(stdout)) = {}

NoneMissing ==
    /\ Heard \cup PlacesIn(Queue) \cup PlacesIn(stdout) \cup GivenUp \subseteq 1..said
    /\ \A h \in Heard : 1..h \subseteq Heard \cup GivenUp
    /\ Hearing => \A q \in PlacesIn(Queue) : 1..q \subseteq Heard \cup PlacesIn(Queue) \cup GivenUp
    /\ Hearing /\ reader = "on" /\ ~Told(thread) =>
           1..said \subseteq Heard \cup PlacesIn(Queue) \cup PlacesIn(stdout) \cup GivenUp
    /\ Fresh => said = 0

HearInv ==
    /\ reader # "on" => stdout = <<>>
    /\ stage = "over" => heard = <<>>
    /\ stage # "over" => OwnThread /\ PlacesInOrder /\ NoneMissing

=============================================================================
