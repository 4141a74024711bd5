------------------------------ MODULE SessionPool ------------------------------
(***************************************************************************)
(* The pool of generator sessions and the turns run on them: every         *)
(* CodexAnswerGenerator.generate borrows a session, runs one turn on it    *)
(* and settles whether the session goes back or is thrown away, while      *)
(* sessions die, requests are cancelled or time out, and the pool is       *)
(* closed at shutdown.                                                     *)
(*                                                                         *)
(* close() sends SIGTERM before its first await and then waits for the     *)
(* process to end.  The settling of a session is shielded from             *)
(* cancellation, so that its close runs to the end; the close of a failed  *)
(* start and of a session found dead is not: a cancellation cuts the wait  *)
(* and leaves a process behind that has its SIGTERM and nothing more.      *)
(*                                                                         *)
(* Abstractions.  A session is its process.  Deltas are left out: of the   *)
(* messages of a turn only its completion matters here.  A cancelled       *)
(* request settles in a task of its own (_shielded), which is the request  *)
(* itself here.  The name of a process that is down and forgotten is used  *)
(* again.  aclose itself is not cancelled.                                 *)
(***************************************************************************)
EXTENDS Integers, FiniteSets

CONSTANTS
    Requests,       \* calls of generate in progress
    Sessions,       \* names for sessions
    Size,           \* qa_concurrency: sessions lent at the same time
    MaxLeft,        \* bound: processes left behind by a cut close at a time
    NoSession       \* a request that has no session in hand

ASSUME RequestsAssumption == IsFiniteSet(Requests)
ASSUME SizeAssumption == Size \in Nat \ {0}
ASSUME NoSessionAssumption == NoSession \notin Sessions

VARIABLES
    slots,          \* free places of the semaphore
    idle, live,     \* sessions given back; sessions the pool knows of
    shutdown,       \* "no", "closing" once aclose began, "closed" when it returned
    proc,           \* process of each session: "down", "starting", "up", "mute" (it
                    \* closed its output and runs on) or "closing" (it has its SIGTERM)
    turn,           \* turn of each session at its server: none, running or over
    pc,             \* where each request stands
    hand,           \* the session a request has in hand
    ending,         \* processes aclose waits for
    left            \* history: processes nobody waits for, their close having been cut

pool == <<slots, idle, live, shutdown>>
closes == <<ending, left>>
vars == <<pool, proc, turn, pc, hand, closes>>

Init ==
    /\ slots = Size
    /\ idle = {} /\ live = {} /\ shutdown = "no"
    /\ proc = [s \in Sessions |-> "down"]
    /\ turn = [s \in Sessions |-> "none"]
    /\ pc = [r \in Requests |-> "out"]
    /\ hand = [r \in Requests |-> NoSession]
    /\ ending = {} /\ left = {}

-----------------------------------------------------------------------------
Go(r, from, to) == pc[r] = from /\ pc' = [pc EXCEPT ![r] = to]

\* AppServerSession.alive
Alive(s) == proc[s] = "up"

Hold(r, s) == hand' = [hand EXCEPT ![r] = s]
\* The first step of close(): SIGTERM to a process that still runs.
Terminate(s) == proc' = [proc EXCEPT ![s] = IF @ = "down" THEN "down" ELSE "closing"]

\* The place goes back and the request is done with its session.
Leave(r) ==
    /\ slots' = slots + 1
    /\ Hold(r, NoSession)

-----------------------------------------------------------------------------
(* SessionPool.acquire                                                     *)

\* A closed pool turns requests away.
Ask(r) ==
    /\ Go(r, "out", "wait")
    /\ shutdown = "no"
    /\ UNCHANGED <<pool, proc, turn, hand, closes>>

Take(r) ==
    /\ Go(r, "wait", "pick")
    /\ slots > 0 /\ slots' = slots - 1
    /\ UNCHANGED <<idle, live, shutdown, proc, turn, hand, closes>>

PickIdle(r, s) ==
    /\ Go(r, "pick", "thread")
    /\ s \in idle /\ Alive(s)
    /\ idle' = idle \ {s}
    /\ Hold(r, s)
    /\ UNCHANGED <<slots, live, shutdown, proc, turn, closes>>

\* A session that died while idle is closed before the next is looked at.
PickDead(r, s) ==
    /\ Go(r, "pick", "reap")
    /\ s \in idle /\ ~Alive(s)
    /\ idle' = idle \ {s} /\ live' = live \ {s}
    /\ Hold(r, s) /\ Terminate(s)
    /\ UNCHANGED <<slots, shutdown, turn, closes>>

Reaped(r) ==
    /\ Go(r, "reap", "pick")
    /\ proc[hand[r]] = "down"
    /\ Hold(r, NoSession)
    /\ UNCHANGED <<pool, proc, turn, closes>>

\* Mutant: a new process is started although another is idle.
PickNewAlways(r, s) ==
    /\ Go(r, "pick", "start")
    /\ proc[s] = "down" /\ s \notin idle \cup live /\ \A q \in Requests : hand[q] # s
    /\ proc' = [proc EXCEPT ![s] = "starting"]
    /\ turn' = [turn EXCEPT ![s] = "none"]
    /\ Hold(r, s)
    /\ UNCHANGED <<pool, closes>>

\* Nothing is idle: a process is started.
PickNew(r, s) ==
    /\ Go(r, "pick", "start")
    /\ idle = {}
    /\ proc[s] = "down" /\ s \notin live /\ \A q \in Requests : hand[q] # s
    /\ proc' = [proc EXCEPT ![s] = "starting"]
    /\ turn' = [turn EXCEPT ![s] = "none"]
    /\ Hold(r, s)
    /\ UNCHANGED <<pool, closes>>

\* The handshake is done.  Whether the pool was closed meanwhile is not asked.
Started(r) ==
    /\ Go(r, "start", "thread")
    /\ proc' = [proc EXCEPT ![hand[r]] = "up"]
    /\ live' = live \cup {hand[r]}
    /\ UNCHANGED <<slots, idle, shutdown, turn, hand, closes>>

\* The program cannot be run: there is no process to close.
CannotRun(r) ==
    /\ Go(r, "start", "out")
    /\ proc' = [proc EXCEPT ![hand[r]] = "down"]
    /\ Leave(r)
    /\ UNCHANGED <<idle, live, shutdown, turn, closes>>

\* The handshake fails or times out, or the request is cancelled: start closes the
\* session it has not returned yet.
StartFails(r) ==
    /\ Go(r, "start", "undo")
    /\ Terminate(hand[r])
    /\ UNCHANGED <<pool, turn, hand, closes>>

\* Mutant: the place is not given back when the process does not start.
StartUndoneKeepsSlot(r) ==
    /\ Go(r, "undo", "out")
    /\ proc[hand[r]] = "down"
    /\ Hold(r, NoSession)
    /\ UNCHANGED <<pool, proc, turn, closes>>

\* The process of the failed start has ended; acquire gives up its place.
StartUndone(r) ==
    /\ Go(r, "undo", "out")
    /\ proc[hand[r]] = "down"
    /\ Leave(r)
    /\ UNCHANGED <<idle, live, shutdown, proc, turn, closes>>

\* A cancellation cuts the wait within close(): the place is given up all the same,
\* and if the process has not ended nobody waits for it any more.
CutClose(r) ==
    /\ Go(r, "undo", "out") \/ Go(r, "reap", "out")
    /\ Cardinality(left) < MaxLeft
    /\ left' = IF proc[hand[r]] = "down" THEN left ELSE left \cup {hand[r]}
    /\ Leave(r)
    /\ UNCHANGED <<idle, live, shutdown, proc, turn, ending>>

\* Cancelled while waiting for a place.
GiveUp(r) ==
    /\ Go(r, "wait", "out")
    /\ UNCHANGED <<pool, proc, turn, hand, closes>>

-----------------------------------------------------------------------------
(* CodexAnswerGenerator.generate: a thread, a turn, its messages.          *)

ThreadStarted(r) ==
    /\ Go(r, "thread", "turn")
    /\ Alive(hand[r])
    /\ turn' = [turn EXCEPT ![hand[r]] = "none"]
    /\ UNCHANGED <<pool, proc, hand, closes>>

\* The server takes up turn/start, which may have been given up meanwhile.
ServerStarts(r) ==
    /\ pc[r] \in {"turn", "interrupt"}
    /\ Alive(hand[r]) /\ turn[hand[r]] = "none"
    /\ turn' = [turn EXCEPT ![hand[r]] = "running"]
    /\ UNCHANGED <<pool, proc, pc, hand, closes>>

ServerEnds(s) ==
    /\ Alive(s) /\ turn[s] = "running"
    /\ turn' = [turn EXCEPT ![s] = "over"]
    /\ UNCHANGED <<pool, proc, pc, hand, closes>>

TurnStarted(r) ==
    /\ Go(r, "turn", "read")
    /\ turn[hand[r]] # "none"
    /\ UNCHANGED <<pool, proc, turn, hand, closes>>

\* turn/completed has been read.
Completed(r) ==
    /\ Go(r, "read", "giveBack")
    /\ turn[hand[r]] = "over"
    /\ UNCHANGED <<pool, proc, turn, hand, closes>>

\* The session died, an error was reported, the time is up or the request is
\* cancelled: a turn that may be under way has to be interrupted.
Fails(r) ==
    /\ Go(r, "thread", "throwAway") \/ Go(r, "turn", "interrupt") \/ Go(r, "read", "interrupt")
    /\ UNCHANGED <<pool, proc, turn, hand, closes>>

-----------------------------------------------------------------------------
(* _settle, with SessionPool.release and discard.                          *)

\* Mutant: the answer to turn/interrupt is taken for the end of the turn.
InterruptAtOnce(r) ==
    /\ Go(r, "interrupt", "giveBack")
    /\ Alive(hand[r])
    /\ UNCHANGED <<pool, proc, turn, hand, closes>>

\* turn/completed arrives within the grace.
Interrupted(r) ==
    /\ Go(r, "interrupt", "giveBack")
    /\ turn[hand[r]] = "over"
    /\ UNCHANGED <<pool, proc, turn, hand, closes>>

\* It does not, or the session is dead.
NotInterrupted(r) ==
    /\ Go(r, "interrupt", "throwAway")
    /\ UNCHANGED <<pool, proc, turn, hand, closes>>

\* Mutant: whether the pool was closed is not asked.
ReleaseClosed(r) ==
    /\ Go(r, "giveBack", "out")
    /\ Alive(hand[r])
    /\ idle' = idle \cup {hand[r]}
    /\ Leave(r)
    /\ UNCHANGED <<live, shutdown, proc, turn, closes>>

Release(r) ==
    /\ Go(r, "giveBack", "out")
    /\ shutdown = "no" /\ Alive(hand[r])
    /\ idle' = idle \cup {hand[r]}
    /\ Leave(r)
    /\ UNCHANGED <<live, shutdown, proc, turn, closes>>

\* Mutant: the session is forgotten but its process is left running.
DiscardForgets(r) ==
    /\ \/ Go(r, "throwAway", "close")
       \/ Go(r, "giveBack", "close") /\ (shutdown # "no" \/ ~Alive(hand[r]))
    /\ live' = live \ {hand[r]}
    /\ UNCHANGED <<slots, idle, shutdown, proc, turn, hand, closes>>

Discard(r) ==
    /\ \/ Go(r, "throwAway", "close")
       \/ Go(r, "giveBack", "close") /\ (shutdown # "no" \/ ~Alive(hand[r]))
    /\ live' = live \ {hand[r]}
    /\ Terminate(hand[r])
    /\ UNCHANGED <<slots, idle, shutdown, turn, hand, closes>>

\* The process has ended and the place goes back.
Discarded(r) ==
    /\ Go(r, "close", "out")
    /\ proc[hand[r]] = "down"
    /\ Leave(r)
    /\ UNCHANGED <<idle, live, shutdown, proc, turn, closes>>

-----------------------------------------------------------------------------
(* Death and shutdown.                                                     *)

\* A session dies: its output ends, with its process or before it.
Die(s) ==
    /\ \E p \in {"down", "mute"} :
          /\ proc[s] = "up" \/ (proc[s] = "mute" /\ p = "down")
          /\ proc' = [proc EXCEPT ![s] = p]
    /\ UNCHANGED <<pool, turn, pc, hand, closes>>

\* A process ends of the SIGTERM it has, or of the SIGKILL close() sends after a grace.
ProcessEnds(s) ==
    /\ proc[s] = "closing" /\ proc' = [proc EXCEPT ![s] = "down"]
    /\ ending' = ending \ {s} /\ left' = left \ {s}
    /\ UNCHANGED <<pool, turn, pc, hand>>

\* aclose closes what is in live: not a session that is being started.
Close ==
    /\ shutdown = "no" /\ shutdown' = "closing"
    /\ ending' = {s \in live : proc[s] # "down"}
    /\ proc' = [s \in Sessions |-> IF s \in ending' THEN "closing" ELSE proc[s]]
    /\ idle' = {} /\ live' = {}
    /\ UNCHANGED <<slots, turn, pc, hand, left>>

\* It returns when all of them have ended.
Closed ==
    /\ shutdown = "closing" /\ shutdown' = "closed"
    /\ ending = {}
    /\ UNCHANGED <<slots, idle, live, proc, turn, pc, hand, closes>>

-----------------------------------------------------------------------------
\* What a request does by itself.
Continue(r) ==
    \/ \E s \in Sessions : PickIdle(r, s) \/ PickDead(r, s) \/ PickNew(r, s)
    \/ Reaped(r) \/ Started(r) \/ CannotRun(r) \/ StartFails(r) \/ StartUndone(r)
    \/ ThreadStarted(r) \/ TurnStarted(r) \/ Completed(r) \/ Fails(r)
    \/ Interrupted(r) \/ NotInterrupted(r)
    \/ Release(r) \/ Discard(r) \/ Discarded(r)

Next ==
    \/ \E r \in Requests :
          Ask(r) \/ Take(r) \/ GiveUp(r) \/ Continue(r) \/ CutClose(r) \/ ServerStarts(r)
    \/ \E s \in Sessions : ServerEnds(s) \/ Die(s) \/ ProcessEnds(s)
    \/ Close \/ Closed

Spec == Init /\ [][Next]_vars

\* A close that is not cut ends with its process: after the grace it sends SIGKILL.  One
\* that was cut sends nothing more, and its process may ignore the SIGTERM for ever.
EndAwaited(s) == s \notin left /\ ProcessEnds(s)

\* The start, the thread, the turn and the interrupt have time limits, and the semaphore
\* serves its waiters in order.  Without a limit are the yield of a piece of text, whose
\* consumer is taken to go on or to close the generator, and the write of turn/interrupt,
\* which is taken to end.
FairSpec ==
    /\ Spec
    /\ \A r \in Requests : WF_vars(Continue(r)) /\ SF_vars(Take(r))
    /\ \A s \in Sessions : WF_vars(EndAwaited(s))

-----------------------------------------------------------------------------
(* Properties.                                                             *)

Carrying == {"reap", "start", "undo", "thread", "turn", "read", "interrupt", "giveBack",
             "throwAway", "close"}
Holders == {r \in Requests : pc[r] \in Carrying \cup {"pick"}}
Carriers == {r \in Requests : pc[r] \in Carrying}

\* The shape of the pool, the sessions and the requests.
TypeOK ==
    /\ slots \in Nat /\ idle \subseteq Sessions /\ live \subseteq Sessions
    /\ shutdown \in {"no", "closing", "closed"}
    /\ proc \in [Sessions -> {"down", "starting", "up", "mute", "closing"}]
    /\ ending \subseteq Sessions /\ left \subseteq Sessions
    /\ turn \in [Sessions -> {"none", "running", "over"}]
    /\ pc \in [Requests -> Carrying \cup {"out", "wait", "pick"}]
    /\ hand \in [Requests -> Sessions \cup {NoSession}]

\* Places are neither lost nor invented: whatever fails, dies or is cancelled, the
\* free places and the requests past the semaphore make up the size of the pool.
SlotsConserved == slots + Cardinality(Holders) = Size

\* A session is lent to one request at a time, and is not idle meanwhile: two turns
\* on one session would mix their messages.
LentOnce ==
    /\ \A r \in Carriers : hand[r] \in Sessions /\ hand[r] \notin idle
    /\ \A q, r \in Carriers : q # r => hand[q] # hand[r]

\* A session that waits to be lent has no turn running: the next request would
\* get the text of the last one.
IdleIsQuiet == \A s \in idle : turn[s] # "running"

\* At most Size processes run, idle, starting and closing ones included, though idle
\* sessions occupy no place.  Not counted are the processes that end without a place:
\* those left behind when a cancellation cut their close, which the next request does not
\* wait for, and those aclose is ending.
ProcessesBounded ==
    Cardinality({s \in Sessions : proc[s] # "down"} \ (left \cup ending)) <= Size

\* No process is lost.  One that runs is known to the pool, which closes it at shutdown,
\* or is being started by a request.  One that has its SIGTERM is waited for by a request
\* or by aclose, unless a cancellation cut that wait: then it is left behind, but with
\* the SIGTERM.
NoOrphan ==
    \A s \in Sessions :
        /\ proc[s] \in {"up", "mute"} => s \in live
        /\ proc[s] = "starting" => \E r \in Requests : hand[r] = s /\ pc[r] = "start"
        /\ proc[s] = "closing" =>
              \/ s \in ending \cup left
              \/ \E r \in Requests : hand[r] = s /\ pc[r] \in {"undo", "reap", "close"}

\* What a request knows of the session in its hand: before release no turn runs on
\* it, a session being closed has its SIGTERM, and an open pool knows of it.
WorkInv ==
    \A r \in Requests :
        /\ pc[r] \notin Carrying => hand[r] = NoSession
        /\ pc[r] = "giveBack" => turn[hand[r]] # "running"
        /\ pc[r] = "start" => proc[hand[r]] = "starting"
        /\ pc[r] \in {"reap", "undo", "close"} => proc[hand[r]] \in {"closing", "down"}
        /\ pc[r] \in {"thread", "turn", "read", "interrupt", "giveBack", "throwAway"}
              => shutdown # "no" \/ hand[r] \in live

\* Idle sessions are known to the pool, which knows none before it has started and keeps
\* none idle once it is closed; a process is idle, in a request's hand or ending by itself.
PlaceInv ==
    /\ idle \subseteq live /\ \A s \in live : proc[s] \notin {"starting", "closing"}
    /\ shutdown # "no" => idle = {}
    /\ shutdown = "no" => ending = {}
    /\ \A s \in ending \cup left : proc[s] = "closing"
    /\ \A s \in Sessions :
          proc[s] # "down" => s \in idle \cup ending \cup left \/ \E r \in Carriers : hand[r] = s

\* Together idle sessions and sessions in hand do not exceed the size.
RoomInv == IsFiniteSet(idle) /\ Cardinality(idle) + Cardinality(Carriers) <= Size

\* The inductive invariant behind the properties above.
IInv ==
    /\ TypeOK /\ SlotsConserved /\ LentOnce /\ IdleIsQuiet /\ NoOrphan
    /\ WorkInv /\ PlaceInv /\ RoomInv

\* A request that waits for a place is served or gives up.
Served == \A r \in Requests : pc[r] = "wait" ~> pc[r] # "wait"

\* After the pool was closed no process survives the requests in progress, but for one that
\* ignores the SIGTERM of a close that was cut.
Drained == (shutdown # "no") ~> [](\A s \in Sessions : proc[s] = "down" \/ s \in left)

=============================================================================
