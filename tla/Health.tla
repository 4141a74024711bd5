-------------------------------- MODULE Health --------------------------------
(***************************************************************************)
(* One health check: services/health.py with the probes of                 *)
(* adapters/cache/probe.py and adapters/vector_store/probe.py, and the     *)
(* answer of api/routes/health.py.                                         *)
(*                                                                         *)
(* The probes run in parallel, each under a limit, all of them under       *)
(* another; config.py sets both and does not ask which is the longer.  A   *)
(* probe that is stopped at its limit may take its time to clean up (the   *)
(* client of the cache is closed), and nothing bounds that but the limit   *)
(* of all.                                                                 *)
(***************************************************************************)
EXTENDS Integers

CONSTANTS
    Probes,
    Limits,         \* settings: <<limit of a probe, limit of the check>>, in ticks
    MaxClock        \* bound: ticks

\* There is something to wait for: asyncio.wait takes no empty set.
ASSUME HealthAssumption ==
    /\ Limits \subseteq (Nat \ {0}) \X (Nat \ {0}) /\ MaxClock \in Nat
    /\ Probes # {} /\ "reply" \notin Probes

VARIABLES
    clock,          \* ticks since the check began
    limits,         \* the setting
    probe,          \* of each probe: "running", "stopping" or "done"
    result,         \* what it has to say then: "ok" or "unavailable"
    report,         \* what the check says of it: "none" before the reply
    answered        \* history: when a probe was done, and the check ("reply"), else -1

checking == <<clock, limits, probe, result, report, answered>>

ProbeLimit == limits[1]
TotalLimit == limits[2]

HealthInit ==
    /\ clock = 0 /\ limits \in Limits
    /\ probe = [p \in Probes |-> "running"]
    /\ result = [p \in Probes |-> "unavailable"]
    /\ report = [p \in Probes |-> "none"]
    /\ answered = [p \in Probes \cup {"reply"} |-> -1]

Ended(p, r) ==
    /\ probe' = [probe EXCEPT ![p] = "done"]
    /\ result' = [result EXCEPT ![p] = r]
    /\ answered' = [answered EXCEPT ![p] = clock]
    /\ UNCHANGED <<clock, limits, report>>

\* check of a probe returns its result; whatever it raises, also its own time-outs,
\* stands for "unavailable".
ProbeEnds(p) ==
    /\ probe[p] = "running"
    /\ \E r \in {"ok", "unavailable"} : Ended(p, r)

\* wait_for: the probe is cancelled at its limit, and waited for.
ProbeStopped(p) ==
    /\ probe[p] = "running" /\ clock >= ProbeLimit
    /\ probe' = [probe EXCEPT ![p] = "stopping"]
    /\ UNCHANGED <<clock, limits, result, report, answered>>

CleanedUp(p) ==
    /\ probe[p] = "stopping"
    /\ Ended(p, "unavailable")

\* Mutant: the check waits for all probes, whatever they do.
DueOnceAllEnded == \A p \in Probes : probe[p] = "done"

\* asyncio.wait returns.
Due == clock >= TotalLimit \/ \A p \in Probes : probe[p] = "done"

\* Those that are not done are cancelled and reported as unavailable.
ReplyHealth ==
    /\ answered["reply"] = -1 /\ Due
    /\ report' = [p \in Probes |-> IF probe[p] = "done" THEN result[p] ELSE "unavailable"]
    /\ answered' = [answered EXCEPT !["reply"] = clock]
    /\ UNCHANGED <<clock, limits, probe, result>>

\* Time does not pass over a limit that strikes, nor over a reply that is due.
ClockTicks ==
    /\ clock < MaxClock
    /\ \A p \in Probes : probe[p] = "running" => clock < ProbeLimit
    /\ answered["reply"] = -1 => ~Due
    /\ clock' = clock + 1
    /\ UNCHANGED <<limits, probe, result, report, answered>>

HealthNext ==
    \/ answered["reply"] = -1 /\ \E p \in Probes : ProbeEnds(p) \/ ProbeStopped(p) \/ CleanedUp(p)
    \/ ReplyHealth \/ ClockTicks

HealthSpec == HealthInit /\ [][HealthNext]_checking

-----------------------------------------------------------------------------
\* HTTP 200, else 503.
IsOk == \A p \in Probes : report[p] = "ok"

\* The check answers by its limit, and at once when the last probe is done.  It speaks of every
\* probe: one that was done before says what it found, whatever the others do, and one
\* that hangs is unavailable.
ReportIsRight ==
    LET replied == answered["reply"] IN
    IF replied = -1
    THEN clock <= TotalLimit
    ELSE /\ replied <= TotalLimit
         /\ replied < TotalLimit => \E p \in Probes : answered[p] = replied
         /\ \A p \in Probes :
                /\ answered[p] \in 0..(replied - 1) => report[p] = result[p]
                /\ answered[p] = -1 => report[p] = "unavailable"
         /\ IsOk <=> \A p \in Probes : answered[p] # -1 /\ result[p] = "ok"

\* Why: the clock stands when all are done, and nothing of a probe changes after the reply.
HealthType ==
    /\ clock \in Nat /\ limits \in Limits
    /\ probe \in [Probes -> {"running", "stopping", "done"}]
    /\ result \in [Probes -> {"ok", "unavailable"}]
    /\ report \in [Probes -> {"none", "ok", "unavailable"}]
    /\ answered \in [Probes \cup {"reply"} -> Nat \cup {-1}]

HealthInv ==
    /\ HealthType
    /\ \A p \in Probes : probe[p] = "done" <=> answered[p] # -1
    /\ answered["reply"] = -1 =>
           /\ clock <= TotalLimit
           /\ (\A p \in Probes : probe[p] = "done") => \E p \in Probes : answered[p] = clock
    /\ answered["reply"] # -1 =>
           /\ answered["reply"] <= TotalLimit
           /\ answered["reply"] < TotalLimit => \E p \in Probes : answered[p] = answered["reply"]
           /\ report = [p \in Probes |-> IF probe[p] = "done" THEN result[p] ELSE "unavailable"]

=============================================================================
