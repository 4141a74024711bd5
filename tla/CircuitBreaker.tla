---------------------------- MODULE CircuitBreaker ----------------------------
(***************************************************************************)
(* The circuit breaker of CacheService and the calls it guards.            *)
(*                                                                         *)
(* A lookup asks the breaker once and then makes up to two storage calls   *)
(* around an embedding; the store of the answer asks it again.  Calls that *)
(* began before the breaker opened end after it did.  Invalidations call   *)
(* the same storage without asking.                                        *)
(*                                                                         *)
(* Abstractions.  The clock is a count of ticks, kept as the time since    *)
(* the breaker was last armed and no further than the cooldown.  The       *)
(* failure count is kept no further than the threshold: nothing tells      *)
(* larger counts apart.                                                    *)
(***************************************************************************)
EXTENDS Integers

CONSTANTS
    Requests,       \* questions in progress
    Changes,        \* uploads and deletions that invalidate
    Threshold,      \* cache_circuit_breaker_failures
    Cooldown        \* cache_circuit_breaker_cooldown_seconds, in ticks

ASSUME ThresholdAssumption == Threshold \in Nat \ {0}
ASSUME CooldownAssumption == Cooldown \in Nat \ {0}

VARIABLES
    failures,       \* _failures
    open,           \* _opened_at is not None
    age,            \* time since _opened_at, while open
    pc,             \* where each request stands
    degraded,       \* the lookup of a request did not succeed
    wpc,            \* whether a change is calling the storage
    storeDown, embedderDown,    \* health of the services called
    everDown,       \* history: the storage has been down
    quiet,          \* history: time since a storage failure was last recorded
    probes          \* history: requests let through the open breaker

breaker == <<failures, open, age>>
health  == <<storeDown, embedderDown, everDown>>
vars == <<breaker, pc, degraded, wpc, health, quiet, probes>>

Init ==
    /\ failures = 0 /\ open = FALSE /\ age = 0
    /\ pc = [r \in Requests |-> "idle"]
    /\ degraded = [r \in Requests |-> FALSE]
    /\ wpc = [c \in Changes |-> "idle"]
    /\ storeDown \in BOOLEAN /\ embedderDown \in BOOLEAN
    /\ everDown = storeDown
    /\ quiet = 0
    /\ probes = {}

-----------------------------------------------------------------------------
(* The breaker.                                                            *)

\* Mutant: the cooldown is over one tick early.
AllowsEarly == ~open \/ age + 1 >= Cooldown

Allows == ~open \/ age >= Cooldown

\* Mutant: a success of the probe clears the count but leaves the breaker open.
RecordSuccessKeepsOpen == failures' = 0 /\ UNCHANGED <<open, age>>

RecordSuccess == failures' = 0 /\ open' = FALSE /\ age' = 0

\* Mutant: the count starts over with every failure.
RecordFailureForgets ==
    /\ failures' = 1
    /\ open' = (open \/ 1 >= Threshold)
    /\ age' = 0

\* Opens at the threshold; while open, the cooldown starts over.
RecordFailure ==
    /\ failures' = IF failures < Threshold THEN failures + 1 ELSE failures
    /\ open' = (open \/ failures + 1 >= Threshold)
    /\ age' = 0

\* A storage call that returned, or that failed or timed out, at request r.
Succeeds == ~storeDown /\ RecordSuccess /\ UNCHANGED quiet
Fails == storeDown /\ RecordFailure /\ quiet' = 0

-----------------------------------------------------------------------------
(* Requests.                                                               *)

Go(r, from, to) == pc[r] = from /\ pc' = [pc EXCEPT ![r] = to]

Admitted(r) == probes' = IF open THEN probes \cup {r} ELSE probes
Ended(r) == probes' = probes \ {r}

\* The breaker lets the lookup call the storage.
Lookup(r) ==
    /\ Go(r, "idle", "exact")
    /\ Allows
    /\ Admitted(r)
    /\ degraded' = [degraded EXCEPT ![r] = FALSE]
    /\ UNCHANGED <<breaker, wpc, health, quiet>>

\* The breaker does not: a degraded miss.
LookupSkipped(r) ==
    /\ Go(r, "idle", "answer")
    /\ ~Allows
    /\ degraded' = [degraded EXCEPT ![r] = TRUE]
    /\ UNCHANGED <<breaker, wpc, health, quiet, probes>>

\* An exact hit, or no candidates to compare with: the lookup is over.  The
\* registry, asked about a hit, has no part in this.
ExactDecides(r) ==
    /\ Go(r, "exact", "answer")
    /\ Succeeds
    /\ Ended(r)
    /\ UNCHANGED <<degraded, wpc, health>>

\* There are candidates: the question is embedded.
ExactMisses(r) ==
    /\ Go(r, "exact", "embed")
    /\ ~storeDown
    /\ UNCHANGED <<breaker, degraded, wpc, health, quiet, probes>>

Embed(r) ==
    /\ Go(r, "embed", "near") \/ Go(r, "embedLate", "store")
    /\ ~embedderDown
    /\ UNCHANGED <<breaker, degraded, wpc, health, quiet, probes>>

\* Mutant: a failure of the embedder counts.
EmbedFailsCounted(r) ==
    /\ Go(r, "embed", "answer") \/ Go(r, "embedLate", "idle")
    /\ embedderDown
    /\ degraded' = [degraded EXCEPT ![r] = TRUE]
    /\ RecordFailure /\ quiet' = 0
    /\ Ended(r)
    /\ UNCHANGED <<wpc, health>>

\* The embedder fails: neither a success nor a failure of the storage.
EmbedFails(r) ==
    /\ Go(r, "embed", "answer") \/ Go(r, "embedLate", "idle")
    /\ embedderDown
    /\ degraded' = [degraded EXCEPT ![r] = TRUE]
    /\ Ended(r)
    /\ UNCHANGED <<breaker, wpc, health, quiet>>

NearDecides(r) ==
    /\ Go(r, "near", "answer")
    /\ Succeeds
    /\ Ended(r)
    /\ UNCHANGED <<degraded, wpc, health>>

LookupFails(r) ==
    /\ Go(r, "exact", "answer") \/ Go(r, "near", "answer")
    /\ Fails
    /\ degraded' = [degraded EXCEPT ![r] = TRUE]
    /\ Ended(r)
    /\ UNCHANGED <<wpc, health>>

\* A hit, or a failed generation: nothing to store.
NothingToStore(r) ==
    /\ Go(r, "answer", "idle")
    /\ ~degraded[r]
    /\ UNCHANGED <<breaker, degraded, wpc, health, quiet, probes>>

\* The answer is stored; the question may have to be embedded first.
StoreBegins(r) ==
    /\ ~degraded[r] /\ Allows
    /\ Go(r, "answer", "store") \/ Go(r, "answer", "embedLate")
    /\ Admitted(r)
    /\ UNCHANGED <<breaker, degraded, wpc, health, quiet>>

StoreSkipped(r) ==
    /\ degraded[r] \/ ~Allows
    /\ Go(r, "answer", "idle")
    /\ UNCHANGED <<breaker, degraded, wpc, health, quiet, probes>>

StoreReturns(r) ==
    /\ Go(r, "store", "idle")
    /\ Succeeds \/ Fails
    /\ Ended(r)
    /\ UNCHANGED <<degraded, wpc, health>>

-----------------------------------------------------------------------------
(* Invalidations, time and the health of the services.                     *)

\* _invalidate neither asks the breaker nor reports to it.
Invalidate(c) ==
    /\ wpc[c] = "idle" /\ wpc' = [wpc EXCEPT ![c] = "call"]
    /\ UNCHANGED <<breaker, pc, degraded, health, quiet, probes>>

InvalidateReturns(c) ==
    /\ wpc[c] = "call" /\ wpc' = [wpc EXCEPT ![c] = "idle"]
    /\ UNCHANGED <<breaker, pc, degraded, health, quiet, probes>>

Tick ==
    /\ age' = IF open /\ age < Cooldown THEN age + 1 ELSE age
    /\ quiet' = IF quiet < Cooldown THEN quiet + 1 ELSE quiet
    /\ UNCHANGED <<failures, open, pc, degraded, wpc, health, probes>>

StoreChanges ==
    /\ storeDown' = ~storeDown
    /\ everDown' = (everDown \/ storeDown')
    /\ UNCHANGED <<breaker, pc, degraded, wpc, embedderDown, quiet, probes>>

EmbedderChanges ==
    /\ embedderDown' = ~embedderDown
    /\ UNCHANGED <<breaker, pc, degraded, wpc, storeDown, everDown, quiet, probes>>

-----------------------------------------------------------------------------
Begin(r) == Lookup(r) \/ LookupSkipped(r)

Continue(r) ==
    \/ ExactDecides(r) \/ ExactMisses(r) \/ NearDecides(r) \/ LookupFails(r)
    \/ Embed(r) \/ EmbedFails(r)
    \/ NothingToStore(r) \/ StoreBegins(r) \/ StoreSkipped(r) \/ StoreReturns(r)

Next ==
    \/ \E r \in Requests : Begin(r) \/ Continue(r)
    \/ \E c \in Changes : Invalidate(c) \/ InvalidateReturns(c)
    \/ Tick \/ StoreChanges \/ EmbedderChanges

Spec == Init /\ [][Next]_vars

\* Calls end, by their timeout at the latest, and time passes.
FairSpec == Spec /\ WF_vars(Tick) /\ \A r \in Requests : WF_vars(Continue(r))

-----------------------------------------------------------------------------
(* Properties.                                                             *)

Guarded == {"exact", "embed", "near", "embedLate", "store"}

\* The shape of the breaker and of the requests.
TypeOK ==
    /\ failures \in 0..Threshold /\ open \in BOOLEAN /\ age \in 0..Cooldown
    /\ pc \in [Requests -> Guarded \cup {"idle", "answer"}]
    /\ degraded \in [Requests -> BOOLEAN]
    /\ wpc \in [Changes -> {"idle", "call"}]
    /\ storeDown \in BOOLEAN /\ embedderDown \in BOOLEAN /\ everDown \in BOOLEAN
    /\ quiet \in 0..Cooldown /\ probes \subseteq Requests

\* The breaker counts failures of the storage only: as long as the storage has been
\* healthy, nothing that goes wrong around it has opened the breaker.
OnlyStorageOpens == open => everDown

\* Why: the breaker has counted no failure as long as the storage was healthy.
CountInv ==
    /\ ~everDown => failures = 0 /\ ~open /\ ~storeDown
    /\ open => failures = Threshold

\* While the breaker is open a request is let through only when no storage failure
\* has been recorded for a whole cooldown, failures of late calls included.
ProbesAreSpaced ==
    [][\A r \in Requests :
          pc[r] \notin Guarded /\ pc'[r] \in Guarded => ~open \/ quiet = Cooldown]_vars

\* Why: the cooldown runs from the last recorded failure.
ArmedInv == open => age = quiet

\* The inductive invariant of the breaker.
IInv == TypeOK /\ CountInv /\ ArmedInv

Traffic == []<><<\E r \in Requests : Begin(r)>>_vars

\* Recovery takes no restart: once storage and embedder stay healthy, and questions
\* keep coming, the breaker closes for good.
Recovers == <>[](~storeDown /\ ~embedderDown) /\ Traffic => <>[](~open)

\* A storage that stays down ends up behind the open breaker for good.
DeadStoreIsLeftAlone == <>[]storeDown /\ Traffic => <>[]open

=============================================================================
