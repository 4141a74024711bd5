------------------------- MODULE CircuitBreakerProofs -------------------------
(***************************************************************************)
(* Theorems about CircuitBreaker for any number of requests and any        *)
(* threshold and cooldown.                                                 *)
(***************************************************************************)
EXTENDS CircuitBreaker, TLAPS

USE ThresholdAssumption, CooldownAssumption
USE DEF breaker, health, Guarded

\* The closed breaker of a first start.
LEMMA InitInv == Init => IInv
<1> SUFFICES ASSUME Init PROVE IInv
  OBVIOUS
<1>1. TypeOK
  <2>1. storeDown \in BOOLEAN /\ embedderDown \in BOOLEAN /\ everDown \in BOOLEAN /\ open \in BOOLEAN
    BY Zenon DEF Init
  <2>2. failures = 0 /\ age = 0 /\ quiet = 0
    BY DEF Init
  <2>3. /\ pc \in [Requests -> Guarded \cup {"idle", "answer"}] /\ probes \subseteq Requests
        /\ degraded \in [Requests -> BOOLEAN] /\ wpc \in [Changes -> {"idle", "call"}]
    BY DEF Init
  <2> QED BY <2>1, <2>2, <2>3 DEF TypeOK
<1>2. CountInv
  <2>1. failures = 0 /\ ~open
    BY DEF Init
  <2>2. ~everDown => ~storeDown
    BY DEF Init
  <2> QED BY <2>1, <2>2 DEF CountInv
<1>3. ArmedInv
  BY DEF Init, ArmedInv
<1> QED BY <1>1, <1>2, <1>3 DEF IInv

\* A storage call that ends keeps the invariant of the breaker.
LEMMA OutcomeInv ==
  ASSUME IInv, Succeeds \/ Fails, UNCHANGED health
  PROVE  /\ failures' \in 0..Threshold /\ open' \in BOOLEAN /\ age' \in 0..Cooldown
         /\ quiet' \in 0..Cooldown /\ CountInv' /\ ArmedInv'
<1>1. CASE Succeeds
  <2>1. failures' = 0 /\ ~open' /\ open' \in BOOLEAN /\ age' = 0 /\ quiet' = quiet
    BY <1>1 DEF Succeeds, RecordSuccess
  <2>2. ~everDown' => ~storeDown'
    BY DEF IInv, CountInv
  <2> QED BY <2>1, <2>2 DEF IInv, TypeOK, CountInv, ArmedInv
<1>2. CASE Fails
  BY <1>2 DEF IInv, TypeOK, CountInv, ArmedInv, Fails, RecordFailure
<1> QED BY <1>1, <1>2

\* Every step of a request keeps the invariant.
LEMMA RequestInv ==
  ASSUME IInv, NEW r \in Requests, Begin(r) \/ Continue(r)
  PROVE  IInv'
<1> USE DEF IInv, TypeOK, Go, Admitted, Ended
<1>1. ASSUME UNCHANGED <<breaker, wpc, health, quiet>>,
             pc' \in [Requests -> Guarded \cup {"idle", "answer"}],
             degraded' \in [Requests -> BOOLEAN], probes' \subseteq Requests
      PROVE  IInv'
  BY <1>1 DEF CountInv, ArmedInv
<1>2. ASSUME Succeeds \/ Fails, UNCHANGED <<wpc, health>>,
             pc' \in [Requests -> Guarded \cup {"idle", "answer"}],
             degraded' \in [Requests -> BOOLEAN], probes' \subseteq Requests
      PROVE  IInv'
  BY <1>2, OutcomeInv
<1>3. CASE Lookup(r) \/ LookupSkipped(r)
  BY <1>1, <1>3 DEF Lookup, LookupSkipped
<1>4. CASE ExactDecides(r)
  BY <1>2, <1>4 DEF ExactDecides
<1>5. CASE ExactMisses(r) \/ Embed(r) \/ EmbedFails(r)
  BY <1>1, <1>5 DEF ExactMisses, Embed, EmbedFails
<1>6. CASE NearDecides(r)
  BY <1>2, <1>6 DEF NearDecides
<1>7. CASE LookupFails(r)
  BY <1>2, <1>7 DEF LookupFails
<1>8. CASE NothingToStore(r) \/ StoreBegins(r) \/ StoreSkipped(r)
  BY <1>1, <1>8 DEF NothingToStore, StoreBegins, StoreSkipped
<1>9. CASE StoreReturns(r)
  BY <1>2, <1>9 DEF StoreReturns
<1> QED
  BY <1>3, <1>4, <1>5, <1>6, <1>7, <1>8, <1>9 DEF Begin, Continue

\* Every step keeps the invariant.
LEMMA StepInv == IInv /\ [Next]_vars => IInv'
<1> SUFFICES ASSUME IInv, [Next]_vars PROVE IInv'
  OBVIOUS
<1> USE DEF IInv, TypeOK, CountInv, ArmedInv
<1>1. ASSUME NEW r \in Requests, Begin(r) \/ Continue(r) PROVE IInv'
  BY <1>1, RequestInv
<1>2. ASSUME NEW c \in Changes, Invalidate(c) \/ InvalidateReturns(c) PROVE IInv'
  BY <1>2 DEF Invalidate, InvalidateReturns
<1>3. CASE Tick
  BY <1>3 DEF Tick
<1>4. CASE StoreChanges
  BY <1>4 DEF StoreChanges
<1>5. CASE EmbedderChanges
  BY <1>5 DEF EmbedderChanges
<1>6. CASE UNCHANGED vars
  BY <1>6 DEF vars
<1> QED BY <1>1, <1>2, <1>3, <1>4, <1>5, <1>6 DEF Next

-----------------------------------------------------------------------------
\* The invariant of the breaker holds of every behaviour, whatever order late calls
\* end in.
THEOREM BreakerInvariant == Spec => []IInv
  BY InitInv, StepInv, PTL DEF Spec

\* Failures of the embedder never open the breaker.
THEOREM OnlyStorage == Spec => []OnlyStorageOpens
<1>1. IInv => OnlyStorageOpens
  BY DEF IInv, CountInv, OnlyStorageOpens
<1> QED BY <1>1, BreakerInvariant, PTL

\* Through the open breaker requests pass only a whole cooldown after the last
\* storage failure was recorded.
THEOREM SpacedProbes == Spec => ProbesAreSpaced
<1>1. ASSUME IInv, [Next]_vars, NEW r \in Requests, pc[r] \notin Guarded, pc'[r] \in Guarded
      PROVE  ~open \/ quiet = Cooldown
  <2>1. Lookup(r) \/ StoreBegins(r)
    BY <1>1 DEF vars, IInv, TypeOK, Go, Next, Begin, Continue, Lookup, LookupSkipped, ExactDecides,
                ExactMisses, NearDecides, LookupFails, Embed, EmbedFails, NothingToStore,
                StoreBegins, StoreSkipped, StoreReturns, Invalidate, InvalidateReturns,
                Tick, StoreChanges, EmbedderChanges
  <2> QED BY <1>1, <2>1 DEF IInv, TypeOK, ArmedInv, Lookup, StoreBegins, Allows
<1>2. IInv /\ [Next]_vars =>
        [\A r \in Requests :
           pc[r] \notin Guarded /\ pc'[r] \in Guarded => ~open \/ quiet = Cooldown]_vars
  BY <1>1
<1> QED BY <1>2, BreakerInvariant, PTL DEF Spec, ProbesAreSpaced

=============================================================================
