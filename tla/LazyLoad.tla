------------------------------- MODULE LazyLoad -------------------------------
(***************************************************************************)
(* What is expensive to make is made at the first use, by whichever worker *)
(* thread comes first: the models of the embedder, the reranker and the    *)
(* tokenizer, the collection of the vector store, the schemas of the two   *)
(* databases.  All six look, take a lock and look again.  The models are   *)
(* also loaded at the start of the service, which a failure does not stop. *)
(***************************************************************************)
EXTENDS Integers, FiniteSets

CONSTANTS
    Workers,        \* worker threads
    Nobody,         \* the holder of a free lock
    MaxAttempts     \* bound: loads begun

ASSUME LazyAssumption == Nobody \notin Workers /\ MaxAttempts \in Nat

VARIABLES
    instance,       \* _model: the number of the load that made it, 0 for None
    holder,         \* of _load_lock
    at,             \* where each thread stands in _ensure_model
    taken,          \* what it returned, 0 for nothing yet
    attempts,       \* history: loads begun
    serving         \* whether the service has started: before, only the warm-up runs

loading == <<instance, holder, at, taken, attempts, serving>>

LazyInit ==
    /\ instance = 0 /\ holder = Nobody
    /\ at = [t \in Workers |-> "out"]
    /\ taken = [t \in Workers |-> 0]
    /\ attempts = 0 /\ serving = FALSE

Move(t, from, to) == at[t] = from /\ at' = [at EXCEPT ![t] = to]

\* A thread comes; before the service has started it is that of warm_up.
Enter(t) ==
    /\ serving \/ \A u \in Workers : at[u] = "out"
    /\ Move(t, "out", "looking")
    /\ UNCHANGED <<instance, holder, taken, attempts, serving>>

\* The look without the lock.
LookFirst(t) ==
    /\ IF instance # 0 THEN Move(t, "looking", "returning") ELSE Move(t, "looking", "locking")
    /\ UNCHANGED <<instance, holder, taken, attempts, serving>>

TakeLock(t) ==
    /\ holder = Nobody /\ holder' = t
    /\ Move(t, "locking", "inside")
    /\ UNCHANGED <<instance, taken, attempts, serving>>

\* Mutant: whoever has got the lock loads.
LookAgainNot(t) ==
    /\ attempts < MaxAttempts /\ attempts' = attempts + 1
    /\ Move(t, "inside", "loading")
    /\ UNCHANGED <<instance, holder, taken, serving>>

\* The second look, with the lock.
LookAgain(t) ==
    /\ \/ /\ instance = 0 /\ attempts < MaxAttempts
          /\ Move(t, "inside", "loading")
          /\ attempts' = attempts + 1
       \/ /\ instance # 0
          /\ Move(t, "inside", "unlocking")
          /\ UNCHANGED attempts
    /\ UNCHANGED <<instance, holder, taken, serving>>

Loaded(t) ==
    /\ Move(t, "loading", "unlocking")
    /\ instance' = attempts
    /\ UNCHANGED <<holder, taken, attempts, serving>>

\* The exception leaves the block: the lock is free, the next caller tries again.
LoadFails(t) ==
    /\ Move(t, "loading", "out")
    /\ holder' = Nobody
    /\ UNCHANGED <<instance, taken, attempts, serving>>

Unlock(t) ==
    /\ Move(t, "unlocking", "returning")
    /\ holder' = Nobody
    /\ UNCHANGED <<instance, taken, attempts, serving>>

ReturnIt(t) ==
    /\ Move(t, "returning", "out")
    /\ taken' = [taken EXCEPT ![t] = instance]
    /\ UNCHANGED <<instance, holder, attempts, serving>>

\* The warm-up has ended, well or not, or there is none.
Serve ==
    /\ ~serving /\ \A t \in Workers : at[t] = "out"
    /\ serving' = TRUE
    /\ UNCHANGED <<instance, holder, at, taken, attempts>>

LazyNext ==
    \/ \E t \in Workers :
         Enter(t) \/ LookFirst(t) \/ TakeLock(t) \/ LookAgain(t) \/ Loaded(t) \/ LoadFails(t)
         \/ Unlock(t) \/ ReturnIt(t)
    \/ Serve

LazySpec == LazyInit /\ [][LazyNext]_loading

-----------------------------------------------------------------------------
Loading == {t \in Workers : at[t] = "loading"}

\* Nothing is loaded twice at a time, nor again once it is there; nobody is handed what is
\* not there, and all who were handed something have the same instance.
LoadedOnce ==
    /\ \A t \in Loading : instance = 0 /\ \A u \in Loading : u = t
    /\ \A t \in Workers : taken[t] \in {0, instance}
    /\ \A t \in Workers : at[t] = "returning" => instance # 0

\* Why: whoever is past the lock holds it, and the others have seen what it protects.
LazyType ==
    /\ instance \in Nat /\ attempts \in Nat
    /\ holder \in Workers \cup {Nobody}
    /\ at \in [Workers -> {"out", "looking", "locking", "inside", "loading", "unlocking", "returning"}]
    /\ taken \in [Workers -> Nat]
    /\ serving \in BOOLEAN

Behind(t) == at[t] \in {"inside", "loading", "unlocking"}

LazyInv ==
    /\ LazyType
    /\ \A t \in Workers : Behind(t) => holder = t
    /\ \A t \in Workers : at[t] = "loading" => instance = 0 /\ attempts > 0
    /\ \A t \in Workers : at[t] \in {"unlocking", "returning"} => instance # 0
    /\ \A t \in Workers : taken[t] \in {0, instance}

=============================================================================
