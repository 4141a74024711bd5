------------------------------ MODULE RedisCache ------------------------------
(***************************************************************************)
(* The Redis adapter of the response cache (RedisResponseCache): payloads  *)
(* with a time to live, and for every candidate set an order index, which  *)
(* decides what the bound on entries pushes out, and a vector set, which   *)
(* finds neighbours.  Neither index knows of the time to live.             *)
(*                                                                         *)
(* Abstractions.  Each step is one round trip; pipelines are transactions. *)
(* Payload and vector of an entry are written, expired and removed         *)
(* together and are one.  The tag sets that name the entries to forget are *)
(* modelled in AnswerCache: here any entries may be named.                 *)
(***************************************************************************)
EXTENDS Integers, FiniteSets

CONSTANTS
    Prints,         \* fingerprints
    Sets,           \* candidate sets
    SetOf,          \* the candidate set of a fingerprint: scope and polarity go with it
    Tasks,          \* callers
    MaxEntries,     \* cache_max_entries
    Candidates,     \* cache_semantic_candidates
    TTL,            \* cache_ttl_seconds, in steps of the clock
    MaxStores,      \* bound of the instance: stores
    NoSet

ASSUME SetOfAssumption == SetOf \in [Prints -> Sets]
ASSUME PrintsAssumption == IsFiniteSet(Prints)
ASSUME SetsAssumption == NoSet \notin Sets
ASSUME BoundsAssumption ==
    /\ MaxEntries \in Nat \ {0} /\ Candidates \in Nat \ {0}
    /\ TTL \in Nat \ {0} /\ MaxStores \in Nat

VARIABLES
    life,           \* time left of each payload, 0 if there is none
    index,          \* order of each fingerprint in the index of its set, 0 if it is not there
    vset,           \* fingerprints in the vector sets
    scopes, scopesLife,  \* the names of the candidate sets, and their time left
    seq,            \* the counter that orders entries
    pc, name, prints, num, known, \* of each caller: step, candidate set, fingerprints, number, sets
    raced,          \* fingerprints that one call changed between two steps of another
    cut             \* candidate sets whose last store did not push out what it should

redis == <<life, index, vset, scopes, scopesLife, seq>>
locals == <<name, prints, num, known>>
vars == <<redis, pc, locals, raced, cut>>

Live == {f \in Prints : life[f] > 0}
Of(n) == {f \in Prints : SetOf[f] = n}
Indexed(n) == {f \in Of(n) : index[f] > 0}

\* X are the k oldest of the index of n, or all of it.
AreOldest(X, n, k) ==
    /\ X \subseteq Indexed(n)
    /\ Cardinality(X) = (IF k < Cardinality(Indexed(n)) THEN k ELSE Cardinality(Indexed(n)))
    /\ \A f \in X, g \in Indexed(n) \ X : index[f] < index[g]

Init ==
    /\ life = [f \in Prints |-> 0] /\ index = [f \in Prints |-> 0]
    /\ vset = {} /\ scopes = {} /\ scopesLife = 0 /\ seq = 0
    /\ pc = [t \in Tasks |-> "idle"] /\ name = [t \in Tasks |-> NoSet]
    /\ prints = [t \in Tasks |-> {}] /\ num = [t \in Tasks |-> 0]
    /\ known = [t \in Tasks |-> {}]
    /\ raced = {} /\ cut = {}

Go(t, from, to) == pc[t] = from /\ pc' = [pc EXCEPT ![t] = to]

\* The locals of a call, forgotten when it is over.
Locals(t, n, X, k, N) ==
    /\ name' = [name EXCEPT ![t] = n] /\ prints' = [prints EXCEPT ![t] = X]
    /\ num' = [num EXCEPT ![t] = k] /\ known' = [known EXCEPT ![t] = N]
Forgotten(t) == Locals(t, NoSet, {}, 0, {})
Without(m, X) == [f \in Prints |-> IF f \in X THEN 0 ELSE m[f]]

-----------------------------------------------------------------------------
(* store                                                                   *)

Incr(t, f) ==
    /\ Go(t, "idle", "write")
    /\ seq < MaxStores /\ seq' = seq + 1
    /\ Locals(t, SetOf[f], {f}, seq + 1, {})
    /\ UNCHANGED <<life, index, vset, scopes, scopesLife, raced, cut>>

\* Mutant: the names keep the time they had.
TouchNot(n) ==
    /\ scopes' = scopes \cup {n}
    /\ scopesLife' = IF scopesLife = 0 THEN TTL ELSE scopesLife

\* The names of the candidate sets live as long as the entry just written.
Touch(n) == scopes' = scopes \cup {n} /\ scopesLife' = TTL

\* Mutant: the set is counted before the entry is in it.
ExcessBefore(t) == Cardinality(Indexed(name[t])) - MaxEntries

\* The set is counted with the new entry in it, which may have been there before.
Excess(t) == Cardinality(Indexed(name[t]) \cup prints[t]) - MaxEntries

\* One transaction writes the entry, puts it into both indexes and counts the set.
Write(t) ==
    LET n == name[t]
        excess == Excess(t)
    IN  /\ Go(t, "write", IF excess > 0 THEN "oldest" ELSE "idle")
        /\ life' = [f \in Prints |-> IF f \in prints[t] THEN TTL ELSE life[f]]
        /\ index' = [f \in Prints |-> IF f \in prints[t] THEN num[t] ELSE index[f]]
        /\ vset' = vset \cup prints[t]
        /\ Touch(n)
        /\ IF excess > 0 THEN Locals(t, n, {}, excess, {}) ELSE Forgotten(t)
        /\ raced' = raced \ prints[t] /\ cut' = cut \ {n}
        /\ UNCHANGED seq

Oldest(t) ==
    /\ Go(t, "oldest", "evict")
    /\ \E X \in SUBSET Indexed(name[t]) :
          AreOldest(X, name[t], num[t]) /\ prints' = [prints EXCEPT ![t] = X]
    /\ UNCHANGED <<redis, name, num, known, raced, cut>>

\* The index is cut by rank, the rest by the fingerprints read before.
Evict(t) ==
    /\ Go(t, "evict", "idle")
    /\ \E X \in SUBSET Indexed(name[t]) :
          /\ AreOldest(X, name[t], num[t])
          /\ index' = Without(index, X)
          /\ raced' = (raced \ (X \cap prints[t])) \cup (X \ prints[t]) \cup (prints[t] \ X)
    /\ life' = Without(life, prints[t]) /\ vset' = vset \ prints[t]
    /\ Forgotten(t)
    /\ UNCHANGED <<scopes, scopesLife, seq, cut>>

-----------------------------------------------------------------------------
(* lookup_semantic                                                         *)

\* Which of the vectors are nearest is anybody's guess.
Nearest(t, n) ==
    /\ Go(t, "idle", "fetch")
    /\ \E X \in SUBSET (vset \cap Of(n)) :
          /\ X # {} /\ Cardinality(X) <= Candidates
          /\ Cardinality(X) < Candidates => X = vset \cap Of(n)
          /\ Locals(t, n, X, 0, {})
    /\ UNCHANGED <<redis, raced, cut>>

\* The vectors are fetched: those that are gone are dead.
Fetch(t) ==
    LET dead == prints[t] \ Live
    IN  /\ Go(t, "fetch", IF dead = {} THEN "idle" ELSE "sweep")
        /\ IF dead = {} THEN Forgotten(t) ELSE Locals(t, name[t], dead, 0, {})
        /\ UNCHANGED <<redis, raced, cut>>

\* Mutant: the vector set keeps the dead.
SweepIndexOnly(t) ==
    /\ Go(t, "sweep", "idle")
    /\ index' = Without(index, prints[t])
    /\ raced' = (raced \ prints[t]) \cup (prints[t] \cap Live)
    /\ Forgotten(t)
    /\ UNCHANGED <<life, vset, scopes, scopesLife, seq, cut>>

\* The dead leave both indexes, those that were stored again meanwhile too.
Sweep(t) ==
    /\ Go(t, "sweep", "idle")
    /\ index' = Without(index, prints[t]) /\ vset' = vset \ prints[t]
    /\ raced' = (raced \ prints[t]) \cup (prints[t] \cap Live)
    /\ Forgotten(t)
    /\ UNCHANGED <<life, scopes, scopesLife, seq, cut>>

-----------------------------------------------------------------------------
(* invalidate_document, invalidate_negative, discard                       *)

Names(t, X) ==
    /\ Go(t, "idle", "forget")
    /\ X # {}
    /\ Locals(t, NoSet, X, 0, scopes)
    /\ UNCHANGED <<redis, raced, cut>>

\* The payloads go, and their places in the candidate sets whose names were read.
Forget(t) ==
    LET there == {f \in prints[t] : SetOf[f] \in known[t]}
    IN  /\ Go(t, "forget", "idle")
        /\ life' = Without(life, prints[t])
        /\ index' = Without(index, there) /\ vset' = vset \ there
        /\ raced' = raced \ there
        /\ Forgotten(t)
        /\ UNCHANGED <<scopes, scopesLife, seq, cut>>

-----------------------------------------------------------------------------
\* A call fails, or is given up after its time limit.
Stop(t) ==
    /\ pc[t] # "idle" /\ pc' = [pc EXCEPT ![t] = "idle"]
    /\ cut' = IF pc[t] \in {"oldest", "evict"} THEN cut \cup {name[t]} ELSE cut
    /\ Forgotten(t)
    /\ UNCHANGED <<redis, raced>>

Less(n) == IF n > 0 THEN n - 1 ELSE 0

\* Time passes: whatever has a time to live gets older and is gone in the end.
Tick ==
    /\ scopesLife > 0
    /\ life' = [f \in Prints |-> Less(life[f])]
    /\ scopesLife' = Less(scopesLife)
    /\ scopes' = IF scopesLife = 1 THEN {} ELSE scopes
    /\ UNCHANGED <<index, vset, seq, pc, locals, raced, cut>>

Next ==
    \/ \E t \in Tasks :
          \/ \E f \in Prints : Incr(t, f)
          \/ Write(t) \/ Oldest(t) \/ Evict(t)
          \/ \E n \in Sets : Nearest(t, n)
          \/ Fetch(t) \/ Sweep(t)
          \/ \E X \in SUBSET Prints : Names(t, X)
          \/ Forget(t) \/ Stop(t)
    \/ Tick

Spec == Init /\ [][Next]_vars

-----------------------------------------------------------------------------
(* Properties.                                                             *)

Places == {"idle", "write", "oldest", "evict", "fetch", "sweep", "forget"}

\* The shape of the cache and of the calls in progress.
TypeOK ==
    /\ life \in [Prints -> 0..TTL] /\ index \in [Prints -> 0..MaxStores] /\ vset \subseteq Prints
    /\ scopes \subseteq Sets /\ scopesLife \in 0..TTL /\ seq \in 0..MaxStores
    /\ pc \in [Tasks -> Places] /\ name \in [Tasks -> Sets \cup {NoSet}]
    /\ prints \in [Tasks -> SUBSET Prints] /\ num \in [Tasks -> Nat]
    /\ known \in [Tasks -> SUBSET Sets] /\ raced \subseteq Prints /\ cut \subseteq Sets

\* The name of the candidate set of a live entry is known, so that forgetting the entry
\* reaches both indexes.
NamesAreKnown == \A f \in Live : SetOf[f] \in scopes

\* Payload, index and vector set agree on every fingerprint that no call changed between
\* two steps of another: dead entries are in both indexes or in none, live ones in both.
IndexesAgree ==
    \A f \in Prints \ raced :
        /\ index[f] > 0 <=> f \in vset
        /\ life[f] > 0 => f \in vset

\* The order index outgrows its bound only while a store is about to cut it, or after a
\* store that could not.
Owes(t, n) == pc[t] \in {"oldest", "evict"} /\ name[t] = n
IndexIsBounded ==
    \A n \in Sets \ cut :
        Cardinality(Indexed(n)) > MaxEntries =>
            \E t \in Tasks : Owes(t, n) /\ num[t] >= Cardinality(Indexed(n)) - MaxEntries

\* Why: names outlive entries, and a store writes into its own set under a number.
OutliveInv == \A f \in Prints : life[f] <= scopesLife
StoreInv ==
    \A t \in Tasks :
        /\ pc[t] \in {"write", "oldest", "evict"} => name[t] \in Sets
        /\ pc[t] = "write" => prints[t] \subseteq Of(name[t]) /\ num[t] \in 1..MaxStores

\* The inductive invariant.
IInv ==
    /\ TypeOK /\ OutliveInv /\ StoreInv
    /\ NamesAreKnown /\ IndexesAgree /\ IndexIsBounded

=============================================================================
