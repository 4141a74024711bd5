--------------------------- MODULE RedisCacheProofs ---------------------------
(***************************************************************************)
(* Proofs about RedisCache, for any number of callers, fingerprints and    *)
(* candidate sets, any bound on entries and any time to live.  Every       *)
(* action keeps the types, then the names, then the agreement of the       *)
(* indexes, then the bound; the sizes of sets come from                    *)
(* FiniteSetTheorems.                                                      *)
(***************************************************************************)
EXTENDS RedisCache, FiniteSetTheorems, TLAPS

USE SetOfAssumption, BoundsAssumption

\* Any part of the fingerprints has a size.
LEMMA Sizes ==
    ASSUME NEW X \in SUBSET Prints
    PROVE  IsFiniteSet(X) /\ Cardinality(X) \in Nat
BY PrintsAssumption, FS_Subset, FS_CardinalityType

\* A part of it is no larger.
LEMMA Smaller ==
    ASSUME NEW Y \in SUBSET Prints, NEW X \in SUBSET Y
    PROVE  Cardinality(X) <= Cardinality(Y)
BY Sizes, FS_Subset

\* Taking a part away leaves the difference of the sizes.
LEMMA Rest ==
    ASSUME NEW Y \in SUBSET Prints, NEW X \in SUBSET Y
    PROVE  Cardinality(Y \ X) = Cardinality(Y) - Cardinality(X)
<1>1. Y \cap X = X
  OBVIOUS
<1> QED BY <1>1, Sizes, FS_Difference

-----------------------------------------------------------------------------
\* The initial state is as described.
LEMMA InitIInv == Init => IInv
<1> SUFFICES ASSUME Init PROVE IInv
  OBVIOUS
<1>1. TypeOK /\ OutliveInv /\ StoreInv /\ NamesAreKnown /\ IndexesAgree
  BY DEF Init, TypeOK, Places, OutliveInv, StoreInv, NamesAreKnown, Live, IndexesAgree
<1>2. ASSUME NEW n \in Sets PROVE Cardinality(Indexed(n)) = 0
  <2>1. Indexed(n) = {}
    BY DEF Init, Indexed, Of
  <2> QED BY <2>1, FS_EmptySet
<1> QED BY <1>1, <1>2 DEF IInv, IndexIsBounded

\* Every step keeps the types; what a store counts is a number.
LEMMA KeepsType == TypeOK /\ StoreInv /\ [Next]_vars => TypeOK'
<1> SUFFICES ASSUME TypeOK, StoreInv, [Next]_vars PROVE TypeOK'
  OBVIOUS
<1> USE DEF TypeOK, Places, Go, Locals, Forgotten, Without, redis, locals
<1>1. ASSUME NEW t \in Tasks, NEW f \in Prints, Incr(t, f) PROVE TypeOK'
  BY <1>1 DEF Incr
<1>2. ASSUME NEW t \in Tasks, Write(t) PROVE TypeOK'
  <2>1. Excess(t) \in Int
    <3>1. Indexed(name[t]) \cup prints[t] \in SUBSET Prints
      BY DEF Indexed, Of
    <3> QED BY <3>1, Sizes DEF Excess
  <2>2. name[t] \in Sets /\ num[t] \in 1..MaxStores
    BY <1>2 DEF Write, StoreInv
  <2>3. /\ life' \in [Prints -> 0..TTL] /\ index' \in [Prints -> 0..MaxStores]
        /\ vset' \subseteq Prints /\ scopes' \subseteq Sets /\ scopesLife' \in 0..TTL
        /\ seq' \in 0..MaxStores /\ raced' \subseteq Prints /\ cut' \subseteq Sets
    BY <1>2, <2>2 DEF Write, Touch
  <2>4. /\ pc' \in [Tasks -> Places] /\ name' \in [Tasks -> Sets \cup {NoSet}]
        /\ prints' \in [Tasks -> SUBSET Prints] /\ num' \in [Tasks -> Nat]
        /\ known' \in [Tasks -> SUBSET Sets]
    <3>1. CASE Excess(t) > 0
      BY <1>2, <2>1, <2>2, <3>1 DEF Write
    <3>2. CASE ~(Excess(t) > 0)
      BY <1>2, <2>1, <2>2, <3>2 DEF Write
    <3> QED BY <3>1, <3>2
  <2> QED BY <2>3, <2>4
<1>3. ASSUME NEW t \in Tasks, Oldest(t) PROVE TypeOK'
  BY <1>3 DEF Oldest, Indexed, Of
<1>4. ASSUME NEW t \in Tasks, Evict(t) PROVE TypeOK'
  <2>1. PICK X \in SUBSET Indexed(name[t]) :
          /\ index' = Without(index, X)
          /\ raced' = (raced \ (X \cap prints[t])) \cup (X \ prints[t]) \cup (prints[t] \ X)
    BY <1>4 DEF Evict
  <2>2. X \subseteq Prints
    BY DEF Indexed, Of
  <2> QED BY <1>4, <2>1, <2>2 DEF Evict
<1>5. ASSUME NEW t \in Tasks, NEW n \in Sets, Nearest(t, n) PROVE TypeOK'
  BY <1>5 DEF Nearest, Of
<1>6. ASSUME NEW t \in Tasks, Fetch(t) PROVE TypeOK'
  <2>1. CASE prints[t] \ Live = {}
    BY <1>6, <2>1 DEF Fetch
  <2>2. CASE prints[t] \ Live # {}
    BY <1>6, <2>2 DEF Fetch
  <2> QED BY <2>1, <2>2
<1>7. ASSUME NEW t \in Tasks, Sweep(t) PROVE TypeOK'
  BY <1>7 DEF Sweep, Live
<1>8. ASSUME NEW t \in Tasks, NEW X \in SUBSET Prints, Names(t, X) PROVE TypeOK'
  BY <1>8 DEF Names
<1>9. ASSUME NEW t \in Tasks, Forget(t) PROVE TypeOK'
  BY <1>9 DEF Forget
<1>10. ASSUME NEW t \in Tasks, Stop(t) PROVE TypeOK'
  BY <1>10 DEF Stop, StoreInv
<1>11. ASSUME Tick PROVE TypeOK'
  BY <1>11 DEF Tick, Less
<1>12. CASE UNCHANGED vars
  BY <1>12 DEF vars
<1> QED BY <1>1, <1>2, <1>3, <1>4, <1>5, <1>6, <1>7, <1>8, <1>9, <1>10, <1>11, <1>12 DEF Next

-----------------------------------------------------------------------------
\* Names outlive entries, and a store knows its set and its number.
LEMMA KeepsStore == TypeOK /\ OutliveInv /\ StoreInv /\ [Next]_vars => OutliveInv' /\ StoreInv'
<1> SUFFICES ASSUME TypeOK, OutliveInv, StoreInv, [Next]_vars PROVE OutliveInv' /\ StoreInv'
  OBVIOUS
<1> USE DEF TypeOK, Places, OutliveInv, StoreInv, Of, Go, Locals, Forgotten, Without, redis, locals
<1>1. ASSUME NEW t \in Tasks, NEW f \in Prints, Incr(t, f) PROVE OutliveInv' /\ StoreInv'
  BY <1>1 DEF Incr
<1>2. ASSUME NEW t \in Tasks, Write(t) PROVE OutliveInv' /\ StoreInv'
  <2>1. OutliveInv'
    BY <1>2 DEF Write, Touch
  <2>2. StoreInv'
    <3>1. CASE Excess(t) > 0
      BY <1>2, <3>1 DEF Write
    <3>2. CASE ~(Excess(t) > 0)
      BY <1>2, <3>2 DEF Write
    <3> QED BY <3>1, <3>2
  <2> QED BY <2>1, <2>2
<1>3. ASSUME NEW t \in Tasks, Oldest(t) PROVE OutliveInv' /\ StoreInv'
  BY <1>3 DEF Oldest
<1>4. ASSUME NEW t \in Tasks, Evict(t) PROVE OutliveInv' /\ StoreInv'
  BY <1>4 DEF Evict
<1>5. ASSUME NEW t \in Tasks, NEW n \in Sets, Nearest(t, n) PROVE OutliveInv' /\ StoreInv'
  BY <1>5 DEF Nearest
<1>6. ASSUME NEW t \in Tasks, Fetch(t) PROVE OutliveInv' /\ StoreInv'
  BY <1>6 DEF Fetch
<1>7. ASSUME NEW t \in Tasks, Sweep(t) PROVE OutliveInv' /\ StoreInv'
  BY <1>7 DEF Sweep
<1>8. ASSUME NEW t \in Tasks, NEW X \in SUBSET Prints, Names(t, X) PROVE OutliveInv' /\ StoreInv'
  BY <1>8 DEF Names
<1>9. ASSUME NEW t \in Tasks, Forget(t) PROVE OutliveInv' /\ StoreInv'
  BY <1>9 DEF Forget
<1>10. ASSUME NEW t \in Tasks, Stop(t) PROVE OutliveInv' /\ StoreInv'
  BY <1>10 DEF Stop
<1>11. ASSUME Tick PROVE OutliveInv' /\ StoreInv'
  BY <1>11 DEF Tick, Less
<1>12. CASE UNCHANGED vars
  BY <1>12 DEF vars
<1> QED BY <1>1, <1>2, <1>3, <1>4, <1>5, <1>6, <1>7, <1>8, <1>9, <1>10, <1>11, <1>12 DEF Next

\* The name of a set is written with an entry and expires no earlier.
LEMMA KeepsNames ==
    TypeOK /\ OutliveInv /\ StoreInv /\ NamesAreKnown /\ [Next]_vars => NamesAreKnown'
<1> SUFFICES ASSUME TypeOK, OutliveInv, StoreInv, NamesAreKnown, [Next]_vars,
                    NEW f \in Prints, life'[f] > 0
             PROVE  SetOf[f] \in scopes'
  BY DEF NamesAreKnown, Live
<1> USE DEF TypeOK, NamesAreKnown, Live, redis
<1>1. ASSUME NEW t \in Tasks, Write(t) PROVE SetOf[f] \in scopes'
  <2>1. CASE f \in prints[t]
    BY <1>1, <2>1 DEF Write, Touch, StoreInv, Of, Go
  <2>2. CASE f \notin prints[t]
    BY <1>1, <2>2 DEF Write, Touch
  <2> QED BY <2>1, <2>2
<1>2. ASSUME NEW t \in Tasks, Evict(t) PROVE SetOf[f] \in scopes'
  BY <1>2 DEF Evict, Without
<1>3. ASSUME NEW t \in Tasks, Forget(t) PROVE SetOf[f] \in scopes'
  BY <1>3 DEF Forget, Without
<1>4. ASSUME Tick PROVE SetOf[f] \in scopes'
  <2>1. life[f] \in Nat /\ scopesLife \in Nat /\ life[f] > 1 /\ life[f] <= scopesLife
    BY <1>4 DEF Tick, Less, OutliveInv
  <2> QED BY <1>4, <2>1 DEF Tick
<1>5. ASSUME UNCHANGED <<life, scopes>> PROVE SetOf[f] \in scopes'
  BY <1>5
<1>6. ASSUME NEW t \in Tasks,
             \/ \E g \in Prints : Incr(t, g)
             \/ \E n \in Sets : Nearest(t, n)
             \/ \E X \in SUBSET Prints : Names(t, X)
             \/ Oldest(t) \/ Fetch(t) \/ Sweep(t) \/ Stop(t)
      PROVE  UNCHANGED <<life, scopes>>
  BY <1>6 DEF Incr, Oldest, Nearest, Fetch, Sweep, Names, Stop
<1> QED BY <1>1, <1>2, <1>3, <1>4, <1>5, <1>6 DEF Next, vars

\* Every step that treats the two indexes differently is remembered in raced.
LEMMA KeepsAgreement ==
    TypeOK /\ StoreInv /\ IndexesAgree /\ [Next]_vars => IndexesAgree'
<1> SUFFICES ASSUME TypeOK, StoreInv, IndexesAgree, [Next]_vars,
                    NEW f \in Prints, f \notin raced'
             PROVE  (index'[f] > 0 <=> f \in vset') /\ (life'[f] > 0 => f \in vset')
  BY DEF IndexesAgree
<1> DEFINE Agree == (index'[f] > 0 <=> f \in vset') /\ (life'[f] > 0 => f \in vset')
<1> USE DEF TypeOK, IndexesAgree, redis
<1>1. ASSUME NEW t \in Tasks, Write(t) PROVE Agree
  <2>1. CASE f \in prints[t]
    <3>1. num[t] \in 1..MaxStores
      BY <1>1 DEF Write, Go, StoreInv
    <3>2. index'[f] = num[t] /\ f \in vset'
      BY <1>1, <2>1 DEF Write
    <3> QED BY <3>1, <3>2
  <2>2. CASE f \notin prints[t]
    <3>1. /\ index'[f] = index[f] /\ life'[f] = life[f] /\ f \notin raced
          /\ f \in vset' <=> f \in vset
      BY <1>1, <2>2 DEF Write
    <3> QED BY <3>1
  <2> QED BY <2>1, <2>2
<1>2. ASSUME NEW t \in Tasks, Evict(t) PROVE Agree
  <2>1. PICK X \in SUBSET Indexed(name[t]) :
          /\ index' = Without(index, X)
          /\ raced' = (raced \ (X \cap prints[t])) \cup (X \ prints[t]) \cup (prints[t] \ X)
    BY <1>2 DEF Evict
  <2>2. life' = Without(life, prints[t]) /\ vset' = vset \ prints[t]
    BY <1>2 DEF Evict
  <2>3. CASE f \in X
    BY <2>1, <2>2, <2>3 DEF Without
  <2>4. CASE f \notin X
    BY <2>1, <2>2, <2>4 DEF Without
  <2> QED BY <2>3, <2>4
<1>3. ASSUME NEW t \in Tasks, Sweep(t) PROVE Agree
  <2>1. CASE f \in prints[t]
    BY <1>3, <2>1 DEF Sweep, Without, Live
  <2>2. CASE f \notin prints[t]
    BY <1>3, <2>2 DEF Sweep, Without
  <2> QED BY <2>1, <2>2
<1>4. ASSUME NEW t \in Tasks, Forget(t) PROVE Agree
  <2> DEFINE there == {g \in prints[t] : SetOf[g] \in known[t]}
  <2>1. /\ life' = Without(life, prints[t]) /\ index' = Without(index, there)
        /\ vset' = vset \ there /\ raced' = raced \ there
    BY <1>4 DEF Forget
  <2>2. CASE f \in there
    BY <2>1, <2>2 DEF Without
  <2>3. CASE f \notin there
    BY <2>1, <2>3 DEF Without
  <2> QED BY <2>2, <2>3
<1>5. ASSUME Tick PROVE Agree
  BY <1>5 DEF Tick, Less
<1>6. ASSUME UNCHANGED <<life, index, vset, raced>> PROVE Agree
  BY <1>6
<1>7. ASSUME NEW t \in Tasks,
             \/ \E g \in Prints : Incr(t, g)
             \/ \E n \in Sets : Nearest(t, n)
             \/ \E X \in SUBSET Prints : Names(t, X)
             \/ Oldest(t) \/ Fetch(t) \/ Stop(t)
      PROVE  UNCHANGED <<life, index, vset, raced>>
  BY <1>7 DEF Incr, Oldest, Nearest, Fetch, Names, Stop
<1> QED BY <1>1, <1>2, <1>3, <1>4, <1>5, <1>6, <1>7 DEF Next, vars

-----------------------------------------------------------------------------
\* An index that does not grow stays within its bound while the stores at work stay.
LEMMA StillBounded ==
    ASSUME TypeOK, IndexIsBounded, NEW n \in Sets, n \notin cut,
           (Indexed(n))' \subseteq Indexed(n),
           \A s \in Tasks : Owes(s, n) => (Owes(s, n))' /\ num'[s] = num[s],
           Cardinality((Indexed(n))') > MaxEntries
    PROVE  \E s \in Tasks :
               (Owes(s, n))' /\ num'[s] >= Cardinality((Indexed(n))') - MaxEntries
<1>1. Indexed(n) \in SUBSET Prints
  BY DEF Indexed, Of
<1> DEFINE C == Cardinality(Indexed(n))
           D == Cardinality((Indexed(n))')
<1>2. C \in Nat /\ D \in Nat /\ D <= C
  <2>1. (Indexed(n))' \in SUBSET Prints
    BY <1>1
  <2> QED BY <1>1, <2>1, Sizes, Smaller
<1>3. PICK s \in Tasks : Owes(s, n) /\ num[s] >= C - MaxEntries
  BY <1>2 DEF IndexIsBounded
<1>4. (Owes(s, n))' /\ num'[s] = num[s] /\ num[s] \in Nat
  BY <1>3 DEF TypeOK
<1>5. num'[s] >= D - MaxEntries
  <2> HIDE DEF C, D
  <2> QED BY <1>2, <1>3, <1>4
<1> QED BY <1>4, <1>5

\* A store counts its set with the new entry in it, and owes what is too much.
LEMMA WriteBounded ==
    ASSUME TypeOK, StoreInv, IndexIsBounded, NEW t \in Tasks, Write(t)
    PROVE  IndexIsBounded'
<1> SUFFICES ASSUME NEW n \in Sets, n \notin cut', Cardinality((Indexed(n))') > MaxEntries
             PROVE  \E s \in Tasks :
                        (Owes(s, n))' /\ num'[s] >= Cardinality((Indexed(n))') - MaxEntries
  BY DEF IndexIsBounded
<1>1. /\ pc[t] = "write" /\ name[t] \in Sets /\ prints[t] \subseteq Of(name[t])
      /\ num[t] \in 1..MaxStores
  BY DEF Write, Go, StoreInv
<1>2. \A f \in Prints : index'[f] = IF f \in prints[t] THEN num[t] ELSE index[f]
  BY DEF Write, TypeOK
<1>3. CASE n = name[t]
  <2>1. (Indexed(n))' = Indexed(n) \cup prints[t]
    BY <1>1, <1>2, <1>3 DEF Indexed, Of, TypeOK
  <2>2. Excess(t) = Cardinality((Indexed(n))') - MaxEntries
    BY <1>3, <2>1 DEF Excess
  <2>3. Indexed(n) \cup prints[t] \in SUBSET Prints
    BY <1>1 DEF Indexed, Of
  <2>4. Cardinality((Indexed(n))') \in Nat
    BY <2>1, <2>3, Sizes
  <2>5. Excess(t) > 0
    BY <2>2, <2>4
  <2>6. pc'[t] = "oldest" /\ name'[t] = n /\ num'[t] = Excess(t)
    BY <1>3, <2>5 DEF Write, Go, Locals, TypeOK
  <2> QED BY <2>2, <2>4, <2>6 DEF Owes
<1>4. CASE n # name[t]
  <2>1. (Indexed(n))' \subseteq Indexed(n)
    BY <1>1, <1>2, <1>4 DEF Indexed, Of
  <2>2. n \notin cut
    BY <1>4 DEF Write
  <2>3. \A s \in Tasks : Owes(s, n) => (Owes(s, n))' /\ num'[s] = num[s]
    BY <1>1 DEF Owes, Write, Go, Locals, Forgotten, TypeOK
  <2> QED BY <2>1, <2>2, <2>3, StillBounded
<1> QED BY <1>3, <1>4

\* An eviction takes away as much as it was told, if there is as much.
LEMMA EvictBounded ==
    ASSUME TypeOK, StoreInv, IndexIsBounded, NEW t \in Tasks, Evict(t)
    PROVE  IndexIsBounded'
<1> SUFFICES ASSUME NEW n \in Sets, n \notin cut', Cardinality((Indexed(n))') > MaxEntries
             PROVE  \E s \in Tasks :
                        (Owes(s, n))' /\ num'[s] >= Cardinality((Indexed(n))') - MaxEntries
  BY DEF IndexIsBounded
<1>1. PICK X \in SUBSET Indexed(name[t]) :
        AreOldest(X, name[t], num[t]) /\ index' = Without(index, X)
  BY DEF Evict
<1>2. n \notin cut /\ pc[t] = "evict" /\ pc' = [pc EXCEPT ![t] = "idle"]
  BY DEF Evict, Go
<1>3. (Indexed(n))' \subseteq Indexed(n)
  BY <1>1 DEF Indexed, Of, Without, TypeOK
<1>4. ASSUME NEW s \in Tasks, Owes(s, n), s # t PROVE (Owes(s, n))' /\ num'[s] = num[s]
  BY <1>2, <1>4 DEF Owes, Evict, Forgotten, Locals, TypeOK
<1>5. CASE n # name[t]
  <2>1. \A s \in Tasks : Owes(s, n) => (Owes(s, n))' /\ num'[s] = num[s]
    BY <1>4, <1>5 DEF Owes
  <2> QED BY <1>2, <1>3, <2>1, StillBounded
<1>6. CASE n = name[t]
  <2> DEFINE C == Cardinality(Indexed(n))
             D == Cardinality((Indexed(n))')
             k == num[t]
             x == Cardinality(X)
  <2>1. Indexed(n) \in SUBSET Prints /\ X \in SUBSET Indexed(n)
    BY <1>1, <1>6 DEF Indexed, Of
  <2>2. (Indexed(n))' = Indexed(n) \ X
    BY <1>1 DEF Indexed, Of, Without
  <2>3. C \in Nat /\ D = C - x
    BY <2>1, <2>2, Sizes, Rest
  <2>4. x = IF k < C THEN k ELSE C
    BY <1>1, <1>6 DEF AreOldest
  <2>5. k \in Nat
    BY DEF TypeOK
  <2>6. D > MaxEntries
    OBVIOUS
  <2> HIDE DEF C, D, k, x
  <2>7. C > MaxEntries /\ D = C - k
    BY <2>3, <2>4, <2>5, <2>6
  <2>8. PICK s \in Tasks : Owes(s, n) /\ num[s] >= C - MaxEntries
    BY <1>2, <2>7 DEF IndexIsBounded, C
  <2>9. s # t
    BY <2>3, <2>5, <2>6, <2>7, <2>8 DEF k
  <2>10. (Owes(s, n))' /\ num'[s] = num[s] /\ num[s] \in Nat
    BY <1>4, <2>8, <2>9 DEF TypeOK
  <2>11. num'[s] >= D - MaxEntries
    BY <2>3, <2>5, <2>7, <2>8, <2>10
  <2> QED BY <2>10, <2>11 DEF D
<1> QED BY <1>5, <1>6

\* Every step keeps the order indexes within what the stores at work owe.
LEMMA KeepsBound ==
    TypeOK /\ StoreInv /\ IndexIsBounded /\ [Next]_vars => IndexIsBounded'
<1> SUFFICES ASSUME TypeOK, StoreInv, IndexIsBounded, [Next]_vars PROVE IndexIsBounded'
  OBVIOUS
<1>1. ASSUME \A n \in Sets : (Indexed(n))' \subseteq Indexed(n), cut \subseteq cut',
             \A s \in Tasks, n \in Sets \ cut' :
                 Owes(s, n) => (Owes(s, n))' /\ num'[s] = num[s]
      PROVE  IndexIsBounded'
  <2> SUFFICES ASSUME NEW n \in Sets, n \notin cut', Cardinality((Indexed(n))') > MaxEntries
               PROVE  \E s \in Tasks :
                          (Owes(s, n))' /\ num'[s] >= Cardinality((Indexed(n))') - MaxEntries
    BY DEF IndexIsBounded
  <2>1. n \notin cut /\ (Indexed(n))' \subseteq Indexed(n)
    BY <1>1
  <2>2. \A s \in Tasks : Owes(s, n) => (Owes(s, n))' /\ num'[s] = num[s]
    BY <1>1
  <2> QED BY <2>1, <2>2, StillBounded
<1>2. ASSUME NEW t \in Tasks, NEW f \in Prints, Incr(t, f) PROVE IndexIsBounded'
  BY <1>1, <1>2 DEF Incr, Indexed, Of, Owes, Go, Locals, TypeOK
<1>3. ASSUME NEW t \in Tasks, Oldest(t) PROVE IndexIsBounded'
  BY <1>1, <1>3 DEF Oldest, redis, Indexed, Of, Owes, Go, TypeOK
<1>4. ASSUME NEW t \in Tasks, NEW n \in Sets, Nearest(t, n) PROVE IndexIsBounded'
  BY <1>1, <1>4 DEF Nearest, redis, Indexed, Of, Owes, Go, Locals, TypeOK
<1>5. ASSUME NEW t \in Tasks, Fetch(t) PROVE IndexIsBounded'
  BY <1>1, <1>5 DEF Fetch, redis, Indexed, Of, Owes, Go, Locals, Forgotten, TypeOK
<1>6. ASSUME NEW t \in Tasks, Sweep(t) PROVE IndexIsBounded'
  BY <1>1, <1>6 DEF Sweep, Without, Indexed, Of, Owes, Go, Locals, Forgotten, TypeOK
<1>7. ASSUME NEW t \in Tasks, NEW X \in SUBSET Prints, Names(t, X) PROVE IndexIsBounded'
  BY <1>1, <1>7 DEF Names, redis, Indexed, Of, Owes, Go, Locals, TypeOK
<1>8. ASSUME NEW t \in Tasks, Forget(t) PROVE IndexIsBounded'
  BY <1>1, <1>8 DEF Forget, Without, Indexed, Of, Owes, Go, Locals, Forgotten, TypeOK
<1>9. ASSUME NEW t \in Tasks, Stop(t) PROVE IndexIsBounded'
  BY <1>1, <1>9 DEF Stop, redis, Indexed, Of, Owes, Locals, Forgotten, TypeOK
<1>10. ASSUME Tick PROVE IndexIsBounded'
  BY <1>1, <1>10 DEF Tick, locals, Indexed, Of, Owes
<1>11. CASE UNCHANGED vars
  BY <1>1, <1>11 DEF vars, redis, locals, Indexed, Of, Owes
<1> QED BY <1>2, <1>3, <1>4, <1>5, <1>6, <1>7, <1>8, <1>9, <1>10, <1>11, WriteBounded, EvictBounded DEF Next

-----------------------------------------------------------------------------
\* The inductive invariant of the cache and the calls in progress.
THEOREM CacheInvariant == Spec => []IInv
<1>1. IInv /\ [Next]_vars => IInv'
  BY KeepsType, KeepsStore, KeepsNames, KeepsAgreement, KeepsBound DEF IInv
<1> QED BY InitIInv, <1>1, PTL DEF Spec

\* Every reachable state of the cache and of the calls has its type.
THEOREM TypeCorrect == Spec => []TypeOK
<1>1. IInv => TypeOK
  BY DEF IInv
<1> QED BY CacheInvariant, <1>1, PTL

\* Forgetting an entry reaches both indexes: the name of its set is still known.
THEOREM NamesKnown == Spec => []NamesAreKnown
<1>1. IInv => NamesAreKnown
  BY DEF IInv
<1> QED BY CacheInvariant, <1>1, PTL

\* Payload, index and vector set differ only where two calls crossed.
THEOREM Agreement == Spec => []IndexesAgree
<1>1. IInv => IndexesAgree
  BY DEF IInv
<1> QED BY CacheInvariant, <1>1, PTL

\* The order index exceeds its bound by no more than the stores at work owe.
THEOREM BoundOwed == Spec => []IndexIsBounded
<1>1. IInv => IndexIsBounded
  BY DEF IInv
<1> QED BY CacheInvariant, <1>1, PTL

=============================================================================
