------------------------------ MODULE PartsProofs ------------------------------
(***************************************************************************)
(* Theorems about the parts that share no state: searches, the splitter of *)
(* verdicts, chunking, the reading of a turn, health checks, loads at      *)
(* first use.                                                              *)
(***************************************************************************)
EXTENDS Retrieval, VerdictSplitter, Chunking, TurnReader, Health, LazyLoad, FiniteSetTheorems,
        FunctionTheorems, SequenceTheorems, TLAPS

-----------------------------------------------------------------------------
(* What the proofs below rest on.                                          *)

\* Induction over a set of numbers: otherwise the successors of some n of them, all in the set,
\* would map a finite set into itself that does not have 0 as a successor.
LEMMA Induct ==
  ASSUME NEW T, 0 \in T, \A n \in Nat : n \in T => n + 1 \in T
  PROVE  \A n \in Nat : n \in T
<1> SUFFICES ASSUME NEW n \in Nat, n \notin T PROVE FALSE
  OBVIOUS
<1> DEFINE U == {k \in 0..n : k \in T}
           f == [k \in U |-> k + 1]
<1>1. IsFiniteSet(U)
  <2>1. IsFiniteSet(0..n)
    BY FS_Interval
  <2> QED BY <2>1, FS_Subset
<1>2. \A k \in U : k + 1 \in U
  OBVIOUS
<1>3. f \in Injection(U, U)
  BY <1>2 DEF Injection, IsInjective
<1>4. f \in Surjection(U, U)
  BY <1>1, <1>3, FS_Injection
<1>5. 0 \in U
  OBVIOUS
<1>6. \E k \in U : f[k] = 0
  BY <1>4, <1>5 DEF Surjection
<1> QED BY <1>6

\* A set of numbers that is not empty has a least one.
LEMMA LeastIs ==
  ASSUME NEW S \in SUBSET Nat, S # {}
  PROVE  Min(S) \in S /\ \A k \in S : Min(S) <= k
<1>1. SUFFICES ASSUME \A m \in S : \E k \in S : ~(m <= k) PROVE FALSE
  BY DEF Min
<1> DEFINE T == {n \in Nat : \A k \in 0..n : k \notin S}
<1>2. 0 \in T
  BY <1>1
<1>3. ASSUME NEW n \in Nat, n \in T PROVE n + 1 \in T
  <2>1. \A k \in 0..(n + 1) : k \in 0..n \/ k = n + 1
    OBVIOUS
  <2>2. n + 1 \notin S
    <3>1. SUFFICES ASSUME n + 1 \in S PROVE FALSE
      OBVIOUS
    <3>2. PICK k \in S : ~(n + 1 <= k)
      BY <1>1, <3>1
    <3>3. k \in 0..n
      BY <3>2
    <3> QED BY <1>3, <3>3
  <2> QED BY <1>3, <2>1, <2>2
<1>4. \A n \in Nat : n \in T => n + 1 \in T
  BY <1>3
<1> HIDE DEF T
<1>5. \A n \in Nat : n \in T
  BY ONLY <1>2, <1>4, Induct
<1>6. \A n \in Nat : n \notin S
  BY <1>5 DEF T
<1> QED BY <1>6

\* Concatenation is extensional.
LEMMA ConcatIs ==
  ASSUME NEW S, NEW s \in Seq(S), NEW c \in Seq(S), NEW t \in Seq(S), Len(t) = Len(s) + Len(c),
         \A i \in 1..Len(s) : t[i] = s[i], \A i \in 1..Len(c) : t[Len(s) + i] = c[i]
  PROVE  t = s \o c
<1>1. s \o c \in Seq(S) /\ Len(s \o c) = Len(t)
  BY ConcatProperties
<1>2. ASSUME NEW i \in 1..Len(t) PROVE t[i] = (s \o c)[i]
  <2>1. (s \o c)[i] = IF i <= Len(s) THEN s[i] ELSE c[i - Len(s)]
    BY ConcatProperties
  <2>2. CASE i <= Len(s)
    BY <2>1, <2>2
  <2>3. CASE ~(i <= Len(s))
    <3>1. i - Len(s) \in 1..Len(c) /\ Len(s) + (i - Len(s)) = i
      BY <2>3
    <3> QED BY <2>1, <2>3, <3>1
  <2> QED BY <2>2, <2>3
<1> QED BY <1>1, <1>2, SeqEqual

\* The end of a sequence, from a place on.
LEMMA EndOf ==
  ASSUME NEW S, NEW s \in Seq(S), NEW n \in 1..(Len(s) + 1)
  PROVE  /\ SubSeq(s, n, Len(s)) \in Seq(S) /\ Len(SubSeq(s, n, Len(s))) = Len(s) - n + 1
         /\ \A i \in 1..(Len(s) - n + 1) : SubSeq(s, n, Len(s))[i] = s[n + i - 1]
<1>1. \A i \in n..Len(s) : s[i] \in S
  OBVIOUS
<1> QED BY <1>1, SubSeqProperties

-----------------------------------------------------------------------------
(* Definitions by recursion.                                               *)

\* There is a function that begins with b and goes on by the steps of st.
LEMMA Recursion ==
  ASSUME NEW V, NEW b \in V, NEW N \in Nat, NEW st \in [1..N -> [V -> V]]
  PROVE  \E f \in [0..N -> V] : f[0] = b /\ \A n \in 1..N : f[n] = st[n][f[n - 1]]
<1> DEFINE P(n) == \E f \in [0..n -> V] : f[0] = b /\ \A k \in 1..n : f[k] = st[k][f[k - 1]]
           T == {n \in Nat : n <= N => P(n)}
<1>1. 0 \in T
  <2> DEFINE f == [k \in 0..0 |-> b]
  <2>1. f \in [0..0 -> V] /\ f[0] = b /\ \A k \in 1..0 : f[k] = st[k][f[k - 1]]
    OBVIOUS
  <2> QED BY <2>1
<1>2. ASSUME NEW n \in Nat, n \in T PROVE n + 1 \in T
  <2>1. SUFFICES ASSUME n + 1 <= N PROVE P(n + 1)
    OBVIOUS
  <2>2. PICK f \in [0..n -> V] : f[0] = b /\ \A k \in 1..n : f[k] = st[k][f[k - 1]]
    BY <1>2, <2>1
  <2>3. n + 1 \in 1..N /\ f[n] \in V /\ st[n + 1] \in [V -> V] /\ st[n + 1][f[n]] \in V
    BY <2>1, <2>2
  <2> DEFINE g == [k \in 0..(n + 1) |-> IF k = n + 1 THEN st[n + 1][f[n]] ELSE f[k]]
  <2>4. \A k \in 0..(n + 1) : k = n + 1 \/ k \in 0..n
    OBVIOUS
  <2>5. g \in [0..(n + 1) -> V] /\ g[0] = b
    BY <2>2, <2>3, <2>4
  <2>6. ASSUME NEW k \in 1..(n + 1) PROVE g[k] = st[k][g[k - 1]]
    <3>1. k - 1 \in 0..n /\ g[k - 1] = f[k - 1]
      OBVIOUS
    <3>2. CASE k = n + 1
      BY <3>1, <3>2
    <3>3. CASE k # n + 1
      BY <2>2, <3>1, <3>3
    <3> QED BY <3>2, <3>3
  <2> QED BY <2>5, <2>6
<1>3. \A n \in Nat : n \in T => n + 1 \in T
  BY <1>2
<1>4. N \in T
  <2> HIDE DEF T
  <2> QED BY <1>1, <1>3, Induct
<1> QED BY <1>4

\* What a comprehension leaves of the first n of a sequence.
KeptOf(f, s, T) ==
    /\ f[0] = <<>>
    /\ \A n \in 1..Len(s) : f[n] = IF s[n] \in T THEN Append(f[n - 1], s[n]) ELSE f[n - 1]

LEMMA OnlyIs ==
  ASSUME NEW S, NEW s \in Seq(S), NEW T
  PROVE  \E f \in [0..Len(s) -> Seq(S)] : KeptOf(f, s, T) /\ Only(s, T) = f[Len(s)]
<1> DEFINE N == Len(s)
           st == [n \in 1..N |-> [v \in Seq(S) |-> IF s[n] \in T THEN Append(v, s[n]) ELSE v]]
<1>1. N \in Nat /\ <<>> \in Seq(S) /\ \A n \in 1..N : s[n] \in S
  OBVIOUS
<1>2. st \in [1..N -> [Seq(S) -> Seq(S)]]
  BY <1>1
<1> DEFINE V == Seq(S)
           b == <<>>
<1> HIDE DEF N, st
<1>3. PICK f \in [0..N -> Seq(S)] : f[0] = <<>> /\ \A n \in 1..N : f[n] = st[n][f[n - 1]]
  <2>1. b \in V /\ N \in Nat /\ st \in [1..N -> [V -> V]]
    BY <1>1, <1>2
  <2> HIDE DEF V, b
  <2>2. \E f \in [0..N -> V] : f[0] = b /\ \A n \in 1..N : f[n] = st[n][f[n - 1]]
    BY ONLY <2>1, Recursion
  <2> QED BY <2>2 DEF V, b
<1>4. ASSUME NEW n \in 1..N PROVE f[n] = IF s[n] \in T THEN Append(f[n - 1], s[n]) ELSE f[n - 1]
  <2>1. n - 1 \in 0..N /\ f[n - 1] \in Seq(S) /\ f[n] = st[n][f[n - 1]]
    BY <1>1, <1>3
  <2> QED BY <2>1 DEF st
<1>5. f = [n \in 0..N |-> IF n = 0 THEN <<>> ELSE IF s[n] \in T THEN Append(f[n - 1], s[n]) ELSE f[n - 1]]
  <2>1. \A n \in 0..N : n = 0 \/ n \in 1..N
    BY <1>1
  <2> QED BY <1>3, <1>4, <2>1
<1> DEFINE g == CHOOSE g : g = [n \in 0..N |-> IF n = 0 THEN <<>> ELSE IF s[n] \in T THEN Append(g[n - 1], s[n]) ELSE g[n - 1]]
<1>6. g = [n \in 0..N |-> IF n = 0 THEN <<>> ELSE IF s[n] \in T THEN Append(g[n - 1], s[n]) ELSE g[n - 1]]
  BY <1>5
<1>7. Only(s, T) = g[N]
  BY DEF Only, N
<1> HIDE DEF g
<1>8. g[0] = <<>> /\ \A n \in 1..N : g[n] = IF s[n] \in T THEN Append(g[n - 1], s[n]) ELSE g[n - 1]
  <2>1. 0 \in 0..N /\ \A n \in 1..N : n \in 0..N /\ n # 0
    BY <1>1
  <2> QED BY <1>6, <2>1
<1>9. \A n \in 0..N : g[n] \in Seq(S)
  <2> DEFINE U == {n \in Nat : n <= N => g[n] \in Seq(S)}
  <2>1. 0 \in U
    BY <1>1, <1>8
  <2>2. ASSUME NEW n \in Nat, n \in U PROVE n + 1 \in U
    <3>1. SUFFICES ASSUME n + 1 <= N PROVE g[n + 1] \in Seq(S)
      OBVIOUS
    <3>2. g[n] \in Seq(S) /\ n + 1 \in 1..N /\ (n + 1) - 1 = n /\ s[n + 1] \in S
      BY <1>1, <2>2, <3>1
    <3>3. g[n + 1] = IF s[n + 1] \in T THEN Append(g[n], s[n + 1]) ELSE g[n]
      BY <1>8, <3>2
    <3> QED BY <3>2, <3>3
  <2>3. \A n \in Nat : n \in U => n + 1 \in U
    BY <2>2
  <2> HIDE DEF U
  <2>4. \A n \in Nat : n \in U
    BY <2>1, <2>3, Induct
  <2> QED BY <1>1, <2>4 DEF U
<1>10. g \in [0..N -> Seq(S)]
  BY <1>6, <1>9
<1> QED BY <1>7, <1>8, <1>10 DEF KeptOf, N

\* There is one such function.
LEMMA KeptOnce ==
  ASSUME NEW S, NEW s \in Seq(S), NEW T, NEW t \in Seq(S), NEW R,
         NEW f, NEW g, KeptOf(f, s, T), KeptOf(g, t, R), Len(s) <= Len(t),
         \A n \in 1..Len(s) : s[n] = t[n] /\ (s[n] \in T <=> t[n] \in R)
  PROVE  \A n \in 0..Len(s) : f[n] = g[n]
<1> DEFINE U == {n \in Nat : n <= Len(s) => f[n] = g[n]}
<1>1. 0 \in U
  BY DEF KeptOf
<1>2. ASSUME NEW n \in Nat, n \in U PROVE n + 1 \in U
  <2>1. SUFFICES ASSUME n + 1 <= Len(s) PROVE f[n + 1] = g[n + 1]
    OBVIOUS
  <2>2. n + 1 \in 1..Len(s) /\ n + 1 \in 1..Len(t) /\ (n + 1) - 1 = n /\ f[n] = g[n]
    BY <1>2, <2>1
  <2>3. /\ f[n + 1] = IF s[n + 1] \in T THEN Append(f[n], s[n + 1]) ELSE f[n]
        /\ g[n + 1] = IF t[n + 1] \in R THEN Append(g[n], t[n + 1]) ELSE g[n]
    BY <2>2 DEF KeptOf
  <2> QED BY <2>2, <2>3
<1>3. \A n \in Nat : n \in U => n + 1 \in U
  BY <1>2
<1> HIDE DEF U
<1>4. \A n \in Nat : n \in U
  BY <1>1, <1>3, Induct
<1> QED BY <1>4 DEF U

\* Only the elements of the sequence itself matter.
LEMMA OnlySame ==
  ASSUME NEW S, NEW s \in Seq(S), NEW T, NEW R, \A n \in 1..Len(s) : s[n] \in T <=> s[n] \in R
  PROVE  Only(s, T) = Only(s, R)
<1>1. PICK f \in [0..Len(s) -> Seq(S)] : KeptOf(f, s, T) /\ Only(s, T) = f[Len(s)]
  BY OnlyIs
<1>2. PICK g \in [0..Len(s) -> Seq(S)] : KeptOf(g, s, R) /\ Only(s, R) = g[Len(s)]
  BY OnlyIs
<1>3. \A n \in 0..Len(s) : f[n] = g[n]
  BY <1>1, <1>2, KeptOnce
<1> QED BY <1>1, <1>2, <1>3

\* A comprehension of two parts is made of theirs.
LEMMA OnlyConcat ==
  ASSUME NEW S, NEW s \in Seq(S), NEW t \in Seq(S), NEW T
  PROVE  Only(s \o t, T) = Only(s, T) \o Only(t, T)
<1> DEFINE u == s \o t
<1>0. /\ Len(s) \in Nat /\ Len(t) \in Nat /\ u \in Seq(S) /\ Len(u) = Len(s) + Len(t)
      /\ Len(s) \in 0..Len(s) /\ Len(t) \in 0..Len(t)
  BY ConcatProperties
<1>1. /\ \A n \in 1..Len(s) : u[n] = s[n] /\ s[n] \in S
      /\ \A n \in 1..Len(t) : u[Len(s) + n] = t[n] /\ t[n] \in S
  <2>1. ASSUME NEW n \in 1..(Len(s) + Len(t)) PROVE u[n] = IF n <= Len(s) THEN s[n] ELSE t[n - Len(s)]
    BY ConcatProperties
  <2>2. ASSUME NEW n \in 1..Len(s) PROVE u[n] = s[n]
    BY <1>0, <2>1, <2>2
  <2>3. ASSUME NEW n \in 1..Len(t) PROVE u[Len(s) + n] = t[n]
    <3>1. Len(s) + n \in 1..(Len(s) + Len(t)) /\ ~(Len(s) + n <= Len(s)) /\ (Len(s) + n) - Len(s) = n
      BY <1>0
    <3> QED BY <2>1, <3>1
  <2> QED BY <2>2, <2>3
<1> HIDE DEF u
<1>2. PICK f \in [0..Len(s) -> Seq(S)] : KeptOf(f, s, T) /\ Only(s, T) = f[Len(s)]
  BY OnlyIs
<1>3. PICK g \in [0..Len(t) -> Seq(S)] : KeptOf(g, t, T) /\ Only(t, T) = g[Len(t)]
  BY OnlyIs
<1>4. PICK h \in [0..Len(u) -> Seq(S)] : KeptOf(h, u, T) /\ Only(u, T) = h[Len(u)]
  BY <1>0, OnlyIs
<1>5. h[Len(s)] = f[Len(s)]
  <2>1. /\ s \in Seq(S) /\ u \in Seq(S) /\ KeptOf(f, s, T) /\ KeptOf(h, u, T) /\ Len(s) <= Len(u)
        /\ \A n \in 1..Len(s) : s[n] = u[n] /\ (s[n] \in T <=> u[n] \in T)
    BY <1>0, <1>1, <1>2, <1>4
  <2>2. \A n \in 0..Len(s) : f[n] = h[n]
    BY <2>1, KeptOnce, SMTT(60)
  <2> QED BY <1>0, <2>2
<1> DEFINE Q(n) == h[Len(s) + n] = f[Len(s)] \o g[n]
           U == {n \in Nat : n <= Len(t) => Q(n)}
<1>6. 0 \in U
  <2> DEFINE n == Len(s)
  <2>0. n + 0 = n /\ f[n] \in Seq(S)
    <3>1. n \in Nat /\ n \in 0..n /\ f \in [0..n -> Seq(S)]
      BY <1>0, <1>2
    <3> HIDE DEF n
    <3> QED BY <3>1
  <2>1. g[0] = <<>> /\ f[Len(s)] \in Seq(S) /\ Len(s) + 0 = Len(s)
    BY <2>0, <1>3 DEF KeptOf
  <2>2. f[Len(s)] \o <<>> = f[Len(s)]
    BY <2>1
  <2> QED BY <1>5, <2>1, <2>2
<1>7. ASSUME NEW n \in Nat, n \in U PROVE n + 1 \in U
  <2>1. SUFFICES ASSUME n + 1 <= Len(t) PROVE Q(n + 1)
    <3> HIDE DEF Q
    <3> QED OBVIOUS
  <2>2. /\ n + 1 \in 1..Len(t) /\ (n + 1) - 1 = n /\ n \in 0..Len(t)
        /\ Len(s) + (n + 1) \in 1..Len(u) /\ (Len(s) + (n + 1)) - 1 = Len(s) + n
        /\ h[Len(s) + n] = f[Len(s)] \o g[n]
    BY <1>0, <1>7, <2>1
  <2>3. /\ g[n + 1] = IF t[n + 1] \in T THEN Append(g[n], t[n + 1]) ELSE g[n]
        /\ h[Len(s) + (n + 1)] = IF t[n + 1] \in T THEN Append(h[Len(s) + n], t[n + 1]) ELSE h[Len(s) + n]
    <3>1. u[Len(s) + (n + 1)] = t[n + 1]
      BY <1>1, <2>2
    <3> QED BY <1>3, <1>4, <2>2, <3>1 DEF KeptOf
  <2>4. f[Len(s)] \in Seq(S) /\ g[n] \in Seq(S) /\ t[n + 1] \in S
    BY <1>0, <1>1, <1>2, <1>3, <2>2
  <2>5. Append(f[Len(s)] \o g[n], t[n + 1]) = f[Len(s)] \o Append(g[n], t[n + 1])
    <3> DEFINE a == f[Len(s)]
               b == g[n]
               c == t[n + 1]
    <3>1. a \in Seq(S) /\ b \in Seq(S) /\ c \in S
      BY <2>4
    <3> HIDE DEF a, b, c
    <3>2. Append(a \o b, c) = a \o Append(b, c)
      <4> DEFINE ab == a \o b
      <4>1. /\ ab \in Seq(S) /\ Len(ab) = Len(a) + Len(b) /\ Len(a) \in Nat /\ Len(b) \in Nat
            /\ \A i \in 1..(Len(a) + Len(b)) : ab[i] = IF i <= Len(a) THEN a[i] ELSE b[i - Len(a)]
        BY <3>1, ConcatProperties
      <4> HIDE DEF ab
      <4>2. /\ Append(ab, c) \in Seq(S) /\ Append(b, c) \in Seq(S)
            /\ Len(Append(ab, c)) = Len(ab) + 1 /\ Len(Append(b, c)) = Len(b) + 1
            /\ Append(ab, c)[Len(ab) + 1] = c /\ Append(b, c)[Len(b) + 1] = c
        BY <3>1, <4>1, AppendProperties
      <4>3. ASSUME NEW i \in 1..Len(a) PROVE Append(ab, c)[i] = a[i]
        <5>1. i \in 1..Len(ab)
          BY <4>1
        <5> QED BY <3>1, <4>1, <5>1
      <4>4. ASSUME NEW i \in 1..Len(Append(b, c)) PROVE Append(ab, c)[Len(a) + i] = Append(b, c)[i]
        <5>1. CASE i \in 1..Len(b)
          <6>1. Len(a) + i \in 1..Len(ab) /\ ~(Len(a) + i <= Len(a)) /\ (Len(a) + i) - Len(a) = i
            BY <4>1, <5>1
          <6> QED BY <3>1, <4>1, <5>1, <6>1
        <5>2. CASE i = Len(b) + 1
          <6>1. Len(a) + i = Len(ab) + 1
            BY <4>1, <5>2
          <6> QED BY <4>2, <5>2, <6>1
        <5>3. i \in 1..(Len(b) + 1)
          BY <4>2
        <5> QED BY <4>1, <5>1, <5>2, <5>3
      <4>6. Len(Append(ab, c)) = Len(a) + Len(Append(b, c))
        BY <4>1, <4>2
      <4>5. Append(ab, c) = a \o Append(b, c)
        BY <3>1, <4>2, <4>3, <4>4, <4>6, ConcatIs
      <4> QED BY <4>5 DEF ab
    <3> QED BY <3>2 DEF a, b, c
  <2> QED BY <2>2, <2>3, <2>5
<1>8. \A n \in Nat : n \in U => n + 1 \in U
  BY <1>7
<1> HIDE DEF U
<1>9. \A n \in Nat : n \in U
  BY <1>6, <1>8, Induct
<1>10. h[Len(s) + Len(t)] = f[Len(s)] \o g[Len(t)]
  <2>1. Len(t) \in Nat /\ Len(t) <= Len(t) /\ Len(t) \in U
    BY <1>0, <1>9
  <2>2. Q(Len(t))
    <3> HIDE DEF Q
    <3> QED BY <2>1 DEF U
  <2> QED BY <2>2
<1> QED BY <1>0, <1>2, <1>3, <1>4, <1>10 DEF u

\* What a comprehension has comes from the sequence and passes the condition; it is no longer.
LEMMA OnlyHas ==
  ASSUME NEW S, NEW s \in Seq(S), NEW T
  PROVE  /\ Only(s, T) \in Seq(S) /\ Len(Only(s, T)) <= Len(s)
         /\ \A i \in 1..Len(Only(s, T)) : \E n \in 1..Len(s) : Only(s, T)[i] = s[n] /\ s[n] \in T
<1>1. PICK f \in [0..Len(s) -> Seq(S)] : KeptOf(f, s, T) /\ Only(s, T) = f[Len(s)]
  BY OnlyIs
<1> DEFINE Q(n) == /\ Len(f[n]) <= n
                   /\ \A i \in 1..Len(f[n]) : \E m \in 1..Len(s) : f[n][i] = s[m] /\ s[m] \in T
           U == {n \in Nat : n <= Len(s) => Q(n)}
<1>2. 0 \in U
  BY <1>1 DEF KeptOf
<1>3. ASSUME NEW n \in Nat, n \in U PROVE n + 1 \in U
  <2>1. SUFFICES ASSUME n + 1 <= Len(s) PROVE Q(n + 1)
    OBVIOUS
  <2>2. /\ n + 1 \in 1..Len(s) /\ (n + 1) - 1 = n /\ n \in 0..Len(s) /\ f[n] \in Seq(S) /\ s[n + 1] \in S
        /\ Q(n)
    BY <1>1, <1>3, <2>1
  <2>3. f[n + 1] = IF s[n + 1] \in T THEN Append(f[n], s[n + 1]) ELSE f[n]
    BY <1>1, <2>2 DEF KeptOf
  <2>4. CASE s[n + 1] \notin T
    BY <2>2, <2>3, <2>4
  <2>5. CASE s[n + 1] \in T
    <3>1. /\ Len(f[n + 1]) = Len(f[n]) + 1 /\ Len(f[n]) \in Nat /\ f[n + 1][Len(f[n]) + 1] = s[n + 1]
          /\ \A i \in 1..Len(f[n]) : f[n + 1][i] = f[n][i]
      BY <2>2, <2>3, <2>5
    <3>2. ASSUME NEW i \in 1..Len(f[n + 1]) PROVE \E m \in 1..Len(s) : f[n + 1][i] = s[m] /\ s[m] \in T
      <4>1. CASE i \in 1..Len(f[n])
        BY <2>2, <3>1, <4>1
      <4>2. CASE i = Len(f[n]) + 1
        BY <2>2, <2>5, <3>1, <4>2
      <4> QED BY <3>1, <4>1, <4>2
    <3> QED BY <2>2, <3>1, <3>2
  <2> QED BY <2>4, <2>5
<1>4. \A n \in Nat : n \in U => n + 1 \in U
  BY <1>3
<1>5. Len(s) \in Nat /\ Len(s) <= Len(s)
  OBVIOUS
<1>6. Len(s) \in U
  <2> HIDE DEF U
  <2> QED BY <1>2, <1>4, <1>5, Induct
<1>7. f[Len(s)] \in Seq(S)
  BY <1>1, <1>5
<1>8. Q(Len(s))
  <2> HIDE DEF Q
  <2> QED BY <1>5, <1>6
<1> QED BY <1>1, <1>7, <1>8


-----------------------------------------------------------------------------
(* Fusion: the order by scores.                                            *)

\* Each of the keys stands in the order once, and those with higher scores before the others:
\* the keys before a key are fewer than those before any key behind it.
LEMMA RankedIs ==
  ASSUME NEW keys \in SUBSET (Nat \X Nat), IsFiniteSet(keys), NEW score, \A key \in keys : score[key] \in Nat
  PROVE  /\ Cardinality(keys) \in Nat
         /\ Ranked(keys, score) \in Seq(keys) /\ Len(Ranked(keys, score)) = Cardinality(keys)
         /\ \A key \in keys : \E i \in 1..Cardinality(keys) : Ranked(keys, score)[i] = key
         /\ \A i, j \in 1..Cardinality(keys) :
              score[Ranked(keys, score)[i]] > score[Ranked(keys, score)[j]] => i < j
<1> DEFINE Before(a, b) == score[a] > score[b] \/ (score[a] = score[b] /\ KeyBefore(a, b))
           Down(key) == {other \in keys : Before(other, key)}
           Place(key) == Cardinality(Down(key))
           N == Cardinality(keys)
           r == [i \in 1..N |-> CHOOSE key \in keys : Place(key) = i - 1]
<1>1. r = Ranked(keys, score)
  BY DEF Ranked
<1>2. N \in Nat
  BY FS_CardinalityType
<1>3. \A a, b \in keys : a # b => Before(a, b) \/ Before(b, a)
  <2>1. ASSUME NEW a \in keys, NEW b \in keys, a # b PROVE Before(a, b) \/ Before(b, a)
    <3>1. /\ a[1] \in Nat /\ a[2] \in Nat /\ b[1] \in Nat /\ b[2] \in Nat /\ (a[1] # b[1] \/ a[2] # b[2])
          /\ score[a] \in Nat /\ score[b] \in Nat
      BY <2>1
    <3> QED BY <3>1 DEF KeyBefore
  <2> QED BY <2>1
<1>4. \A a \in keys : ~Before(a, a)
  <2>1. ASSUME NEW a \in keys PROVE ~Before(a, a)
    <3>1. a[1] \in Nat /\ a[2] \in Nat /\ score[a] \in Nat
      OBVIOUS
    <3> QED BY <3>1 DEF KeyBefore
  <2> QED BY <2>1
<1>5. \A a, b, c \in keys : Before(a, b) /\ Before(b, c) => Before(a, c)
  <2>1. ASSUME NEW a \in keys, NEW b \in keys, NEW c \in keys, Before(a, b), Before(b, c) PROVE Before(a, c)
    <3>1. /\ a[1] \in Nat /\ a[2] \in Nat /\ b[1] \in Nat /\ b[2] \in Nat /\ c[1] \in Nat /\ c[2] \in Nat
          /\ score[a] \in Nat /\ score[b] \in Nat /\ score[c] \in Nat
      OBVIOUS
    <3> QED BY <2>1, <3>1 DEF KeyBefore
  <2> QED BY <2>1
<1> HIDE DEF Before
<1>6. \A a \in keys : Down(a) \in SUBSET keys /\ IsFiniteSet(Down(a)) /\ Place(a) \in Nat
  BY FS_Subset, FS_CardinalityType
<1>7. ASSUME NEW a \in keys, NEW b \in keys, Before(a, b) PROVE Place(a) < Place(b)
  <2>1. Down(a) \in SUBSET Down(b) /\ a \in Down(b) /\ a \notin Down(a)
    BY <1>4, <1>5, <1>7
  <2>2. Place(a) <= Place(b) /\ Place(a) # Place(b)
    BY <1>6, <2>1, FS_Subset
  <2> QED BY <1>6, <2>2
<1>8. ASSUME NEW a \in keys PROVE Place(a) + 1 \in 1..N
  <2>1. a \notin Down(a)
    BY <1>4
  <2>2. Place(a) <= N /\ Place(a) # N
    BY <1>6, <2>1, FS_Subset
  <2> QED BY <1>2, <1>6, <2>2
<1> DEFINE f == [key \in keys |-> Place(key) + 1]
<1> HIDE DEF Place, Down
<1>9. \A a, b \in keys : Place(a) = Place(b) => a = b
  <2>1. ASSUME NEW a \in keys, NEW b \in keys, a # b PROVE Place(a) # Place(b)
    BY <1>3, <1>6, <1>7, <2>1
  <2> QED BY <2>1
<1>10. f \in Injection(keys, 1..N)
  <2>1. f \in [keys -> 1..N]
    BY <1>8
  <2>2. \A a, b \in keys : f[a] = f[b] => a = b
    BY <1>6, <1>9
  <2> QED BY <2>1, <2>2 DEF Injection, IsInjective
<1>11. f \in Surjection(keys, 1..N)
  <2>1. IsFiniteSet(1..N) /\ Cardinality(1..N) = N
    <3>1. N \in Nat
      BY <1>2
    <3> HIDE DEF N
    <3>2. 1 \in Int /\ N \in Int /\ (1 > N <=> N = 0) /\ N - 1 + 1 = N
      BY <3>1
    <3> QED BY ONLY <3>2, FS_Interval
  <2> QED BY <1>10, <2>1, FS_Injection
<1>12. ASSUME NEW i \in 1..N PROVE r[i] \in keys /\ Place(r[i]) = i - 1
  <2>1. PICK key \in keys : f[key] = i
    BY <1>11 DEF Surjection
  <2>2. Place(key) = i - 1
    BY <1>6, <2>1
  <2> QED BY <2>2
<1> HIDE DEF r
<1>13. r \in Seq(keys) /\ Len(r) = N
  <2>1. r \in [1..N -> keys]
    BY <1>12 DEF r
  <2> QED BY <1>2, <2>1
<1>14. ASSUME NEW key \in keys PROVE \E i \in 1..N : r[i] = key
  <2>1. Place(key) + 1 \in 1..N /\ Place(r[Place(key) + 1]) = (Place(key) + 1) - 1 /\ r[Place(key) + 1] \in keys
    BY <1>8, <1>12
  <2>2. r[Place(key) + 1] = key
    BY <1>6, <1>9, <2>1
  <2> QED BY <2>1, <2>2
<1>15. ASSUME NEW i \in 1..N, NEW j \in 1..N, score[r[i]] > score[r[j]] PROVE i < j
  <2>1. Before(r[i], r[j])
    BY <1>15 DEF Before
  <2>2. Place(r[i]) < Place(r[j])
    BY <1>7, <1>12, <2>1
  <2> QED BY <1>12, <2>2
<1> QED BY <1>1, <1>2, <1>13, <1>14, <1>15 DEF N
-----------------------------------------------------------------------------
(* Fusion: sums of parts and the unit of scores.                           *)

\* The sum of the first n parts.
SumOf(f, parts) == f[0] = 0 /\ \A n \in 1..Len(Weight) : f[n] = f[n - 1] + parts[n]

LEMMA TotalIs ==
  ASSUME NEW parts, parts \in [1..Len(Weight) -> Nat]
  PROVE  \E f \in [0..Len(Weight) -> Nat] : SumOf(f, parts) /\ Total(parts) = f[Len(Weight)]
<1> DEFINE N == Len(Weight)
           V == Nat
           st == [n \in 1..N |-> [v \in V |-> v + parts[n]]]
<1>1. N \in Nat /\ 0 \in V
  BY FusionAssumption
<1>2. st \in [1..N -> [V -> V]]
  OBVIOUS
<1> HIDE DEF N, V, st
<1>3. PICK f \in [0..N -> V] : f[0] = 0 /\ \A n \in 1..N : f[n] = st[n][f[n - 1]]
  BY ONLY <1>1, <1>2, Recursion
<1>4. ASSUME NEW n \in 1..N PROVE f[n] = f[n - 1] + parts[n]
  <2>1. n - 1 \in 0..N /\ f[n - 1] \in V /\ f[n] = st[n][f[n - 1]]
    BY <1>1, <1>3
  <2> QED BY <2>1 DEF st
<1>5. f = [n \in 0..N |-> IF n = 0 THEN 0 ELSE f[n - 1] + parts[n]]
  <2>1. \A n \in 0..N : n = 0 \/ n \in 1..N
    BY <1>1
  <2> QED BY <1>3, <1>4, <2>1
<1> DEFINE g == CHOOSE g : g = [n \in 0..N |-> IF n = 0 THEN 0 ELSE g[n - 1] + parts[n]]
<1>6. g = [n \in 0..N |-> IF n = 0 THEN 0 ELSE g[n - 1] + parts[n]]
  BY <1>5
<1>7. Total(parts) = g[N]
  BY DEF Total, N
<1> HIDE DEF g
<1>8. g[0] = 0 /\ \A n \in 1..N : g[n] = g[n - 1] + parts[n]
  <2>1. 0 \in 0..N /\ \A n \in 1..N : n \in 0..N /\ n # 0
    BY <1>1
  <2> QED BY <1>6, <2>1
<1>9. \A n \in 0..N : g[n] \in Nat
  <2> DEFINE U == {n \in Nat : n <= N => g[n] \in Nat}
  <2>1. 0 \in U
    BY <1>1, <1>8
  <2>2. ASSUME NEW n \in Nat, n \in U PROVE n + 1 \in U
    <3>1. SUFFICES ASSUME n + 1 <= N PROVE g[n + 1] \in Nat
      OBVIOUS
    <3>2. g[n] \in Nat /\ n + 1 \in 1..N /\ (n + 1) - 1 = n /\ parts[n + 1] \in Nat
      BY <1>1, <2>2, <3>1 DEF N
    <3>3. g[n + 1] = g[n] + parts[n + 1]
      BY <1>8, <3>2
    <3> QED BY <3>2, <3>3
  <2>3. \A n \in Nat : n \in U => n + 1 \in U
    BY <2>2
  <2> HIDE DEF U
  <2>4. \A n \in Nat : n \in U
    BY <2>1, <2>3, Induct
  <2> QED BY <1>1, <2>4 DEF U
<1>10. g \in [0..N -> Nat]
  BY <1>6, <1>9
<1> QED BY <1>7, <1>8, <1>10 DEF SumOf, N

\* Who has no less in any part has no less in all, and the same only if he has the same in each.
LEMMA TotalGrows ==
  ASSUME NEW p \in [1..Len(Weight) -> Nat], NEW q \in [1..Len(Weight) -> Nat],
         \A n \in 1..Len(Weight) : p[n] <= q[n]
  PROVE  /\ Total(p) \in Nat /\ Total(q) \in Nat /\ Total(p) <= Total(q)
         /\ Total(p) = Total(q) => \A n \in 1..Len(Weight) : p[n] = q[n]
<1> DEFINE N == Len(Weight)
<1>0. N \in Nat /\ N \in 0..N
  BY FusionAssumption
<1>1. PICK f \in [0..N -> Nat] : SumOf(f, p) /\ Total(p) = f[N]
  BY TotalIs
<1>2. PICK g \in [0..N -> Nat] : SumOf(g, q) /\ Total(q) = g[N]
  BY TotalIs
<1> DEFINE Q(n) == f[n] <= g[n] /\ (f[n] = g[n] => \A k \in 1..n : p[k] = q[k])
           U == {n \in Nat : n <= N => Q(n)}
<1>3. 0 \in U
  BY <1>1, <1>2 DEF SumOf
<1>4. ASSUME NEW n \in Nat, n \in U PROVE n + 1 \in U
  <2>1. SUFFICES ASSUME n + 1 <= N PROVE Q(n + 1)
    <3> HIDE DEF Q, N
    <3> QED OBVIOUS
  <2>0. n + 1 \in 1..N /\ (n + 1) - 1 = n /\ n \in 0..N /\ n <= N
    <3> HIDE DEF N
    <3> QED BY <1>0, <2>1
  <2>a. Q(n)
    <3> HIDE DEF Q, N
    <3> QED BY <1>4, <2>0
  <2>b. f[n] \in Nat /\ g[n] \in Nat
    <3> HIDE DEF N
    <3> QED BY <1>1, <1>2, <2>0
  <2>c. p[n + 1] \in Nat /\ q[n + 1] \in Nat /\ p[n + 1] <= q[n + 1]
    BY <2>0
  <2>2. /\ n + 1 \in 1..N /\ (n + 1) - 1 = n /\ n \in 0..N /\ Q(n)
        /\ f[n] \in Nat /\ g[n] \in Nat /\ p[n + 1] \in Nat /\ q[n + 1] \in Nat /\ p[n + 1] <= q[n + 1]
    <3> HIDE DEF Q, N
    <3> QED BY <2>0, <2>a, <2>b, <2>c
  <2>3. f[n + 1] = f[n] + p[n + 1] /\ g[n + 1] = g[n] + q[n + 1]
    BY <1>1, <1>2, <2>2 DEF SumOf
  <2>4. f[n + 1] <= g[n + 1] /\ (f[n + 1] = g[n + 1] => f[n] = g[n] /\ p[n + 1] = q[n + 1])
    BY <2>2, <2>3
  <2>5. \A k \in 1..(n + 1) : k \in 1..n \/ k = n + 1
    OBVIOUS
  <2> QED BY <2>2, <2>4, <2>5
<1>5. \A n \in Nat : n \in U => n + 1 \in U
  BY <1>4
<1>6. N \in U
  <2> HIDE DEF U, N
  <2> QED BY <1>0, <1>3, <1>5, Induct
<1>7. Q(N)
  <2>1. N <= N
    BY <1>0
  <2> HIDE DEF Q, N
  <2> QED BY <1>6, <2>1
<1>8. f[N] \in Nat /\ g[N] \in Nat
  BY <1>0, <1>1, <1>2
<1> QED BY <1>1, <1>2, <1>7, <1>8

\* Products of positive numbers.
LEMMA Times ==
  ASSUME NEW a \in Nat, NEW b \in Nat
  PROVE  /\ a * b \in Nat /\ a * b = b * a
         /\ a > 0 /\ b > 0 => a * b > 0
         /\ \A c \in Nat : b > c /\ a > 0 => a * b > a * c
         /\ \A c \in Nat : b >= c => a * b >= a * c
OBVIOUS

LEMMA Quotient ==
  ASSUME NEW q \in Nat, NEW b \in Nat \ {0}
  PROVE  (q * b) \div b = q
<1> DEFINE d == (q * b) \div b
<1>1. d \in Nat /\ q * b \in Nat /\ q * b >= b * d /\ q * b < b * d + b
  OBVIOUS
<1> QED BY <1>1

\* The product of the first n ranks, each on top of RrfK.
ProductOf(f) == f[0] = 1 /\ \A n \in 1..MaxDepth : f[n] = f[n - 1] * (RrfK + n)

LEMMA UnitIs == \E f \in [0..MaxDepth -> Nat \ {0}] : ProductOf(f) /\ Unit = f[MaxDepth]
<1> DEFINE N == MaxDepth
           P == Nat \ {0}
           st == [n \in 1..N |-> [v \in P |-> v * (RrfK + n)]]
<1>1. N \in Nat /\ 1 \in P
  BY FusionAssumption
<1>2. \A n \in 1..N, v \in P : v * (RrfK + n) \in P
  <2>1. ASSUME NEW n \in 1..N, NEW v \in P PROVE v * (RrfK + n) \in P
    <3>1. RrfK + n \in Nat /\ RrfK + n > 0 /\ v \in Nat /\ v > 0
      BY FusionAssumption
    <3>2. v * (RrfK + n) \in Nat /\ v * (RrfK + n) > 0
      BY ONLY <3>1, Times
    <3> QED BY <3>2
  <2> QED BY <2>1
<1>3. st \in [1..N -> [P -> P]]
  BY <1>2
<1> HIDE DEF N, P, st
<1>4. PICK f \in [0..N -> P] : f[0] = 1 /\ \A n \in 1..N : f[n] = st[n][f[n - 1]]
  BY ONLY <1>1, <1>3, Recursion
<1>5. ASSUME NEW n \in 1..N PROVE f[n] = f[n - 1] * (RrfK + n)
  <2>1. n - 1 \in 0..N /\ f[n - 1] \in P /\ f[n] = st[n][f[n - 1]]
    BY <1>1, <1>4
  <2> QED BY <2>1 DEF st
<1>6. f = [n \in 0..N |-> IF n = 0 THEN 1 ELSE f[n - 1] * (RrfK + n)]
  <2>1. \A n \in 0..N : n = 0 \/ n \in 1..N
    BY <1>1
  <2> QED BY <1>4, <1>5, <2>1
<1> DEFINE g == CHOOSE g : g = [n \in 0..N |-> IF n = 0 THEN 1 ELSE g[n - 1] * (RrfK + n)]
<1>7. g = [n \in 0..N |-> IF n = 0 THEN 1 ELSE g[n - 1] * (RrfK + n)]
  BY <1>6
<1>8. Unit = g[N]
  BY DEF Unit, N
<1> HIDE DEF g
<1>9. g[0] = 1 /\ \A n \in 1..N : g[n] = g[n - 1] * (RrfK + n)
  <2>1. 0 \in 0..N /\ \A n \in 1..N : n \in 0..N /\ n # 0
    BY <1>1
  <2> QED BY <1>7, <2>1
<1>10. \A n \in 0..N : g[n] \in P
  <2> DEFINE U == {n \in Nat : n <= N => g[n] \in P}
  <2>1. 0 \in U
    BY <1>1, <1>9
  <2>2. ASSUME NEW n \in Nat, n \in U PROVE n + 1 \in U
    <3>1. SUFFICES ASSUME n + 1 <= N PROVE g[n + 1] \in P
      OBVIOUS
    <3>2. g[n] \in P /\ n + 1 \in 1..N /\ (n + 1) - 1 = n
      BY <1>1, <2>2, <3>1
    <3>3. g[n + 1] = g[n] * (RrfK + (n + 1))
      BY <1>9, <3>2
    <3>4. g[n] * (RrfK + (n + 1)) \in P
      BY <1>2, <3>2 DEF N, P
    <3> QED BY <3>3, <3>4
  <2>3. \A n \in Nat : n \in U => n + 1 \in U
    BY <2>2
  <2> HIDE DEF U
  <2>4. \A n \in Nat : n \in U
    BY <2>1, <2>3, Induct
  <2> QED BY <1>1, <2>4 DEF U
<1>11. g \in [0..N -> P]
  BY <1>7, <1>10
<1> QED BY <1>8, <1>9, <1>11 DEF ProductOf, N, P

\* The unit can be divided by what any rank of a list is counted as.
LEMMA UnitDivides ==
  ASSUME NEW k \in 1..MaxDepth
  PROVE  \E q \in Nat \ {0} : Unit = q * (RrfK + k)
<1>1. PICK f \in [0..MaxDepth -> Nat \ {0}] : ProductOf(f) /\ Unit = f[MaxDepth]
  BY UnitIs
<1> DEFINE Q(n) == k <= n => \E q \in Nat \ {0} : f[n] = q * (RrfK + k)
           U == {n \in Nat : n <= MaxDepth => Q(n)}
<1>2. 0 \in U
  OBVIOUS
<1>3. ASSUME NEW n \in Nat, n \in U PROVE n + 1 \in U
  <2>1. SUFFICES ASSUME n + 1 <= MaxDepth PROVE Q(n + 1)
    <3> HIDE DEF Q
    <3> QED OBVIOUS
  <2>2. n + 1 \in 1..MaxDepth /\ (n + 1) - 1 = n /\ n \in 0..MaxDepth /\ f[n] \in Nat \ {0}
    BY <1>1, <2>1, FusionAssumption
  <2>6. Q(n)
    <3> HIDE DEF Q
    <3> QED BY <1>3, <2>2
  <2>3. f[n + 1] = f[n] * (RrfK + (n + 1))
    BY <1>1, <2>2 DEF ProductOf
  <2>4. CASE k = n + 1
    BY <2>2, <2>3, <2>4
  <2>5. CASE k <= n
    <3>1. PICK q \in Nat \ {0} : f[n] = q * (RrfK + k)
      BY <2>6, <2>5
    <3> DEFINE m == RrfK + (n + 1)
               c == RrfK + k
    <3>2. m \in Nat /\ m > 0 /\ c \in Nat /\ q \in Nat /\ q > 0
      BY FusionAssumption
    <3>3. f[n + 1] = (q * c) * m
      BY <2>3, <3>1
    <3> HIDE DEF m, c
    <3>4. (q * c) * m = (q * m) * c /\ q * m \in Nat /\ q * m > 0
      BY <3>2
    <3> QED BY <3>3, <3>4 DEF c
  <2> QED BY <2>4, <2>5
<1>4. \A n \in Nat : n \in U => n + 1 \in U
  BY <1>3
<1>5. MaxDepth \in Nat /\ MaxDepth <= MaxDepth /\ k <= MaxDepth
  BY FusionAssumption
<1>6. MaxDepth \in U
  <2> HIDE DEF U
  <2> QED BY <1>2, <1>4, <1>5, Induct
<1>7. Q(MaxDepth)
  <2> HIDE DEF Q
  <2> QED BY <1>5, <1>6
<1> QED BY <1>1, <1>5, <1>7

\* A better rank counts for more, and any counts.
LEMMA TermFalls ==
  ASSUME NEW w \in Nat \ {0}, NEW j \in 1..MaxDepth
  PROVE  /\ Term(w, j) \in Nat /\ Term(w, j) > 0
         /\ \A i \in 1..MaxDepth : i < j => Term(w, i) > Term(w, j)
<1>0. RrfK \in Nat /\ MaxDepth \in Nat
  BY FusionAssumption
<1>1. ASSUME NEW k \in 1..MaxDepth
      PROVE  \E q \in Nat \ {0} : Unit = q * (RrfK + k) /\ Unit \div (RrfK + k) = q /\ Term(w, k) = w * q
  <2>1. PICK q \in Nat \ {0} : Unit = q * (RrfK + k)
    BY UnitDivides
  <2>2. RrfK + k \in Nat \ {0}
    BY <1>0
  <2>3. Unit \div (RrfK + k) = q
    BY <2>1, <2>2, Quotient
  <2> QED BY <2>1, <2>3 DEF Term
<1>2. PICK q \in Nat \ {0} : Unit = q * (RrfK + j) /\ Term(w, j) = w * q
  BY <1>1
<1>3. Term(w, j) \in Nat /\ Term(w, j) > 0
  BY <1>2, Times
<1>4. ASSUME NEW i \in 1..MaxDepth, i < j PROVE Term(w, i) > Term(w, j)
  <2>1. PICK p \in Nat \ {0} : Unit = p * (RrfK + i) /\ Term(w, i) = w * p
    BY <1>1
  <2> DEFINE a == RrfK + i
             b == RrfK + j
  <2>2. a \in Nat /\ b \in Nat /\ a < b /\ a > 0 /\ p * a = q * b
    BY <1>0, <1>2, <1>4, <2>1
  <2> HIDE DEF a, b
  <2>3. p > q
    <3>1. SUFFICES ASSUME p <= q PROVE FALSE
      OBVIOUS
    <3>2. p * a < p * b
      BY <2>2, Times
    <3>3. p * b <= q * b
      BY <2>2, <3>1
    <3>4. p * a \in Nat /\ p * b \in Nat /\ q * b \in Nat
      BY <2>2
    <3> QED BY <2>2, <3>2, <3>3, <3>4
  <2>4. w * p > w * q
    BY <2>3, Times
  <2> QED BY <1>2, <2>1, <2>4
<1> QED BY <1>3, <1>4
-----------------------------------------------------------------------------
(* Fusion: what the lists give a key.                                      *)

SourcesAre(sources, K) ==
    /\ DOMAIN sources \subseteq 1..Len(Weight)
    /\ \A r \in DOMAIN sources :
          sources[r] \in Seq([key : K, passed : BOOLEAN]) /\ Len(sources[r]) <= MaxDepth

\* The rank of a key is a place of the list, or zero.
LEMMA RankIs ==
  ASSUME NEW S, NEW list \in Seq(S), NEW key
  PROVE  RankOf(list, key) \in 0..Len(list) /\ (RankOf(list, key) > 0 <=> key \in KeysOf(list))
<1> DEFINE I == {i \in 1..Len(list) : list[i].key = key}
<1>0. Len(list) \in Nat /\ DOMAIN list = 1..Len(list)
  OBVIOUS
<1>1. RankOf(list, key) = IF I # {} THEN Min(I) ELSE 0
  BY DEF RankOf, SelectInSeq
<1>2. I \in SUBSET Nat /\ \A i \in I : i \in 1..Len(list)
  BY <1>0
<1>3. key \in KeysOf(list) <=> I # {}
  BY <1>0 DEF KeysOf, ToSet
<1> HIDE DEF I
<1>4. CASE I = {}
  BY <1>0, <1>1, <1>3, <1>4
<1>5. CASE I # {}
  <2>1. Min(I) \in I
    BY <1>2, <1>5, LeastIs
  <2>2. Min(I) \in 1..Len(list) /\ RankOf(list, key) = Min(I)
    BY <1>1, <1>2, <1>5, <2>1
  <2>3. RankOf(list, key) \in 0..Len(list) /\ RankOf(list, key) > 0
    BY ONLY <1>0, <2>2
  <2> QED BY <1>3, <1>5, <2>3
<1> QED BY <1>4, <1>5

\* There are finitely many keys.
LEMMA KeysAre ==
  ASSUME NEW K, NEW sources, SourcesAre(sources, K)
  PROVE  IsFiniteSet(KeysIn(sources)) /\ KeysIn(sources) \subseteq K
<1> DEFINE D == DOMAIN sources
           F == {KeysOf(sources[r]) : r \in D}
<1>1. IsFiniteSet(D)
  <2>1. IsFiniteSet(1..Len(Weight))
    <3>1. 1 \in Int /\ Len(Weight) \in Int
      BY FusionAssumption
    <3> QED BY <3>1, FS_Interval
  <2>2. D \in SUBSET (1..Len(Weight))
    BY DEF SourcesAre
  <2> QED BY <2>1, <2>2, FS_Subset
<1>2. IsFiniteSet(F)
  <2> DEFINE f == [r \in D |-> KeysOf(sources[r])]
  <2>1. f \in Surjection(D, F)
    <3>1. f \in [D -> F]
      OBVIOUS
    <3>2. \A k \in F : \E r \in D : f[r] = k
      OBVIOUS
    <3> QED BY <3>1, <3>2 DEF Surjection
  <2> QED BY <1>1, <2>1, FS_Surjection
<1>3. ASSUME NEW r \in D PROVE IsFiniteSet(KeysOf(sources[r])) /\ KeysOf(sources[r]) \subseteq K
  <2> DEFINE list == sources[r]
             f == [i \in 1..Len(list) |-> list[i].key]
             keys == KeysOf(list)
             R == [key : K, passed : BOOLEAN]
  <2>0. list \in Seq(R)
    BY DEF SourcesAre
  <2> HIDE DEF list, R
  <2>1. Len(list) \in Nat /\ DOMAIN list = 1..Len(list) /\ \A i \in 1..Len(list) : list[i] \in R
    BY <2>0
  <2>2. DOMAIN list = 1..Len(list) /\ \A i \in 1..Len(list) : list[i].key \in K
    BY <2>1 DEF R
  <2>3. keys = {list[i].key : i \in 1..Len(list)}
    BY <2>2 DEF KeysOf, ToSet
  <2>4. f \in Surjection(1..Len(list), keys)
    <3>1. f \in [1..Len(list) -> keys]
      BY <2>3
    <3>2. \A k \in keys : \E i \in 1..Len(list) : f[i] = k
      BY <2>3
    <3> HIDE DEF f, keys
    <3> QED BY <3>1, <3>2 DEF Surjection
  <2>5. IsFiniteSet(1..Len(list))
    BY <2>1, FS_Interval
  <2>6. IsFiniteSet(keys)
    BY ONLY <2>4, <2>5, FS_Surjection
  <2>7. keys \subseteq K
    BY <2>2, <2>3
  <2> QED BY <2>6, <2>7 DEF list
<1>4. KeysIn(sources) = UNION F
  BY DEF KeysIn
<1>5. \A T \in F : IsFiniteSet(T) /\ T \subseteq K
  BY <1>3
<1> HIDE DEF F
<1>6. IsFiniteSet(UNION F)
  BY <1>2, <1>5, FS_UNION
<1> QED BY <1>4, <1>5, <1>6

\* The parts of the score of a key, and of one that is the first of every list.
PartsOf(sources, key) ==
    [r \in DOMAIN Weight |->
        IF r \in DOMAIN sources /\ RankOf(sources[r], key) > 0
        THEN Term(Weight[r], RankOf(sources[r], key)) ELSE 0]
FirstParts(sources) ==
    [r \in DOMAIN Weight |-> IF r \in DOMAIN sources THEN Weight[r] * (Unit \div (RrfK + 1)) ELSE 0]

LEMMA PartsAre ==
  ASSUME NEW K, NEW sources, SourcesAre(sources, K), NEW r \in 1..Len(Weight)
  PROVE  /\ r \in DOMAIN Weight /\ Weight[r] \in Nat \ {0} /\ 1 \in 1..MaxDepth
         /\ FirstParts(sources)[r] = IF r \in DOMAIN sources THEN Term(Weight[r], 1) ELSE 0
         /\ \A key :
              /\ r \in DOMAIN sources =>
                   /\ RankOf(sources[r], key) \in 0..MaxDepth
                   /\ RankOf(sources[r], key) > 0 <=> key \in KeysOf(sources[r])
              /\ PartsOf(sources, key)[r] =
                   IF r \in DOMAIN sources /\ RankOf(sources[r], key) > 0
                   THEN Term(Weight[r], RankOf(sources[r], key)) ELSE 0
<1>1. r \in DOMAIN Weight /\ Weight[r] \in Nat \ {0} /\ 1 \in 1..MaxDepth
  BY FusionAssumption
<1>2. FirstParts(sources)[r] = IF r \in DOMAIN sources THEN Term(Weight[r], 1) ELSE 0
  BY <1>1 DEF FirstParts, Term
<1>3. ASSUME NEW key
      PROVE  /\ r \in DOMAIN sources =>
                   /\ RankOf(sources[r], key) \in 0..MaxDepth
                   /\ RankOf(sources[r], key) > 0 <=> key \in KeysOf(sources[r])
             /\ PartsOf(sources, key)[r] =
                   IF r \in DOMAIN sources /\ RankOf(sources[r], key) > 0
                   THEN Term(Weight[r], RankOf(sources[r], key)) ELSE 0
  <2>1. ASSUME r \in DOMAIN sources
        PROVE  /\ RankOf(sources[r], key) \in 0..MaxDepth
               /\ RankOf(sources[r], key) > 0 <=> key \in KeysOf(sources[r])
    <3>1. sources[r] \in Seq([key : K, passed : BOOLEAN]) /\ Len(sources[r]) <= MaxDepth
      BY <2>1 DEF SourcesAre
    <3>2. /\ RankOf(sources[r], key) \in 0..Len(sources[r])
          /\ RankOf(sources[r], key) > 0 <=> key \in KeysOf(sources[r])
      BY <3>1, RankIs
    <3>3. Len(sources[r]) \in Nat /\ MaxDepth \in Nat
      BY <3>1, FusionAssumption
    <3> QED BY <3>1, <3>2, <3>3
  <2> QED BY <1>1, <2>1 DEF PartsOf
<1> QED BY <1>1, <1>2, <1>3

LEMMA PartsType ==
  ASSUME NEW K, NEW sources, SourcesAre(sources, K)
  PROVE  /\ FirstParts(sources) \in [1..Len(Weight) -> Nat]
         /\ \A key : PartsOf(sources, key) \in [1..Len(Weight) -> Nat]
         /\ Denominator(sources) = Total(FirstParts(sources))
         /\ \A key : Raw(sources, key) = Total(PartsOf(sources, key)) /\ Raw(sources, key) \in Nat
<1>1. DOMAIN Weight = 1..Len(Weight)
  BY FusionAssumption
<1>2. FirstParts(sources) \in [1..Len(Weight) -> Nat]
  <2>1. \A r \in 1..Len(Weight) : FirstParts(sources)[r] \in Nat
    BY PartsAre, TermFalls
  <2>2. FirstParts(sources) = [r \in 1..Len(Weight) |-> FirstParts(sources)[r]]
    BY <1>1 DEF FirstParts
  <2> QED BY <2>1, <2>2
<1>3. ASSUME NEW key PROVE PartsOf(sources, key) \in [1..Len(Weight) -> Nat]
  <2>1. ASSUME NEW r \in 1..Len(Weight) PROVE PartsOf(sources, key)[r] \in Nat
    <3>1. CASE r \in DOMAIN sources /\ RankOf(sources[r], key) > 0
      <4>1. RankOf(sources[r], key) \in 1..MaxDepth /\ Weight[r] \in Nat \ {0}
        BY <3>1, PartsAre
      <4> QED BY <3>1, <4>1, PartsAre, TermFalls
    <3>2. CASE ~(r \in DOMAIN sources /\ RankOf(sources[r], key) > 0)
      BY <3>2, PartsAre
    <3> QED BY <3>1, <3>2
  <2>2. PartsOf(sources, key) = [r \in 1..Len(Weight) |-> PartsOf(sources, key)[r]]
    BY <1>1 DEF PartsOf
  <2> QED BY <2>1, <2>2
<1>4. Denominator(sources) = Total(FirstParts(sources))
  BY DEF Denominator, FirstParts
<1>5. ASSUME NEW key PROVE Raw(sources, key) = Total(PartsOf(sources, key))
  BY DEF Raw, PartsOf
<1>6. ASSUME NEW key PROVE Total(PartsOf(sources, key)) \in Nat
  <2>1. \A n \in 1..Len(Weight) : PartsOf(sources, key)[n] <= PartsOf(sources, key)[n]
    BY <1>3
  <2> QED BY <1>3, <2>1, TotalGrows
<1> QED BY <1>2, <1>3, <1>4, <1>5, <1>6

\* A key of some list scores, at most as much as one that is the first of every list.
LEMMA RawIs ==
  ASSUME NEW K, NEW sources, SourcesAre(sources, K), NEW key \in KeysIn(sources)
  PROVE  /\ Raw(sources, key) \in 1..Denominator(sources)
         /\ Raw(sources, key) = Denominator(sources) <=>
              \A r \in DOMAIN sources : RankOf(sources[r], key) = 1
<1> DEFINE N == Len(Weight)
           p == PartsOf(sources, key)
           q == FirstParts(sources)
           z == [n \in 1..N |-> 0]
<1>1. /\ p \in [1..N -> Nat] /\ q \in [1..N -> Nat] /\ z \in [1..N -> Nat]
      /\ Raw(sources, key) = Total(p) /\ Denominator(sources) = Total(q)
  BY PartsType
<1>2. DOMAIN sources \subseteq 1..N
  BY DEF SourcesAre
<1>3. ASSUME NEW r \in 1..N
      PROVE  /\ p[r] <= q[r]
             /\ r \in DOMAIN sources => (p[r] = q[r] <=> RankOf(sources[r], key) = 1)
             /\ r \notin DOMAIN sources => p[r] = q[r]
             /\ r \in DOMAIN sources /\ key \in KeysOf(sources[r]) => p[r] > 0
  <2> DEFINE k == RankOf(sources[r], key)
  <2>1. Weight[r] \in Nat \ {0} /\ 1 \in 1..MaxDepth
    BY PartsAre
  <2>2. CASE r \notin DOMAIN sources
    <3>1. p[r] = 0 /\ q[r] = 0
      BY <2>2, PartsAre
    <3> QED BY <2>2, <3>1
  <2>3. CASE r \in DOMAIN sources
    <3>1. k \in 0..MaxDepth /\ (k > 0 <=> key \in KeysOf(sources[r])) /\ q[r] = Term(Weight[r], 1)
          /\ p[r] = IF k > 0 THEN Term(Weight[r], k) ELSE 0
      BY <2>3, PartsAre
    <3> HIDE DEF k, p, q
    <3>2. Term(Weight[r], 1) \in Nat /\ Term(Weight[r], 1) > 0
      BY <2>1, TermFalls
    <3>3. CASE k = 0
      BY <2>3, <3>1, <3>2, <3>3 DEF k
    <3>4. CASE k = 1
      BY <2>3, <3>1, <3>2, <3>4 DEF k
    <3>5. CASE k > 1
      <4>1. k \in 1..MaxDepth /\ MaxDepth \in Nat
        BY <3>1, <3>5, FusionAssumption
      <4>2. Term(Weight[r], k) \in Nat /\ Term(Weight[r], k) > 0 /\ Term(Weight[r], 1) > Term(Weight[r], k)
        BY <2>1, <3>5, <4>1, TermFalls
      <4> QED BY <2>3, <3>1, <3>2, <3>5, <4>2 DEF k
    <3>6. k = 0 \/ k = 1 \/ k > 1
      BY <3>1, FusionAssumption
    <3> QED BY <3>3, <3>4, <3>5, <3>6
  <2> QED BY <2>2, <2>3
<1> HIDE DEF p, q, z
<1>4. Total(p) \in Nat /\ Total(q) \in Nat /\ Total(p) <= Total(q)
      /\ (Total(p) = Total(q) => \A n \in 1..N : p[n] = q[n])
  <2>1. \A n \in 1..N : p[n] <= q[n]
    BY <1>3
  <2> QED BY <1>1, <2>1, TotalGrows
<1>5. Total(p) > 0
  <2>1. \A n \in 1..N : z[n] <= p[n] /\ z[n] = 0
    BY <1>1 DEF z
  <2>2. Total(z) \in Nat /\ Total(z) <= Total(p) /\ (Total(z) = Total(p) => \A n \in 1..N : z[n] = p[n])
    BY <1>1, <2>1, TotalGrows
  <2>3. PICK r \in DOMAIN sources : key \in KeysOf(sources[r])
    BY DEF KeysIn
  <2>4. r \in 1..N /\ p[r] > 0 /\ z[r] = 0
    BY <1>2, <1>3, <2>1, <2>3
  <2>5. Total(z) # Total(p)
    BY <1>1, <2>2, <2>4
  <2> QED BY <1>4, <2>2, <2>5
<1>6. (\A r \in DOMAIN sources : RankOf(sources[r], key) = 1) => Total(p) = Total(q)
  <2>1. ASSUME \A r \in DOMAIN sources : RankOf(sources[r], key) = 1 PROVE p = q
    BY <1>1, <1>3, <2>1
  <2> QED BY <2>1
<1>7. Total(p) = Total(q) => \A r \in DOMAIN sources : RankOf(sources[r], key) = 1
  BY <1>2, <1>3, <1>4
<1> QED BY <1>1, <1>4, <1>5, <1>6, <1>7

\* Who is further up in each list that has the other scores higher.
LEMMA RawFalls ==
  ASSUME NEW K, NEW sources, SourcesAre(sources, K), NEW a, NEW b \in KeysIn(sources),
         \A r \in DOMAIN sources :
            RankOf(sources[r], b) > 0 => RankOf(sources[r], a) \in 1..(RankOf(sources[r], b) - 1)
  PROVE  Raw(sources, a) > Raw(sources, b)
<1> DEFINE N == Len(Weight)
           p == PartsOf(sources, b)
           q == PartsOf(sources, a)
<1>1. /\ p \in [1..N -> Nat] /\ q \in [1..N -> Nat]
      /\ Raw(sources, b) = Total(p) /\ Raw(sources, a) = Total(q)
  BY PartsType
<1>2. ASSUME NEW r \in 1..N
      PROVE  /\ p[r] <= q[r]
             /\ r \in DOMAIN sources /\ b \in KeysOf(sources[r]) => p[r] # q[r]
  <2> DEFINE j == RankOf(sources[r], b)
             i == RankOf(sources[r], a)
  <2>1. /\ Weight[r] \in Nat \ {0} /\ q[r] \in Nat /\ MaxDepth \in Nat
        /\ p[r] = IF r \in DOMAIN sources /\ j > 0 THEN Term(Weight[r], j) ELSE 0
        /\ q[r] = IF r \in DOMAIN sources /\ i > 0 THEN Term(Weight[r], i) ELSE 0
    BY <1>1, PartsAre, FusionAssumption
  <2>2. r \in DOMAIN sources => j \in 0..MaxDepth /\ i \in 0..MaxDepth /\ (j > 0 <=> b \in KeysOf(sources[r]))
    BY PartsAre
  <2>3. r \in DOMAIN sources /\ j > 0 => i \in 1..(j - 1)
    OBVIOUS
  <2> HIDE DEF i, j, p, q
  <2>4. CASE r \in DOMAIN sources /\ j > 0
    <3>1. i \in 1..MaxDepth /\ j \in 1..MaxDepth /\ i < j /\ i > 0
      BY <2>1, <2>2, <2>3, <2>4
    <3>2. Term(Weight[r], i) > Term(Weight[r], j) /\ Term(Weight[r], i) \in Nat /\ Term(Weight[r], j) \in Nat
      BY <2>1, <3>1, TermFalls
    <3> QED BY <2>1, <2>4, <3>1, <3>2
  <2>5. CASE ~(r \in DOMAIN sources /\ j > 0)
    BY <2>1, <2>2, <2>5
  <2> QED BY <2>4, <2>5
<1> HIDE DEF p, q
<1>3. Total(p) \in Nat /\ Total(q) \in Nat /\ Total(p) <= Total(q)
      /\ (Total(p) = Total(q) => \A n \in 1..N : p[n] = q[n])
  <2>1. \A n \in 1..N : p[n] <= q[n]
    BY <1>2
  <2> QED BY <1>1, <2>1, TotalGrows
<1>4. PICK r \in DOMAIN sources : b \in KeysOf(sources[r])
  BY DEF KeysIn
<1>5. r \in 1..N
  BY DEF SourcesAre
<1>6. Total(p) # Total(q)
  BY <1>2, <1>3, <1>4, <1>5
<1> QED BY <1>1, <1>3, <1>6

\* What fuse gives.
LEMMA FuseIs ==
  ASSUME NEW K \in SUBSET (Nat \X Nat), NEW sources, SourcesAre(sources, K)
  PROVE  /\ Fuse(sources) \in Seq(KeysIn(sources)) /\ Fuse(sources) \in Seq(K)
         /\ Len(Fuse(sources)) = Cardinality(KeysIn(sources)) /\ ToSet(Fuse(sources)) = KeysIn(sources)
         /\ \A i, j \in DOMAIN Fuse(sources) :
              Raw(sources, Fuse(sources)[i]) > Raw(sources, Fuse(sources)[j]) => i < j
<1> DEFINE keys == KeysIn(sources)
           score == [key \in keys |-> Raw(sources, key)]
           order == Ranked(keys, score)
<1>0. Fuse(sources) = order
  BY DEF Fuse
<1>1. keys \in SUBSET (Nat \X Nat) /\ IsFiniteSet(keys) /\ keys \subseteq K
  BY KeysAre
<1>2. \A key \in keys : score[key] = Raw(sources, key) /\ score[key] \in Nat
  BY PartsType
<1> HIDE DEF score, keys
<1>3. /\ Cardinality(keys) \in Nat /\ order \in Seq(keys) /\ Len(order) = Cardinality(keys)
      /\ \A key \in keys : \E i \in 1..Cardinality(keys) : order[i] = key
      /\ \A i, j \in 1..Cardinality(keys) : score[order[i]] > score[order[j]] => i < j
  BY <1>1, <1>2, RankedIs
<1> HIDE DEF order
<1>4. DOMAIN order = 1..Cardinality(keys) /\ \A i \in DOMAIN order : order[i] \in keys
  BY <1>3
<1>5. ToSet(order) = keys
  BY <1>3, <1>4 DEF ToSet
<1>6. order \in Seq(K)
  BY <1>1, <1>3
<1>7. ASSUME NEW i \in DOMAIN order, NEW j \in DOMAIN order, Raw(sources, order[i]) > Raw(sources, order[j])
      PROVE  i < j
  BY <1>2, <1>3, <1>4, <1>7
<1> QED BY <1>0, <1>3, <1>5, <1>6, <1>7 DEF keys
-----------------------------------------------------------------------------
(* A search: the windows of the answer.                                    *)

\* The smaller of two numbers.
LEMMA MinOfTwo ==
  ASSUME NEW a \in Nat, NEW b \in Nat
  PROVE  Min({a, b}) \in Nat /\ Min({a, b}) <= a /\ Min({a, b}) <= b /\ Min({a, b}) \in {a, b}
<1>1. {a, b} \in SUBSET Nat /\ {a, b} # {}
  OBVIOUS
<1> QED BY <1>1, LeastIs

\* A sequence up to a place goes on with what follows up to another.
LEMMA SliceIs ==
  ASSUME NEW S, NEW s \in Seq(S), NEW n \in 0..Len(s), NEW m \in n..Len(s)
  PROVE  /\ SubSeq(s, 1, n) \in Seq(S) /\ Len(SubSeq(s, 1, n)) = n
         /\ SubSeq(s, n + 1, m) \in Seq(S) /\ Len(SubSeq(s, n + 1, m)) = m - n
         /\ SubSeq(s, 1, m) = SubSeq(s, 1, n) \o SubSeq(s, n + 1, m)
<1>0. Len(s) \in Nat /\ n \in Nat /\ m \in Nat /\ \A i \in 1..Len(s) : s[i] \in S
  OBVIOUS
<1> DEFINE a == SubSeq(s, 1, n)
           c == SubSeq(s, n + 1, m)
           t == SubSeq(s, 1, m)
<1>1. a \in Seq(S) /\ Len(a) = n /\ \A i \in 1..n : a[i] = s[i]
  <2>1. \A i \in 1..n : s[i] \in S
    BY <1>0
  <2> QED BY <1>0, <2>1, SubSeqProperties
<1>2. t \in Seq(S) /\ Len(t) = m /\ \A i \in 1..m : t[i] = s[i]
  <2>1. \A i \in 1..m : s[i] \in S
    BY <1>0
  <2> QED BY <1>0, <2>1, SubSeqProperties
<1>3. c \in Seq(S) /\ Len(c) = m - n /\ \A i \in 1..(m - n) : c[i] = s[n + i]
  <2>1. \A i \in (n + 1)..m : s[i] \in S
    BY <1>0
  <2>2. n + 1 \in Int /\ m \in Int /\ (n + 1 <= m <=> n # m)
    BY <1>0
  <2>3. /\ c \in Seq(S) /\ Len(c) = IF n + 1 <= m THEN m - (n + 1) + 1 ELSE 0
        /\ \A i \in 1..(m - (n + 1) + 1) : c[i] = s[(n + 1) + i - 1]
    BY <2>1, <2>2, SubSeqProperties
  <2> HIDE DEF c
  <2>4. Len(c) = m - n /\ 1..(m - (n + 1) + 1) = 1..(m - n) /\ \A i \in 1..(m - n) : (n + 1) + i - 1 = n + i
    BY <1>0, <2>2, <2>3
  <2> QED BY <2>3, <2>4
<1> HIDE DEF a, c, t
<1>4. t = a \o c
  <2>1. Len(t) = Len(a) + Len(c) /\ \A i \in 1..Len(a) : t[i] = a[i]
    BY <1>0, <1>1, <1>2, <1>3
  <2>2. \A i \in 1..Len(c) : t[Len(a) + i] = c[i]
    BY <1>0, <1>1, <1>2, <1>3
  <2> QED BY <1>1, <1>2, <1>3, <2>1, <2>2, ConcatIs
<1> QED BY <1>1, <1>2, <1>3, <1>4 DEF a, c, t

LEMMA ElementsOf ==
  ASSUME NEW S, NEW s \in Seq(S)
  PROVE  ToSet(s) = {s[i] : i \in 1..Len(s)} /\ ToSet(s) \subseteq S /\ \A i \in 1..Len(s) : s[i] \in ToSet(s)
BY DEF ToSet

LEMMA ElementsOfBoth ==
  ASSUME NEW S, NEW s \in Seq(S), NEW t \in Seq(S)
  PROVE  s \o t \in Seq(S) /\ ToSet(s \o t) = ToSet(s) \cup ToSet(t)
<1> DEFINE u == s \o t
<1>1. /\ u \in Seq(S) /\ Len(u) = Len(s) + Len(t) /\ Len(s) \in Nat /\ Len(t) \in Nat
      /\ \A i \in 1..(Len(s) + Len(t)) : u[i] = IF i <= Len(s) THEN s[i] ELSE t[i - Len(s)]
  BY ConcatProperties
<1> HIDE DEF u
<1>2. /\ ToSet(u) = {u[i] : i \in 1..Len(u)} /\ ToSet(s) = {s[i] : i \in 1..Len(s)}
      /\ ToSet(t) = {t[i] : i \in 1..Len(t)}
  BY <1>1, ElementsOf
<1>3. ASSUME NEW i \in 1..Len(u) PROVE u[i] \in ToSet(s) \cup ToSet(t)
  <2>1. CASE i <= Len(s)
    BY <1>1, <1>2, <2>1
  <2>2. CASE ~(i <= Len(s))
    <3>1. i - Len(s) \in 1..Len(t) /\ u[i] = t[i - Len(s)]
      BY <1>1, <2>2
    <3> QED BY <1>2, <3>1
  <2> QED BY <2>1, <2>2
<1>4. ASSUME NEW i \in 1..Len(s) PROVE s[i] \in ToSet(u)
  <2>1. i \in 1..Len(u) /\ u[i] = s[i]
    BY <1>1
  <2> QED BY <1>2, <2>1
<1>5. ASSUME NEW i \in 1..Len(t) PROVE t[i] \in ToSet(u)
  <2>1. Len(s) + i \in 1..Len(u) /\ ~(Len(s) + i <= Len(s)) /\ (Len(s) + i) - Len(s) = i
    BY <1>1
  <2>2. u[Len(s) + i] = t[i]
    BY <1>1, <2>1
  <2> QED BY <1>2, <2>1, <2>2
<1> QED BY <1>1, <1>2, <1>3, <1>4, <1>5 DEF u

LEMMA NoneIs == None \in Seq({}) /\ Len(None) = 0 /\ DOMAIN None = {} /\ \A S : None \in Seq(S)
BY DEF None

\* Keys are pairs of numbers, and so the lists are ones that can be fused.
LEMMA AllKeysAre == SearchTypeInv => AllKeys \in SUBSET (Nat \X Nat)
<1> SUFFICES ASSUME SearchTypeInv, NEW key \in AllKeys PROVE key \in Nat \X Nat
  OBVIOUS
<1>1. PICK d \in DOMAIN current : key \in {d} \X Chunks[d]
  BY DEF AllKeys
<1>2. d \in Nat /\ Chunks[d] \subseteq Nat
  BY RetrievalAssumption DEF SearchTypeInv
<1> QED BY <1>1, <1>2

LEMMA SourcesFit == SearchTypeInv => SourcesAre(Sources, AllKeys)
<1> SUFFICES ASSUME SearchTypeInv PROVE SourcesAre(Sources, AllKeys)
  OBVIOUS
<1>1. DOMAIN Sources = DOMAIN outcome \ Failing /\ \A r \in DOMAIN Sources : Sources[r] = outcome[r]
  BY DEF Sources
<1>2. DOMAIN Sources \subseteq 1..Len(Weight)
  BY <1>1, RetrievalAssumption, FusionAssumption DEF SearchTypeInv
<1>3. ASSUME NEW r \in DOMAIN Sources PROVE Sources[r] \in Seq(Items) /\ Len(Sources[r]) <= MaxDepth
  <2>1. Sources[r] \in Lists
    BY <1>1 DEF SearchTypeInv, Failing
  <2>2. PICK m \in 0..MaxDepth : Sources[r] \in [1..m -> Items]
    BY <2>1 DEF Lists, BoundedSeq, SeqOf
  <2>3. m \in Nat /\ m <= MaxDepth
    BY FusionAssumption
  <2> QED BY <2>2, <2>3
<1> QED BY <1>2, <1>3 DEF SourcesAre, Items

LEMMA CandidatesFit == SearchTypeInv => Candidates \in Seq(AllKeys)
<1> SUFFICES ASSUME SearchTypeInv PROVE Candidates \in Seq(AllKeys)
  OBVIOUS
<1>1. Fuse(Sources) \in Seq(AllKeys)
  BY AllKeysAre, SourcesFit, FuseIs
<1> QED BY <1>1, OnlyHas DEF Candidates

\* What a reranker gives back are keys of the list.
LEMMA ReorderFits ==
  ASSUME NEW K \in SUBSET (Nat \X Nat), NEW order \in Seq(K), NEW scores,
         \A key \in ToSet(Targets(order)) : scores[key] \in Nat
  PROVE  Reorder(order, scores) \in Seq(K)
<1> DEFINE m == Min({RerankDepth, Len(order)})
           keys == ToSet(Targets(order))
<1>1. m \in 0..Len(order) /\ Len(order) \in Nat
  <2>1. RerankDepth \in Nat /\ Len(order) \in Nat
    BY FusionAssumption
  <2>2. m \in Nat /\ m <= Len(order)
    BY <2>1, MinOfTwo
  <2> HIDE DEF m
  <2> QED BY <2>1, <2>2
<1>2. /\ Targets(order) = SubSeq(order, 1, m) /\ Targets(order) \in Seq(K)
      /\ Len(Targets(order)) = m /\ SubSeq(order, m + 1, Len(order)) \in Seq(K)
  <2> HIDE DEF m
  <2>1. Len(order) \in m..Len(order)
    BY <1>1
  <2> QED BY <1>1, <2>1, SliceIs DEF Targets, m
<1>3. keys \in SUBSET (Nat \X Nat) /\ keys \subseteq K
  BY <1>2, ElementsOf
<1>4. IsFiniteSet(keys)
  <2> DEFINE t == Targets(order)
             f == [i \in 1..m |-> t[i]]
  <2> HIDE DEF m
  <2>5. t \in Seq(K) /\ Len(t) = m /\ m \in Nat /\ keys = ToSet(t)
    BY <1>1, <1>2
  <2> HIDE DEF t, keys
  <2>1. m \in Nat /\ keys = {t[i] : i \in 1..m}
    BY <2>5, ElementsOf
  <2>2. f \in [1..m -> keys] /\ \A k \in keys : \E i \in 1..m : f[i] = k
    BY <2>1
  <2> HIDE DEF f
  <2>3. f \in Surjection(1..m, keys)
    BY <2>2 DEF Surjection
  <2>4. IsFiniteSet(1..m)
    BY <2>1, FS_Interval
  <2> QED BY ONLY <2>3, <2>4, FS_Surjection
<1> HIDE DEF keys
<1>5. Ranked(keys, scores) \in Seq(keys)
  BY <1>3, <1>4, RankedIs DEF keys
<1>6. Ranked(keys, scores) \in Seq(K)
  BY <1>3, <1>5
<1>7. Reorder(order, scores) = Ranked(keys, scores) \o SubSeq(order, m + 1, Len(order))
  BY <1>2 DEF Reorder, keys
<1> HIDE DEF m
<1> QED BY <1>2, <1>6, <1>7, ConcatProperties

\* The window lies ahead, is not longer than there is room for, and there is none where a
\* search is over.
LEMMA WindowIs ==
  ASSUME NEW K, ordered \in Seq(K), cursor \in 0..Len(ordered), kept \in Seq(K), Len(kept) <= TopK
  PROVE  /\ Seen \in Seq(K) /\ Window \in Seq(K) /\ Len(Window) \in Nat
         /\ cursor + Len(Window) \in 0..Len(ordered) /\ Len(Window) <= TopK - Len(kept)
         /\ SubSeq(ordered, 1, cursor + Len(Window)) = Seen \o Window
         /\ ~(Room > 0 /\ cursor < Len(ordered)) => Window = <<>>
<1> DEFINE m == Min({cursor + Room, Len(ordered)})
<1>1. /\ Len(ordered) \in Nat /\ cursor \in Nat /\ cursor <= Len(ordered) /\ Len(kept) \in Nat
      /\ Room \in Nat /\ Room = TopK - Len(kept)
  BY RetrievalAssumption DEF Room
<1>2. /\ m \in cursor..Len(ordered) /\ m - cursor <= Room
      /\ ~(Room > 0 /\ cursor < Len(ordered)) => m = cursor
  <2>1. cursor + Room \in Nat
    BY <1>1
  <2>2. m \in Nat /\ m <= cursor + Room /\ m <= Len(ordered) /\ m \in {cursor + Room, Len(ordered)}
    BY <1>1, <2>1, MinOfTwo
  <2> HIDE DEF m
  <2> QED BY <1>1, <2>2
<1>3. Window = SubSeq(ordered, cursor + 1, m)
  BY DEF Window
<1> HIDE DEF m
<1>4. /\ Seen \in Seq(K) /\ Window \in Seq(K) /\ Len(Window) = m - cursor
      /\ SubSeq(ordered, 1, m) = Seen \o Window
  BY <1>2, <1>3, SliceIs DEF Seen
<1>5. m = cursor + Len(Window) /\ m \in Nat
  BY <1>1, <1>2, <1>4
<1>6. m = cursor => Window = <<>>
  BY <1>4
<1> QED BY <1>1, <1>2, <1>4, <1>5, <1>6

LEMMA SearchTypeStart == SearchInit => SearchTypeInv
<1> SUFFICES ASSUME SearchInit PROVE SearchTypeInv
  OBVIOUS
<1>1. (CHOOSE r \in Revs : TRUE) \in Revs
  BY RetrievalAssumption
<1> QED BY <1>1, NoneIs DEF SearchInit, SearchTypeInv

\* What the invariants give of the window.
LEMMA Ahead ==
  SearchTypeInv /\ TakeInv =>
    /\ kept \in Seq(AllKeys) /\ Seen \in Seq(AllKeys) /\ Window \in Seq(AllKeys) /\ Len(Window) \in Nat
    /\ cursor + Len(Window) \in 0..Len(ordered) /\ Len(Window) <= TopK - Len(kept) /\ Len(kept) \in Nat
    /\ SubSeq(ordered, 1, cursor + Len(Window)) = Seen \o Window
    /\ ~(Room > 0 /\ cursor < Len(ordered)) => Window = <<>>
<1> SUFFICES ASSUME SearchTypeInv, TakeInv
             PROVE  /\ kept \in Seq(AllKeys) /\ Seen \in Seq(AllKeys) /\ Window \in Seq(AllKeys)
                    /\ Len(Window) \in Nat
                    /\ cursor + Len(Window) \in 0..Len(ordered) /\ Len(Window) <= TopK - Len(kept)
                    /\ Len(kept) \in Nat
                    /\ SubSeq(ordered, 1, cursor + Len(Window)) = Seen \o Window
                    /\ ~(Room > 0 /\ cursor < Len(ordered)) => Window = <<>>
  OBVIOUS
<1>1. ordered \in Seq(AllKeys) /\ cursor \in 0..Len(ordered)
  BY DEF SearchTypeInv
<1>2. Seen \in Seq(AllKeys)
  <2>1. Len(ordered) \in cursor..Len(ordered)
    BY <1>1
  <2> QED BY <1>1, <2>1, SliceIs DEF Seen
<1> DEFINE T == {key \in ToSet(Seen) : verdicts[key[1]]}
<1>3. kept = Only(Seen, T) /\ Len(kept) <= TopK
  BY DEF TakeInv
<1> HIDE DEF T
<1>4. kept \in Seq(AllKeys)
  BY <1>2, <1>3, OnlyHas
<1>5. Len(kept) \in Nat
  BY <1>4
<1> QED BY <1>1, <1>3, <1>4, <1>5, WindowIs

LEMMA SearchTypeStep == SearchTypeInv /\ TakeInv /\ [SearchNext]_searching => SearchTypeInv'
<1> SUFFICES ASSUME SearchTypeInv, TakeInv, [SearchNext]_searching PROVE SearchTypeInv'
  OBVIOUS
<1>1. ASSUME NEW given \in BOOLEAN, List(given) PROVE SearchTypeInv'
  <2>1. /\ outcome = None /\ fused = None /\ ordered = None /\ cursor = 0 /\ kept = None /\ verdicts = None
        /\ UNCHANGED <<registry, outcome, fused, ordered, cursor, kept, verdicts>> /\ pc' # "list"
    BY <1>1 DEF List, SearchTypeInv
  <2>2. DOMAIN current' \subseteq Docs /\ \A d \in DOMAIN current' : current'[d] \in Revs
    BY <1>1 DEF List, SearchTypeInv
  <2>3. fused' \in Seq(AllKeys') /\ ordered' \in Seq(AllKeys') /\ cursor' \in 0..Len(ordered')
    BY <2>1, NoneIs
  <2>4. DOMAIN outcome' = {}
    BY <2>1, NoneIs
  <2> QED BY <2>1, <2>2, <2>3, <2>4 DEF SearchTypeInv
<1> DEFINE Typed ==
        /\ UNCHANGED current /\ registry' \in [Docs -> Revs \cup {NotSearchable}]
        /\ DOMAIN outcome' \subseteq Retrievers
        /\ \A r \in DOMAIN outcome' : outcome'[r] \in Lists \cup {Failed}
        /\ fused' \in Seq(AllKeys) /\ ordered' \in Seq(AllKeys) /\ cursor' \in 0..Len(ordered')
        /\ pc' # "list"
        /\ pc' \in {"list", "prepare", "search", "rerank"} =>
              ordered' = None /\ cursor' = 0 /\ kept' = None /\ verdicts' = None
<1>2. ASSUME Typed PROVE SearchTypeInv'
  <2>1. AllKeys' = AllKeys /\ Lists' = Lists
    BY <1>2 DEF AllKeys, Lists, Items
  <2>2. DOMAIN current' \subseteq Docs /\ \A d \in DOMAIN current' : current'[d] \in Revs
    BY <1>2 DEF SearchTypeInv
  <2> QED BY <1>2, <2>1, <2>2 DEF SearchTypeInv
<1> USE DEF SearchTypeInv
<1> HIDE DEF Typed
<1>3. CASE ListFails
  <2>1. Typed
    BY <1>3 DEF ListFails, Typed
  <2> QED BY <1>2, <2>1
<1>4. ASSUME NEW r \in Retrievers, Passes(r) \/ VectorMade(r) \/ VectorFails(r) PROVE SearchTypeInv'
  <2>1. Typed
    BY <1>4 DEF Passes, VectorMade, VectorFails, Advance, Typed
  <2> QED BY <1>2, <2>1
<1>5. ASSUME NEW r \in Retrievers, Retrieved(r) PROVE SearchTypeInv'
  <2>1. PICK found \in Lists \cup {Failed} : outcome' = With(outcome, r, found)
    BY <1>5 DEF Retrieved
  <2>2. /\ DOMAIN outcome' = DOMAIN outcome \cup {r}
        /\ \A q \in DOMAIN outcome' : outcome'[q] = IF q = r THEN found ELSE outcome[q]
    BY <2>1 DEF With
  <2>3. DOMAIN outcome' \subseteq Retrievers /\ \A q \in DOMAIN outcome' : outcome'[q] \in Lists \cup {Failed}
    BY <2>2 DEF SearchTypeInv
  <2>4. Typed
    BY <1>5, <2>3 DEF Retrieved, Typed
  <2> QED BY <1>2, <2>4
<1>6. CASE FanIn
  <2>1. Typed
    BY <1>6, CandidatesFit DEF FanIn, Typed
  <2> QED BY <1>2, <2>1
<1>7. ASSUME NEW order \in Seq(AllKeys), Stand(order) PROVE SearchTypeInv'
  <2>1. cursor' \in 0..Len(ordered')
    BY <1>7 DEF Stand, SearchTypeInv
  <2>2. DOMAIN outcome' = {}
    BY <1>7, NoneIs DEF Stand
  <2>4. Typed
    BY <1>7, <2>1, <2>2 DEF Stand, Typed
  <2> QED BY <1>2, <2>4
<1>8. ASSUME NEW scores \in [ToSet(Targets(fused)) -> RerankScores], Reranked(scores) PROVE SearchTypeInv'
  <2>1. fused \in Seq(AllKeys)
    BY DEF SearchTypeInv
  <2>2. \A key \in ToSet(Targets(fused)) : scores[key] \in Nat
    BY RetrievalAssumption
  <2>3. Reorder(fused, scores) \in Seq(AllKeys)
    BY <2>1, <2>2, AllKeysAre, ReorderFits
  <2> QED BY <1>7, <1>8, <2>3 DEF Reranked
<1>9. CASE NotReranked
  BY <1>7, <1>9 DEF NotReranked, SearchTypeInv
<1>10. ASSUME NEW d \in Docs, Read(d) PROVE SearchTypeInv'
  <2>1. Typed
    BY <1>10 DEF Read, Open, Typed
  <2> QED BY <1>2, <2>1
<1>11. CASE ReadFails \/ Answer
  <2>1. Typed
    BY <1>11 DEF ReadFails, Answer, Open, Typed
  <2> QED BY <1>2, <2>1
<1>12. CASE Take
  <2>1. Typed
    BY <1>12, Ahead DEF Take, Open, Typed
  <2> QED BY <1>2, <2>1
<1>13. ASSUME NEW d \in Docs, NEW to \in Revs \cup {NotSearchable}, Change(d, to) PROVE SearchTypeInv'
  <2>1. registry' \in [Docs -> Revs \cup {NotSearchable}]
    BY <1>13 DEF Change, SearchTypeInv
  <2>4. Typed
    BY <1>13, <2>1 DEF Change, search, Typed
  <2> QED BY <1>2, <2>4
<1>14. CASE UNCHANGED searching
  <2>1. AllKeys' = AllKeys /\ Lists' = Lists
    BY <1>14 DEF searching, search, AllKeys, Lists, Items
  <2> QED BY <1>14, <2>1 DEF searching, search
<1> QED BY <1>1, <1>3, <1>4, <1>5, <1>6, <1>8, <1>9, <1>10, <1>11, <1>12, <1>13, <1>14 DEF SearchNext

\* Nothing comes of nothing.
LEMMA OnlyNone == \A T : Only(<<>>, T) = <<>>
<1> SUFFICES ASSUME NEW T PROVE Only(<<>>, T) = <<>>
  OBVIOUS
<1>1. <<>> \in Seq({}) /\ Len(<<>>) = 0
  OBVIOUS
<1>2. Only(<<>>, T) \in Seq({}) /\ Len(Only(<<>>, T)) <= Len(<<>>)
  BY <1>1, OnlyHas
<1> QED BY <1>1, <1>2

\* Before the first window there is neither a chunk nor a verdict.
LEMMA NothingTaken ==
  ASSUME NEW K, ordered \in Seq(K), cursor = 0, kept = None, verdicts = None, pc # "done" \/ ordered = None
  PROVE  TakeInv
<1>1. Seen = <<>>
  BY DEF Seen
<1>2. DocsOf(Seen) = {} /\ DOMAIN verdicts = {} /\ Len(kept) = 0 /\ Len(kept) <= TopK /\ kept = <<>>
  BY <1>1, NoneIs, RetrievalAssumption DEF DocsOf, ToSet, None
<1>3. kept = Only(Seen, {key \in ToSet(Seen) : verdicts[key[1]]})
  BY <1>1, <1>2, OnlyNone
<1>4. ordered = None => Len(ordered) = 0
  BY NoneIs
<1> QED BY <1>2, <1>3, <1>4 DEF TakeInv

LEMMA TakeStep == SearchTypeInv /\ TakeInv /\ [SearchNext]_searching => TakeInv'
<1> SUFFICES ASSUME SearchTypeInv, TakeInv, [SearchNext]_searching PROVE TakeInv'
  OBVIOUS
<1> DEFINE Kept(s) == {key \in ToSet(s) : verdicts[key[1]]}
<1>0. ordered \in Seq(AllKeys) /\ cursor \in 0..Len(ordered)
  BY DEF SearchTypeInv
<1>1. ASSUME UNCHANGED <<ordered, cursor, verdicts, kept>>,
             pc' = "done" => ~(Room > 0 /\ cursor < Len(ordered))
      PROVE  TakeInv'
  <2>1. Seen' = Seen /\ Window' = Window /\ Room' = Room
    BY <1>1 DEF Seen, Window, Room
  <2> QED BY <1>1, <2>1 DEF TakeInv, DocsOf
<1>2. ASSUME NEW given \in BOOLEAN, List(given) PROVE TakeInv'
  <2>1. UNCHANGED <<ordered, cursor, verdicts, kept>> /\ ordered = None
    BY <1>2 DEF List, SearchTypeInv
  <2>2. ~(cursor < Len(ordered))
    BY <1>0, <2>1, NoneIs
  <2> QED BY <1>1, <2>1, <2>2
<1>3. CASE ListFails \/ FanIn \/ ReadFails \/ \E r \in Retrievers : Passes(r) \/ VectorMade(r) \/ VectorFails(r) \/ Retrieved(r)
  <2>1. UNCHANGED <<ordered, cursor, verdicts, kept>> /\ pc' # "done"
    BY <1>3 DEF ListFails, FanIn, ReadFails, Open, Passes, VectorMade, VectorFails, Retrieved, Advance
  <2> QED BY <1>1, <2>1
<1>4. CASE (\E scores \in [ToSet(Targets(fused)) -> RerankScores] : Reranked(scores)) \/ NotReranked
  <2>1. cursor' = 0 /\ kept' = None /\ verdicts' = None /\ pc' = "check"
    BY <1>4 DEF Reranked, NotReranked, Stand, SearchTypeInv
  <2>2. SearchTypeInv'
    BY SearchTypeStep
  <2>3. ordered' \in Seq(AllKeys')
    BY <2>2 DEF SearchTypeInv
  <2>4. Seen' = <<>>
    BY <2>1 DEF Seen
  <2>5. DocsOf(Seen)' = {} /\ DOMAIN verdicts' = {} /\ Len(kept') = 0 /\ Len(kept') <= TopK /\ kept' = <<>>
    BY <2>1, <2>4, NoneIs, RetrievalAssumption DEF DocsOf, ToSet, None
  <2>6. kept' = Only(Seen', {key \in ToSet(Seen') : verdicts'[key[1]]})
    BY <2>4, <2>5, OnlyNone
  <2> QED BY <2>1, <2>5, <2>6 DEF TakeInv
<1>5. ASSUME NEW d \in Docs, Read(d) PROVE TakeInv'
  <2>1. /\ verdicts' = With(verdicts, d, IsStillCurrent(d)) /\ UNCHANGED <<ordered, cursor, kept, pc>>
        /\ d \in DocsOf(Window) /\ d \notin DOMAIN verdicts /\ pc = "check"
    BY <1>5 DEF Read, Open, Asked, DocsOf
  <2>2. /\ DOMAIN verdicts' = DOMAIN verdicts \cup {d}
        /\ \A e \in DOMAIN verdicts : verdicts'[e] = verdicts[e]
    BY <2>1 DEF With
  <2>3. Seen' = Seen /\ Window' = Window /\ Room' = Room
    BY <2>1 DEF Seen, Window, Room
  <2>4. DocsOf(Seen)' = DocsOf(Seen) /\ DocsOf(Window)' = DocsOf(Window)
    BY <2>3 DEF DocsOf
  <2>5. \A key \in ToSet(Seen) : key[1] \in DOMAIN verdicts
    BY DEF TakeInv, DocsOf
  <2>6. {key \in ToSet(Seen) : verdicts'[key[1]]} = Kept(Seen)
    BY <2>2, <2>5
  <2>7. kept' = Only(Seen', {key \in ToSet(Seen') : verdicts'[key[1]]})
    BY <2>1, <2>3, <2>6 DEF TakeInv
  <2> QED BY <2>1, <2>2, <2>3, <2>4, <2>7 DEF TakeInv
<1>6. CASE Take
  <2>1. /\ kept' = kept \o Only(Window, Kept(Window)) /\ cursor' = cursor + Len(Window)
        /\ UNCHANGED <<ordered, verdicts, pc>> /\ pc = "check" /\ DocsOf(Window) \subseteq DOMAIN verdicts
    BY <1>6 DEF Take, Open, Asked, DocsOf
  <2>2. /\ kept \in Seq(AllKeys) /\ Seen \in Seq(AllKeys) /\ Window \in Seq(AllKeys) /\ Len(Window) \in Nat
        /\ Len(Window) <= TopK - Len(kept) /\ Len(kept) \in Nat
        /\ Seen' = Seen \o Window
    BY <2>1, Ahead DEF Seen
  <2>3. ToSet(Seen') = ToSet(Seen) \cup ToSet(Window)
    BY <2>2, ElementsOfBoth
  <2>4. DocsOf(Seen)' = DocsOf(Seen) \cup DocsOf(Window)
    BY <2>3 DEF DocsOf
  <2> DEFINE T == {key \in ToSet(Seen') : verdicts'[key[1]]}
             T1 == Kept(Seen)
             T2 == Kept(Window)
  <2>5. (\A i \in 1..Len(Seen) : Seen[i] \in T1 <=> Seen[i] \in T)
        /\ (\A i \in 1..Len(Window) : Window[i] \in T2 <=> Window[i] \in T)
    <3>1. verdicts' = verdicts
      BY <2>1
    <3>2. (\A i \in 1..Len(Seen) : Seen[i] \in ToSet(Seen)) /\ (\A i \in 1..Len(Window) : Window[i] \in ToSet(Window))
      BY <2>2, ElementsOf
    <3> QED BY <2>3, <3>1, <3>2
  <2>6. kept = Only(Seen, T1)
    BY DEF TakeInv
  <2>11. kept' = Only(Seen, T1) \o Only(Window, T2)
    BY <2>1, <2>6
  <2> HIDE DEF T, T1, T2
  <2>7. Only(Seen, T1) = Only(Seen, T) /\ Only(Window, T2) = Only(Window, T)
    BY <2>2, <2>5, OnlySame
  <2>8. kept' = Only(Seen', T)
    <3>1. Only(Seen \o Window, T) = Only(Seen, T) \o Only(Window, T)
      BY <2>2, OnlyConcat
    <3> QED BY <2>2, <2>7, <2>11, <3>1
  <2>9. Len(kept') <= TopK
    <3>1. Only(Window, T2) \in Seq(AllKeys) /\ Len(Only(Window, T2)) <= Len(Window)
      BY <2>2, OnlyHas
    <3>2. Len(kept') = Len(kept) + Len(Only(Window, T2)) /\ Len(Only(Window, T2)) \in Nat
      BY <2>1, <2>2, <3>1, ConcatProperties DEF T2
    <3> QED BY <2>2, <3>1, <3>2, RetrievalAssumption
  <2>10. DocsOf(Seen)' \subseteq DOMAIN verdicts' /\ DOMAIN verdicts' \subseteq DocsOf(Seen)'
    BY <2>1, <2>4 DEF TakeInv
  <2> QED BY <2>1, <2>8, <2>9, <2>10 DEF TakeInv, T
<1>7. CASE Answer
  <2>1. UNCHANGED <<ordered, cursor, verdicts, kept>> /\ ~(Room > 0 /\ cursor < Len(ordered))
    BY <1>7 DEF Answer, Open
  <2> QED BY <1>1, <2>1
<1>8. ASSUME NEW d \in Docs, NEW to \in Revs \cup {NotSearchable}, Change(d, to) PROVE TakeInv'
  <2>1. UNCHANGED <<ordered, cursor, verdicts, kept>> /\ pc' # "done"
    BY <1>8 DEF Change, search
  <2> QED BY <1>1, <2>1
<1>9. CASE UNCHANGED searching
  <2>1. UNCHANGED <<ordered, cursor, verdicts, kept, pc>>
    BY <1>9 DEF searching, search
  <2> QED BY <1>1, <2>1 DEF TakeInv
<1> QED BY <1>2, <1>3, <1>4, <1>5, <1>6, <1>7, <1>8, <1>9 DEF SearchNext

LEMMA TakeStart == SearchInit => TakeInv
  BY NothingTaken, SearchTypeStart DEF SearchInit, SearchTypeInv

LEMMA SearchKeeps == SearchSpec => [](SearchTypeInv /\ TakeInv)
<1>1. SearchInit => SearchTypeInv /\ TakeInv
  BY SearchTypeStart, TakeStart
<1>2. SearchTypeInv /\ TakeInv /\ [SearchNext]_searching => (SearchTypeInv /\ TakeInv)'
  BY SearchTypeStep, TakeStep
<1> QED BY <1>1, <1>2, PTL DEF SearchSpec

\* Whatever windows a search asked about, its answer is what one pass over the whole order
\* would have kept, and it asked about no document that pass would not have met.
THEOREM WindowsAreOnePass == SearchSpec => []TakesFirstCurrent
<1>1. SearchTypeInv /\ TakeInv => TakesFirstCurrent
  <2> SUFFICES ASSUME SearchTypeInv, TakeInv, pc = "done"
               PROVE  /\ DOMAIN verdicts = {key[1] : key \in ToSet(Seen)}
                      /\ kept = Only(Seen, {key \in ToSet(Seen) : verdicts[key[1]]})
                      /\ Len(kept) = TopK \/ (Len(kept) < TopK /\ cursor = Len(ordered))
    BY DEF TakesFirstCurrent, Seen
  <2>1. ~(Room > 0 /\ cursor < Len(ordered)) /\ Len(kept) <= TopK /\ Len(kept) \in Nat /\ Window = <<>>
    BY Ahead DEF TakeInv
  <2>2. DocsOf(Window) = {}
    BY <2>1 DEF DocsOf, ToSet
  <2>3. DOMAIN verdicts = DocsOf(Seen)
    BY <2>2 DEF TakeInv
  <2>4. cursor \in 0..Len(ordered) /\ Len(ordered) \in Nat
    BY DEF SearchTypeInv
  <2>5. Len(kept) = TopK \/ (Len(kept) < TopK /\ cursor = Len(ordered))
    BY <2>1, <2>4, RetrievalAssumption DEF Room
  <2> QED BY <2>3, <2>5 DEF TakeInv, DocsOf
<1> QED BY <1>1, SearchKeeps, PTL

-----------------------------------------------------------------------------
(* A search: what was current when.                                        *)

LEMMA HeldStep == SearchTypeInv /\ TakeInv /\ HeldInv /\ [SearchNext]_searching => HeldInv'
<1> SUFFICES ASSUME SearchTypeInv, TakeInv, HeldInv, [SearchNext]_searching PROVE HeldInv'
  OBVIOUS
<1>1. ASSUME UNCHANGED <<registry, current, verdicts, held>>, pc' = "check" => pc = "check" PROVE HeldInv'
  BY <1>1 DEF HeldInv, Current
<1>2. ASSUME NEW given \in BOOLEAN, List(given) PROVE HeldInv'
  <2>1. DOMAIN verdicts' = {} /\ pc' # "check"
    BY <1>2, NoneIs DEF List, SearchTypeInv
  <2> QED BY <2>1 DEF HeldInv
<1>3. CASE ListFails \/ FanIn \/ ReadFails \/ Take \/ Answer
           \/ \E r \in Retrievers : Passes(r) \/ VectorMade(r) \/ VectorFails(r) \/ Retrieved(r)
  <2>1. UNCHANGED <<registry, current, verdicts, held>> /\ (pc' = "check" => pc = "check")
    BY <1>3 DEF ListFails, FanIn, ReadFails, Take, Answer, Open, Passes, VectorMade, VectorFails, Retrieved, Advance
  <2> QED BY <1>1, <2>1
<1>4. CASE (\E scores \in [ToSet(Targets(fused)) -> RerankScores] : Reranked(scores)) \/ NotReranked
  <2>1. held' = Current /\ registry' = registry /\ verdicts' = None
    BY <1>4 DEF Reranked, NotReranked, Stand, SearchTypeInv
  <2>2. Current' = Current /\ DOMAIN verdicts' = {}
    BY <2>1, NoneIs DEF Current
  <2> QED BY <2>1, <2>2 DEF HeldInv
<1>5. ASSUME NEW d \in Docs, Read(d) PROVE HeldInv'
  <2>1. /\ verdicts' = With(verdicts, d, IsStillCurrent(d)) /\ UNCHANGED <<registry, current, held, pc>>
        /\ d \in DocsOf(Window) /\ pc = "check"
    BY <1>5 DEF Read, Open, Asked, DocsOf
  <2>2. d \in DOMAIN current
    <3>1. Window \in Seq(AllKeys)
      BY Ahead
    <3>2. ToSet(Window) \subseteq AllKeys
      BY <3>1, ElementsOf
    <3>3. PICK key \in AllKeys : key[1] = d
      BY <2>1, <3>2 DEF DocsOf
    <3>4. PICK e \in DOMAIN current : key \in {e} \X Chunks[e]
      BY <3>3 DEF AllKeys
    <3> QED BY <3>3, <3>4
  <2>3. registry[d] = current[d] => <<d, current[d]>> \in held
    <3>1. current[d] \in Revs /\ current[d] # NotSearchable
      BY <2>2, RetrievalAssumption DEF SearchTypeInv
    <3>2. registry[d] = current[d] => <<d, registry[d]>> \in Current
      BY <3>1 DEF Current
    <3> QED BY <2>1, <3>2 DEF HeldInv
  <2>4. /\ DOMAIN verdicts' = DOMAIN verdicts \cup {d}
        /\ \A e \in DOMAIN verdicts' : verdicts'[e] = IF e = d THEN registry[d] = current[d] ELSE verdicts[e]
    BY <2>1 DEF With, IsStillCurrent
  <2>5. Current' = Current
    BY <2>1 DEF Current
  <2> QED BY <2>1, <2>3, <2>4, <2>5 DEF HeldInv
<1>6. ASSUME NEW d \in Docs, NEW to \in Revs \cup {NotSearchable}, Change(d, to) PROVE HeldInv'
  <2>1. /\ registry' = [registry EXCEPT ![d] = to] /\ UNCHANGED <<pc, current, verdicts>>
        /\ held' = IF pc = "check" THEN held \cup {<<d, to>>} ELSE held
    BY <1>6 DEF Change, search
  <2>2. \A e \in Docs : registry'[e] = IF e = d THEN to ELSE registry[e]
    BY <2>1 DEF SearchTypeInv
  <2>3. Current' \subseteq Current \cup {<<d, to>>}
    <3>1. SUFFICES ASSUME NEW e \in Docs, registry'[e] # NotSearchable
                   PROVE  <<e, registry'[e]>> \in Current \cup {<<d, to>>}
      BY DEF Current
    <3> QED BY <2>2, <3>1 DEF Current
  <2> QED BY <2>1, <2>3 DEF HeldInv
<1>7. CASE UNCHANGED searching
  <2>1. UNCHANGED <<registry, current, verdicts, held, pc>>
    BY <1>7 DEF searching, search
  <2> QED BY <1>1, <2>1
<1> QED BY <1>2, <1>3, <1>4, <1>5, <1>6, <1>7 DEF SearchNext

\* No chunk of an answer is of a version that had gone before the order of the answer stood.
THEOREM AnswersAreCurrent == SearchSpec => []NothingIsStale
<1>1. SearchInit => HeldInv
  <2>1. SearchInit => DOMAIN verdicts = {} /\ pc # "check"
    BY NoneIs DEF SearchInit
  <2> QED BY <2>1 DEF HeldInv
<1>2. SearchTypeInv /\ TakeInv /\ HeldInv => NothingIsStale
  <2> SUFFICES ASSUME SearchTypeInv, TakeInv, HeldInv, NEW i \in DOMAIN kept
               PROVE  <<kept[i][1], current[kept[i][1]]>> \in held
    BY DEF NothingIsStale
  <2> DEFINE T == {key \in ToSet(Seen) : verdicts[key[1]]}
  <2>1. Seen \in Seq(AllKeys) /\ kept \in Seq(AllKeys) /\ kept = Only(Seen, T)
    BY Ahead DEF TakeInv
  <2>2. i \in 1..Len(kept)
    BY <2>1
  <2>3. \A key \in T : key \in ToSet(Seen) /\ verdicts[key[1]]
    OBVIOUS
  <2> HIDE DEF T
  <2>4. PICK n \in 1..Len(Seen) : kept[i] = Seen[n] /\ Seen[n] \in T
    BY <2>1, <2>2, OnlyHas
  <2>5. kept[i] \in ToSet(Seen) /\ verdicts[kept[i][1]]
    BY <2>3, <2>4
  <2>6. kept[i][1] \in DOMAIN verdicts
    BY <2>5 DEF TakeInv, DocsOf
  <2> QED BY <2>5, <2>6 DEF HeldInv
<1> QED BY <1>1, <1>2, HeldStep, SearchKeeps, PTL DEF SearchSpec

-----------------------------------------------------------------------------
(* A search: fusion.                                                       *)

\* Every key of the lists is in the order once and no other is; its score is positive, and one
\* only for the first of all lists; and who is further up wherever another is comes before it.
THEOREM FusionIsFairToLists == SearchSpec => []FusionIsFair
<1>1. SearchTypeInv => FusionIsFair
  <2> SUFFICES ASSUME SearchTypeInv PROVE FusionIsFair
    OBVIOUS
  <2> DEFINE order == Fuse(Sources)
             keys == KeysIn(Sources)
             AheadOf(a, b) == \A r \in DOMAIN Sources :
                RankOf(Sources[r], b) > 0 =>
                    RankOf(Sources[r], a) \in 1..(RankOf(Sources[r], b) - 1)
  <2>1. AllKeys \in SUBSET (Nat \X Nat) /\ SourcesAre(Sources, AllKeys)
    BY AllKeysAre, SourcesFit
  <2>2. /\ order \in Seq(keys) /\ Len(order) = Cardinality(keys) /\ ToSet(order) = keys
        /\ \A i, j \in DOMAIN order : Raw(Sources, order[i]) > Raw(Sources, order[j]) => i < j
    BY <2>1, FuseIs
  <2>3. \A key \in keys : /\ Raw(Sources, key) \in 1..Denominator(Sources)
                          /\ Raw(Sources, key) = Denominator(Sources) <=>
                               \A r \in DOMAIN Sources : RankOf(Sources[r], key) = 1
    BY <2>1, RawIs
  <2>4. \A a, b \in keys : AheadOf(a, b) => Raw(Sources, a) > Raw(Sources, b)
    BY <2>1, RawFalls
  <2> HIDE DEF order, keys, AheadOf
  <2>5. \A i \in DOMAIN order : order[i] \in keys
    BY <2>2
  <2>6. \A i, j \in DOMAIN order : AheadOf(order[i], order[j]) => i < j
    BY <2>2, <2>4, <2>5
  <2> QED BY <2>2, <2>3, <2>6 DEF FusionIsFair, order, keys, AheadOf
<1> QED BY <1>1, SearchKeeps, PTL
-----------------------------------------------------------------------------
(* A search: who failed.                                                   *)

LEMMA FailStart == SearchInit => FailInv
  BY DEF SearchInit, FailInv

LEMMA FailStep == FailInv /\ [SearchNext]_searching => FailInv'
<1> SUFFICES ASSUME FailInv, [SearchNext]_searching PROVE FailInv'
  OBVIOUS
<1> USE DEF FailInv, Spared
<1>1. PICK n \in Nat \ {0} : Retrievers = 1..n /\ Cardinality(Retrievers) = n /\ Registry \notin Retrievers
  <2>1. Cardinality(Retrievers) \in Nat /\ Retrievers = 1..Cardinality(Retrievers) /\ Retrievers # {}
    BY RetrievalAssumption, FS_CardinalityType
  <2> QED BY <2>1, RetrievalAssumption
<1>2. ASSUME NEW given \in BOOLEAN, List(given) PROVE FailInv'
  <2>1. CASE pc' = "done"
    <3>1. current' = None
      BY <1>2, <2>1 DEF List, None
    <3> QED BY <1>2, <2>1, <3>1 DEF List
  <2>2. CASE pc' = "search"
    BY <1>2, <2>2 DEF List
  <2>3. CASE pc' = "prepare"
    <3>1. pc = "list" /\ UNCHANGED <<next, active, disposed, required>>
      BY <1>2, <2>3 DEF List
    <3>2. 1 \in Retrievers /\ 1..(1 - 1) = {}
      BY <1>1
    <3> QED BY <2>3, <3>1, <3>2
  <2> QED BY <1>2, <2>1, <2>2, <2>3 DEF List
<1>3. CASE ListFails
  BY <1>3 DEF ListFails
<1>4. ASSUME NEW r \in Retrievers, Passes(r) \/ VectorMade(r) PROVE FailInv'
  <2>1. /\ pc = "prepare" /\ next = r /\ next' = r + 1 /\ active' = active \cup {r}
        /\ pc' = IF r = n THEN "search" ELSE "prepare"
        /\ UNCHANGED <<required, disposed, current>>
    BY <1>1, <1>4 DEF Passes, VectorMade, Advance
  <2>2. r \in 1..n /\ r \notin disposed /\ active' = (1..r) \ disposed
    BY <1>1, <2>1
  <2> QED BY <1>1, <2>1, <2>2
<1>5. ASSUME NEW r \in Retrievers, VectorFails(r) PROVE FailInv'
  BY <1>1, <1>5 DEF VectorFails, Advance
<1>6. ASSUME NEW r \in Retrievers, Retrieved(r) PROVE FailInv'
  BY <1>6 DEF Retrieved
<1>7. CASE FanIn
  <2>1. Failing \subseteq active /\ pc = "search"
    BY <1>7 DEF FanIn, Failing
  <2>2. /\ disposed' = disposed \cup Failing /\ active' = active \ Failing
        /\ UNCHANGED <<current, required>>
        /\ \/ pc' = "failed" /\ (required \cap Failing # {} \/ active' = {})
           \/ pc' = "rerank" /\ required \cap Failing = {} /\ active' # {}
    BY <1>7 DEF FanIn
  <2> QED BY <1>1, <2>1, <2>2
<1>8. CASE (\E scores \in [ToSet(Targets(fused)) -> RerankScores] : Reranked(scores)) \/ NotReranked
  BY <1>8 DEF Reranked, NotReranked, Stand
<1>9. CASE (\E d \in Docs : Read(d)) \/ ReadFails \/ Take \/ Answer
  BY <1>9 DEF Read, ReadFails, Take, Answer, Open
<1>10. ASSUME NEW d \in Docs, NEW to \in Revs \cup {NotSearchable}, Change(d, to) PROVE FailInv'
  BY <1>10 DEF Change, search
<1>11. CASE UNCHANGED searching
  BY <1>11 DEF searching, search
<1> QED BY <1>2, <1>3, <1>4, <1>5, <1>6, <1>7, <1>8, <1>9, <1>10, <1>11 DEF SearchNext

\* A search fails if a retriever that is required failed, or all did, or the registry, and
\* only then; and its answer lacks those alone that failed.
THEOREM FailuresAreDisposedOf == SearchSpec => []FailsOnlyWhenItMust
<1>1. FailInv => FailsOnlyWhenItMust
  BY DEF FailInv, Spared, FailsOnlyWhenItMust
<1> QED BY <1>1, FailStart, FailStep, PTL DEF SearchSpec

-----------------------------------------------------------------------------
(* The splitter of verdicts.                                               *)

\* Where the first line ends.
LEMMA NewlineIs ==
  ASSUME NEW s \in Seq(Tokens)
  PROVE  /\ NewlineIn(s) \in 0..Len(s)
         /\ NewlineIn(s) = 0 => \A i \in 1..Len(s) : s[i] # Newline
         /\ NewlineIn(s) # 0 => s[NewlineIn(s)] = Newline /\ \A i \in 1..(NewlineIn(s) - 1) : s[i] # Newline
<1> DEFINE I == {i \in 1..Len(s) : s[i] = Newline}
<1>1. NewlineIn(s) = IF I # {} THEN Min(I) ELSE 0
  BY DEF NewlineIn, SelectInSeq
<1>2. Len(s) \in Nat
  OBVIOUS
<1>3. CASE I = {}
  BY <1>1, <1>2, <1>3
<1>4. CASE I # {}
  <2>1. I \in SUBSET Nat
    OBVIOUS
  <2>2. NewlineIn(s) = Min(I) /\ Min(I) \in I /\ \A k \in I : Min(I) <= k
    BY <1>1, <1>4, <2>1, LeastIs
  <2>3. PICK m : m = NewlineIn(s) /\ m \in I /\ \A k \in I : m <= k
    BY <2>2
  <2>4. m \in 1..Len(s) /\ s[m] = Newline
    BY <2>3
  <2>5. \A i \in 1..(m - 1) : i \notin I /\ i \in 1..Len(s)
    BY <1>2, <2>3, <2>4
  <2>6. \A i \in 1..(m - 1) : s[i] # Newline
    BY <2>5
  <2> QED BY <1>2, <2>3, <2>4, <2>6
<1> QED BY <1>3, <1>4

\* The place is the only one of its kind.
LEMMA NewlineAt ==
  ASSUME NEW s \in Seq(Tokens), NEW n \in 1..Len(s), s[n] = Newline, \A i \in 1..(n - 1) : s[i] # Newline
  PROVE  NewlineIn(s) = n
<1>1. NewlineIn(s) # 0
  BY NewlineIs
<1>2. NewlineIn(s) \in 1..Len(s) /\ s[NewlineIn(s)] = Newline
      /\ \A i \in 1..(NewlineIn(s) - 1) : s[i] # Newline
  BY <1>1, NewlineIs
<1>3. ~(NewlineIn(s) < n) /\ ~(n < NewlineIn(s))
  BY <1>2
<1> QED BY <1>2, <1>3

\* Once the first line is complete, what comes only makes the rest longer.
LEMMA LineStands ==
  ASSUME NEW s \in Seq(Tokens), NEW c \in Seq(Tokens), NewlineIn(s) # 0
  PROVE  /\ NewlineIn(s \o c) = NewlineIn(s)
         /\ HeadOf(s \o c) = HeadOf(s)
         /\ RestOf(s) \in Seq(Tokens) /\ RestOf(s \o c) = RestOf(s) \o c
<1> DEFINE n == NewlineIn(s)
<1>1. n \in 1..Len(s) /\ s[n] = Newline /\ \A i \in 1..(n - 1) : s[i] # Newline
  BY NewlineIs
<1>2. /\ s \o c \in Seq(Tokens) /\ Len(s \o c) = Len(s) + Len(c) /\ Len(s) \in Nat /\ Len(c) \in Nat
      /\ \A i \in 1..Len(s) : (s \o c)[i] = s[i]
      /\ \A i \in 1..Len(c) : (s \o c)[Len(s) + i] = c[i]
  BY ConcatProperties
<1> HIDE DEF n
<1>3. NewlineIn(s \o c) = n
  <2>1. n \in 1..Len(s \o c) /\ (s \o c)[n] = Newline /\ \A i \in 1..(n - 1) : (s \o c)[i] # Newline
    BY <1>1, <1>2
  <2> QED BY <1>2, <2>1, NewlineAt
<1>4. n # 0 /\ n = NewlineIn(s)
  BY <1>1 DEF n
<1>5. HeadOf(s \o c) = SubSeq(s \o c, 1, n - 1) /\ HeadOf(s) = SubSeq(s, 1, n - 1)
  BY <1>3, <1>4 DEF HeadOf
<1>6. RestOf(s \o c) = SubSeq(s \o c, n + 1, Len(s \o c)) /\ RestOf(s) = SubSeq(s, n + 1, Len(s))
  BY <1>3, <1>4 DEF RestOf
<1>7. SubSeq(s \o c, 1, n - 1) = SubSeq(s, 1, n - 1)
  <2>1. /\ SubSeq(s, 1, n - 1) \in Seq(Tokens) /\ Len(SubSeq(s, 1, n - 1)) = n - 1
        /\ \A i \in 1..(n - 1) : SubSeq(s, 1, n - 1)[i] = s[i]
    BY <1>1, <1>2, SubSeqProperties
  <2>2. /\ SubSeq(s \o c, 1, n - 1) \in Seq(Tokens) /\ Len(SubSeq(s \o c, 1, n - 1)) = n - 1
        /\ \A i \in 1..(n - 1) : SubSeq(s \o c, 1, n - 1)[i] = (s \o c)[i]
    BY <1>1, <1>2, SubSeqProperties
  <2>3. \A i \in 1..(n - 1) : (s \o c)[i] = s[i]
    BY <1>1, <1>2
  <2> QED BY <2>1, <2>2, <2>3, SeqEqual
<1>8. RestOf(s) \in Seq(Tokens) /\ RestOf(s \o c) = RestOf(s) \o c
  <2>1. /\ RestOf(s) \in Seq(Tokens) /\ Len(RestOf(s)) = Len(s) - n
        /\ \A i \in 1..(Len(s) - n) : RestOf(s)[i] = s[n + i]
    BY <1>1, <1>2, <1>6, SubSeqProperties
  <2>2. /\ RestOf(s \o c) \in Seq(Tokens) /\ Len(RestOf(s \o c)) = (Len(s) - n) + Len(c)
        /\ \A i \in 1..(Len(s) + Len(c) - n) : RestOf(s \o c)[i] = (s \o c)[n + i]
    BY <1>1, <1>2, <1>6, SubSeqProperties
  <2>3. \A i \in 1..Len(RestOf(s)) : RestOf(s \o c)[i] = RestOf(s)[i]
    BY <1>1, <1>2, <2>1, <2>2
  <2>4. ASSUME NEW i \in 1..Len(c) PROVE RestOf(s \o c)[Len(RestOf(s)) + i] = c[i]
    <3>1. (Len(s) - n) + i \in 1..(Len(s) + Len(c) - n) /\ n + ((Len(s) - n) + i) = Len(s) + i
      BY <1>1, <1>2
    <3>2. RestOf(s \o c)[(Len(s) - n) + i] = (s \o c)[Len(s) + i]
      BY <2>2, <3>1
    <3> QED BY <1>2, <2>1, <3>2
  <2>5. Len(RestOf(s \o c)) = Len(RestOf(s)) + Len(c)
    BY <2>1, <2>2
  <2> QED BY <2>1, <2>2, <2>3, <2>4, <2>5, ConcatIs
<1> QED BY <1>3, <1>4, <1>5, <1>7, <1>8

\* A beginning without a newline is a beginning of the first line.
LEMMA LineGrows ==
  ASSUME NEW s \in Seq(Tokens), NEW c \in Seq(Tokens), NewlineIn(s) = 0
  PROVE  IsPrefix(s, HeadOf(s \o c))
<1> DEFINE t == s \o c
           n == NewlineIn(t)
<1>1. /\ t \in Seq(Tokens) /\ Len(t) = Len(s) + Len(c) /\ Len(s) \in Nat /\ Len(c) \in Nat
      /\ \A i \in 1..Len(s) : t[i] = s[i]
  BY ConcatProperties
<1> HIDE DEF t
<1>2. \A i \in 1..Len(s) : t[i] # Newline
  BY <1>1, NewlineIs
<1>3. PICK m \in Len(s)..Len(t) : HeadOf(t) = SubSeq(t, 1, m)
  <2>1. CASE n = 0
    <3>1. HeadOf(t) = SubSeq(t, 1, Len(t))
      BY <1>1, <2>1, SubSeqFull DEF HeadOf
    <3> QED BY <1>1, <3>1
  <2>2. CASE n # 0
    <3>1. n \in 1..Len(t) /\ t[n] = Newline /\ HeadOf(t) = SubSeq(t, 1, n - 1)
      BY <1>1, <2>2, NewlineIs DEF HeadOf
    <3>2. n - 1 \in Len(s)..Len(t)
      BY <1>1, <1>2, <3>1
    <3> QED BY <3>1, <3>2
  <2> QED BY <2>1, <2>2
<1>4. /\ HeadOf(t) \in Seq(Tokens) /\ Len(HeadOf(t)) = m
      /\ \A i \in 1..m : HeadOf(t)[i] = t[i]
  BY <1>1, <1>3, SubSeqProperties
<1>5. /\ SubSeq(HeadOf(t), 1, Len(s)) \in Seq(Tokens) /\ Len(SubSeq(HeadOf(t), 1, Len(s))) = Len(s)
      /\ \A i \in 1..Len(s) : SubSeq(HeadOf(t), 1, Len(s))[i] = HeadOf(t)[i]
  BY <1>1, <1>3, <1>4, SubSeqProperties
<1>6. \A i \in 1..Len(s) : HeadOf(t)[i] = s[i]
  BY <1>1, <1>3, <1>4
<1>7. SubSeq(HeadOf(t), 1, Len(s)) = s
  BY <1>5, <1>6, SeqEqual
<1>8. SubSeq(s, 1, Len(s)) = s
  BY SubSeqFull
<1> QED BY <1>1, <1>3, <1>4, <1>7, <1>8 DEF IsPrefix, t

\* What strip leaves: all from the first token that is no blank.
StripsAt(s, n) ==
    /\ n \in 1..(Len(s) + 1)
    /\ \A i \in 1..(n - 1) : s[i] \in Blanks
    /\ n <= Len(s) => s[n] \notin Blanks

LEMMA StripIs ==
  ASSUME NEW s \in Seq(Tokens)
  PROVE  \E n : StripsAt(s, n) /\ LStrip(s) = SubSeq(s, n, Len(s))
<1> DEFINE I == {i \in 1..Len(s) : s[i] \notin Blanks}
           first == SelectInSeq(s, LAMBDA t : t \notin Blanks)
<1>1. first = IF I # {} THEN Min(I) ELSE 0
  BY DEF SelectInSeq
<1>2. Len(s) \in Nat /\ LStrip(s) = IF first = 0 THEN <<>> ELSE SubSeq(s, first, Len(s))
  BY DEF LStrip
<1> HIDE DEF first
<1>3. CASE I = {}
  <2>1. StripsAt(s, Len(s) + 1)
    BY <1>2, <1>3 DEF StripsAt
  <2>2. SubSeq(s, Len(s) + 1, Len(s)) = <<>>
    BY <1>2, SubSeqEmpty
  <2> QED BY <1>1, <1>2, <1>3, <2>1, <2>2
<1>4. CASE I # {}
  <2>0. I \in SUBSET Nat
    BY <1>2
  <2>1. PICK m : m = first /\ m \in I /\ \A k \in I : m <= k
    <3> HIDE DEF I
    <3> QED BY <1>1, <1>4, <2>0, LeastIs
  <2>2. m \in 1..Len(s) /\ s[m] \notin Blanks
    BY <2>1
  <2>3. \A i \in 1..(m - 1) : i \notin I /\ i \in 1..Len(s)
    BY <1>2, <2>1, <2>2
  <2>4. StripsAt(s, m)
    BY <1>2, <2>2, <2>3 DEF StripsAt
  <2> QED BY <1>2, <2>1, <2>2, <2>4
<1> QED BY <1>3, <1>4

LEMMA StripAt ==
  ASSUME NEW s \in Seq(Tokens), NEW n, StripsAt(s, n)
  PROVE  LStrip(s) = SubSeq(s, n, Len(s))
<1>1. PICK m : StripsAt(s, m) /\ LStrip(s) = SubSeq(s, m, Len(s))
  BY StripIs
<1>2. m \in Nat /\ n \in Nat /\ Len(s) \in Nat
  BY <1>1 DEF StripsAt
<1>3. ~(m < n) /\ ~(n < m)
  BY <1>1, <1>2 DEF StripsAt
<1>4. m = n
  BY <1>2, <1>3
<1> QED BY <1>1, <1>4

\* A text may be stripped as it comes.
LEMMA StripConcat ==
  ASSUME NEW s \in Seq(Tokens), NEW c \in Seq(Tokens)
  PROVE  /\ LStrip(s) \in Seq(Tokens)
         /\ LStrip(s \o c) = IF LStrip(s) = <<>> THEN LStrip(c) ELSE LStrip(s) \o c
<1>1. PICK n : StripsAt(s, n)
  BY StripIs
<1>2. n \in 1..(Len(s) + 1) /\ Len(s) \in Nat /\ Len(c) \in Nat
  BY <1>1 DEF StripsAt
<1>3. /\ s \o c \in Seq(Tokens) /\ Len(s \o c) = Len(s) + Len(c)
      /\ \A i \in 1..Len(s) : (s \o c)[i] = s[i]
      /\ \A i \in 1..Len(c) : (s \o c)[Len(s) + i] = c[i]
  BY ConcatProperties
<1>4. LStrip(s) = SubSeq(s, n, Len(s))
  BY <1>1, StripAt
<1>5. /\ LStrip(s) \in Seq(Tokens) /\ Len(LStrip(s)) = Len(s) - n + 1
      /\ \A i \in 1..(Len(s) - n + 1) : LStrip(s)[i] = s[n + i - 1]
  BY <1>2, <1>4, SubSeqProperties
<1>6. CASE n <= Len(s)
  <2>1. StripsAt(s \o c, n)
    BY <1>1, <1>2, <1>3, <1>6 DEF StripsAt
  <2>2. LStrip(s \o c) = SubSeq(s \o c, n, Len(s) + Len(c))
    BY <1>3, <2>1, StripAt
  <2>3. /\ LStrip(s \o c) \in Seq(Tokens) /\ Len(LStrip(s \o c)) = Len(s) + Len(c) - n + 1
        /\ \A i \in 1..(Len(s) + Len(c) - n + 1) : LStrip(s \o c)[i] = (s \o c)[n + i - 1]
    BY <1>2, <1>3, <1>6, <2>2, SubSeqProperties
  <2>4. \A i \in 1..Len(LStrip(s)) : LStrip(s \o c)[i] = LStrip(s)[i]
    BY <1>2, <1>3, <1>5, <2>3
  <2>5. ASSUME NEW i \in 1..Len(c) PROVE LStrip(s \o c)[Len(LStrip(s)) + i] = c[i]
    <3>1. /\ (Len(s) - n + 1) + i \in 1..(Len(s) + Len(c) - n + 1)
          /\ n + ((Len(s) - n + 1) + i) - 1 = Len(s) + i
      BY <1>2
    <3>2. LStrip(s \o c)[(Len(s) - n + 1) + i] = (s \o c)[Len(s) + i]
      BY <2>3, <3>1
    <3> QED BY <1>3, <1>5, <3>2
  <2>6. LStrip(s \o c) = LStrip(s) \o c
    <3>1. Len(LStrip(s \o c)) = Len(LStrip(s)) + Len(c)
      BY <1>2, <1>5, <2>3
    <3>2. LStrip(s \o c) \in Seq(Tokens)
      BY <2>3
    <3> QED BY <1>5, <2>4, <2>5, <3>1, <3>2, ConcatIs
  <2>7. LStrip(s) # <<>>
    BY <1>2, <1>5, <1>6
  <2> QED BY <1>5, <2>6, <2>7
<1>7. CASE n = Len(s) + 1
  <2>1. LStrip(s) = <<>>
    BY <1>2, <1>4, <1>7, SubSeqEmpty
  <2>2. PICK m : StripsAt(c, m) /\ LStrip(c) = SubSeq(c, m, Len(c))
    BY StripIs
  <2>3. m \in 1..(Len(c) + 1)
    BY <2>2 DEF StripsAt
  <2>4. StripsAt(s \o c, Len(s) + m)
    <3>1. \A i \in 1..(Len(s) + m - 1) : (s \o c)[i] \in Blanks
      <4> SUFFICES ASSUME NEW i \in 1..(Len(s) + m - 1) PROVE (s \o c)[i] \in Blanks
        OBVIOUS
      <4>1. CASE i <= Len(s)
        BY <1>1, <1>2, <1>3, <1>7, <4>1 DEF StripsAt
      <4>2. CASE ~(i <= Len(s))
        <5>1. i - Len(s) \in 1..(m - 1) /\ i - Len(s) \in 1..Len(c) /\ Len(s) + (i - Len(s)) = i
          BY <1>2, <2>3, <4>2
        <5> QED BY <1>3, <2>2, <5>1 DEF StripsAt
      <4> QED BY <4>1, <4>2
    <3>2. Len(s) + m <= Len(s \o c) => (s \o c)[Len(s) + m] \notin Blanks
      BY <1>2, <1>3, <2>2, <2>3 DEF StripsAt
    <3> QED BY <1>2, <1>3, <2>3, <3>1, <3>2 DEF StripsAt
  <2>5. LStrip(s \o c) = SubSeq(s \o c, Len(s) + m, Len(s) + Len(c))
    BY <1>3, <2>4, StripAt
  <2>6. /\ LStrip(s \o c) \in Seq(Tokens) /\ Len(LStrip(s \o c)) = Len(c) - m + 1
        /\ \A i \in 1..(Len(c) - m + 1) : LStrip(s \o c)[i] = (s \o c)[Len(s) + m + i - 1]
    <3>1. Len(s) + m \in 1..(Len(s \o c) + 1) /\ (Len(s) + Len(c)) - (Len(s) + m) + 1 = Len(c) - m + 1
      BY <1>2, <1>3, <2>3
    <3> QED BY <1>3, <2>5, <3>1, EndOf
  <2>7. /\ LStrip(c) \in Seq(Tokens) /\ Len(LStrip(c)) = Len(c) - m + 1
        /\ \A i \in 1..(Len(c) - m + 1) : LStrip(c)[i] = c[m + i - 1]
    BY <1>2, <2>2, <2>3, SubSeqProperties
  <2>8. ASSUME NEW i \in 1..(Len(c) - m + 1) PROVE LStrip(s \o c)[i] = LStrip(c)[i]
    <3>1. m + i - 1 \in 1..Len(c) /\ Len(s) + m + i - 1 = Len(s) + (m + i - 1)
      BY <1>2, <2>3
    <3>2. LStrip(s \o c)[i] = (s \o c)[Len(s) + (m + i - 1)]
      BY <2>6, <3>1
    <3> QED BY <1>3, <2>7, <3>1, <3>2
  <2>9. LStrip(s \o c) = LStrip(c)
    BY <2>6, <2>7, <2>8, SeqEqual
  <2> QED BY <1>5, <2>1, <2>9
<1> QED BY <1>2, <1>6, <1>7

\* Prefixes, place by place.
LEMMA PrefixIs ==
  ASSUME NEW s \in Seq(Tokens), NEW t \in Seq(Tokens)
  PROVE  IsPrefix(s, t) <=> Len(s) <= Len(t) /\ \A i \in 1..Len(s) : s[i] = t[i]
<1>1. Len(s) \in Nat /\ Len(t) \in Nat /\ SubSeq(s, 1, Len(s)) = s
  BY SubSeqFull
<1>2. CASE ~(Len(s) <= Len(t))
  BY <1>2 DEF IsPrefix
<1>3. CASE Len(s) <= Len(t)
  <2>1. /\ SubSeq(t, 1, Len(s)) \in Seq(Tokens) /\ Len(SubSeq(t, 1, Len(s))) = Len(s)
        /\ \A i \in 1..Len(s) : SubSeq(t, 1, Len(s))[i] = t[i]
    <3>1. \A i \in 1..Len(s) : t[i] \in Tokens
      BY <1>1, <1>3
    <3> QED BY <1>1, <3>1, SubSeqProperties
  <2>2. s = SubSeq(t, 1, Len(s)) <=> \A i \in 1..Len(s) : s[i] = t[i]
    BY <2>1, SeqEqual
  <2> QED BY <1>1, <1>3, <2>2 DEF IsPrefix
<1> QED BY <1>2, <1>3

LEMMA LinesAreTexts == \A line \in Lines : line \in Seq(Tokens)
  BY LineAssumption, SeqMonotonic DEF Tokens

\* Settled for good: what a complete line, or a beginning no verdict has, says of an output
\* stays true of it however it goes on.
Decided(s) == NewlineIn(s) # 0 \/ ~MayBecomeVerdict(s)

LEMMA DecidedStays ==
  ASSUME NEW s \in Seq(Tokens), NEW c \in Seq(Tokens), Decided(s)
  PROVE  /\ Decided(s \o c)
         /\ HeadOf(s \o c) \in Lines <=> HeadOf(s) \in Lines
         /\ VerdictOf(s \o c) = VerdictOf(s)
         /\ BodyOf(s) \in Seq(Tokens)
         /\ BodyOf(s \o c) = BodyOf(s) \o
               (IF HeadOf(s) \in Lines /\ BodyOf(s) = <<>> THEN LStrip(c) ELSE c)
<1>1. CASE NewlineIn(s) # 0
  <2>1. /\ NewlineIn(s \o c) = NewlineIn(s) /\ HeadOf(s \o c) = HeadOf(s)
        /\ RestOf(s) \in Seq(Tokens) /\ RestOf(s \o c) = RestOf(s) \o c
    BY <1>1, LineStands
  <2>2. /\ LStrip(RestOf(s)) \in Seq(Tokens) /\ LStrip(c) \in Seq(Tokens)
        /\ LStrip(RestOf(s) \o c) =
              IF LStrip(RestOf(s)) = <<>> THEN LStrip(c) ELSE LStrip(RestOf(s)) \o c
    BY <2>1, StripConcat
  <2>3. CASE HeadOf(s) \in Lines
    <3>1. BodyOf(s) = LStrip(RestOf(s)) /\ BodyOf(s \o c) = LStrip(RestOf(s) \o c)
      BY <2>1, <2>3 DEF BodyOf
    <3>2. <<>> \o LStrip(c) = LStrip(c)
      BY <2>2, ConcatEmptySeq
    <3> QED BY <1>1, <2>1, <2>2, <2>3, <3>1, <3>2 DEF VerdictOf, Decided
  <2>4. CASE HeadOf(s) \notin Lines
    BY <1>1, <2>1, <2>4 DEF VerdictOf, BodyOf, Decided
  <2> QED BY <2>3, <2>4
<1>2. CASE NewlineIn(s) = 0
  <2>1. ~MayBecomeVerdict(s) /\ HeadOf(s) = s
    BY <1>2 DEF Decided, HeadOf
  <2>2. ASSUME NEW t \in Seq(Tokens), IsPrefix(s, t) PROVE t \notin Lines /\ ~MayBecomeVerdict(t)
    <3>1. ASSUME NEW line \in Lines, IsPrefix(t, line) PROVE FALSE
      <4>1. line \in Seq(Tokens) /\ Len(s) \in Nat /\ Len(t) \in Nat
        BY LinesAreTexts
      <4>2. IsPrefix(s, line)
        BY <2>2, <3>1, <4>1, PrefixIs
      <4> QED BY <2>1, <4>2 DEF MayBecomeVerdict
    <3>2. IsPrefix(t, t)
      BY PrefixIs
    <3> QED BY <3>1, <3>2 DEF MayBecomeVerdict
  <2>3. s \o c \in Seq(Tokens) /\ IsPrefix(s, s \o c) /\ IsPrefix(s, s)
    <3>1. /\ s \o c \in Seq(Tokens) /\ Len(s) <= Len(s \o c) /\ Len(s) <= Len(s)
          /\ \A i \in 1..Len(s) : s[i] = (s \o c)[i]
      BY ConcatProperties
    <3> QED BY ONLY <3>1, s \in Seq(Tokens), PrefixIs
  <2>4. HeadOf(s \o c) \in Seq(Tokens)
    <3>1. CASE NewlineIn(s \o c) = 0
      BY <2>3, <3>1 DEF HeadOf
    <3>2. CASE NewlineIn(s \o c) # 0
      <4>1. NewlineIn(s \o c) \in 1..Len(s \o c)
        <5>1. PICK t \in Seq(Tokens) : t = s \o c
          BY <2>3
        <5>2. NewlineIn(t) \in 0..Len(t) /\ NewlineIn(t) # 0
          BY <3>2, <5>1, NewlineIs
        <5>3. NewlineIn(t) \in 1..Len(t)
          BY <5>2
        <5> QED BY <5>1, <5>3
      <4>2. \A i \in 1..(NewlineIn(s \o c) - 1) : (s \o c)[i] \in Tokens
        BY <2>3, <4>1
      <4> QED BY <3>2, <4>1, <4>2, SubSeqProperties DEF HeadOf
    <3> QED BY <3>1, <3>2
  <2>5. IsPrefix(s, HeadOf(s \o c))
    BY <1>2, LineGrows
  <2>6. HeadOf(s \o c) \notin Lines /\ ~MayBecomeVerdict(s \o c) /\ HeadOf(s) \notin Lines
    BY <2>1, <2>2, <2>3, <2>4, <2>5
  <2> QED BY <2>6 DEF VerdictOf, BodyOf, Decided
<1> QED BY <1>1, <1>2

LEMMA SplitStart == SplitterInit => SplitInv
<1> SUFFICES ASSUME SplitterInit PROVE SplitInv
  OBVIOUS
<1>1. <<>> \in Seq(Tokens) /\ Len(<<>>) = 0
  BY EmptySeq
<1>2. NewlineIn(<<>>) = 0
  <2>1. NewlineIn(<<>>) \in 0..Len(<<>>)
    BY <1>1, NewlineIs
  <2> QED BY <1>1, <2>1
<1>3. \E line \in Lines : IsPrefix(<<>>, line)
  <2>1. PICK line \in Lines : line \in Seq(Tokens)
    BY LineAssumption, LinesAreTexts
  <2>2. Len(<<>>) <= Len(line) /\ \A i \in 1..Len(<<>>) : <<>>[i] = line[i]
    BY <1>1, <2>1
  <2> QED BY <1>1, <2>1, <2>2, PrefixIs
<1> QED BY <1>1, <1>2, <1>3 DEF SplitterInit, SplitInv, StreamMatchesParse, HoldsBackOnlyVerdicts

\* What has arrived is decided, at the latest when nothing more can come.
LEMMA SettleStep ==
  ASSUME NEW final \in BOOLEAN, NEW pending \in Seq(Tokens), Settle(pending, final), raw' = pending,
         text = <<>>, trimming = FALSE, verdict = NoVerdict, settled = FALSE
  PROVE  /\ text' \in Seq(Tokens) /\ settled' \in BOOLEAN /\ trimming' \in BOOLEAN
         /\ StreamMatchesParse' /\ HoldsBackOnlyVerdicts'
         /\ ~settled' => ~final /\ ~trimming' /\ verdict' = NoVerdict /\ NewlineIn(pending) = 0
         /\ settled' /\ ~final => Decided(pending)
         /\ settled' => (trimming' <=> HeadOf(pending) \in Lines /\ text' = <<>>)
<1> DEFINE complete == final \/ NewlineIn(pending) > 0
<1>1. NewlineIn(pending) \in Nat /\ (NewlineIn(pending) > 0 <=> NewlineIn(pending) # 0)
  BY NewlineIs
<1>2. CASE complete /\ HeadOf(pending) \in Lines /\ Accept(pending)
  <2>1. RestOf(pending) \in Seq(Tokens)
    <3>1. CASE NewlineIn(pending) = 0
      BY <3>1, EmptySeq DEF RestOf
    <3>2. CASE NewlineIn(pending) # 0
      BY <3>2, LineStands
    <3> QED BY <3>1, <3>2
  <2>2. LStrip(RestOf(pending)) \in Seq(Tokens)
    BY <2>1, StripConcat
  <2>3. text' = LStrip(RestOf(pending)) /\ (trimming' <=> text' = <<>>)
    <3>1. text' = <<>> \o LStrip(RestOf(pending)) /\ trimming' = (TRUE /\ LStrip(RestOf(pending)) = <<>>)
      BY <1>2 DEF Accept, Emit
    <3> QED BY <2>2, <3>1, ConcatEmptySeq
  <2>4. trimming' \in BOOLEAN
    BY <1>2 DEF Accept, Emit
  <2>5. settled' = TRUE /\ verdict' = HeadOf(pending) /\ buffer' = <<>>
    BY <1>2 DEF Accept
  <2> QED BY <1>1, <1>2, <2>2, <2>3, <2>4, <2>5
          DEF StreamMatchesParse, HoldsBackOnlyVerdicts, BodyOf, VerdictOf, Decided
<1>3. ASSUME Reject(pending), HeadOf(pending) \notin Lines, ~final => Decided(pending)
      PROVE  /\ text' = pending /\ settled' = TRUE /\ trimming' = FALSE /\ verdict' = NoVerdict /\ buffer' = <<>>
             /\ StreamMatchesParse' /\ HoldsBackOnlyVerdicts'
  <2>1. text' = <<>> \o pending /\ settled' = TRUE /\ trimming' = FALSE /\ verdict' = NoVerdict
        /\ buffer' = <<>>
    BY <1>3 DEF Reject, Emit
  <2>2. text' = pending
    BY <2>1, ConcatEmptySeq
  <2> QED BY <1>3, <2>1, <2>2 DEF StreamMatchesParse, HoldsBackOnlyVerdicts, BodyOf, VerdictOf
<1>4. CASE complete /\ HeadOf(pending) \notin Lines /\ Reject(pending)
  BY <1>1, <1>3, <1>4 DEF Decided
<1>5. CASE ~complete /\ MayBecomeVerdict(pending) /\ Wait(pending)
  <2>1. /\ buffer' = pending /\ settled' = FALSE /\ trimming' = trimming /\ verdict' = NoVerdict
        /\ text' = <<>> /\ trimming' = FALSE
    BY <1>5 DEF Wait
  <2>2. \E line \in Lines : IsPrefix(raw', line)
    BY <1>5 DEF MayBecomeVerdict
  <2>3. StreamMatchesParse' /\ HoldsBackOnlyVerdicts'
    BY <2>1, <2>2 DEF StreamMatchesParse, HoldsBackOnlyVerdicts
  <2>4. <<>> \in Seq(Tokens)
    BY EmptySeq
  <2> QED BY <1>1, <1>5, <2>1, <2>3, <2>4
<1>6. CASE ~complete /\ ~MayBecomeVerdict(pending) /\ Reject(pending)
  <2>1. HeadOf(pending) = pending /\ IsPrefix(pending, pending)
    BY <1>1, <1>6, PrefixIs DEF HeadOf
  <2>2. HeadOf(pending) \notin Lines
    BY <1>6, <2>1 DEF MayBecomeVerdict
  <2> QED BY <1>3, <1>6, <2>2 DEF Decided
<1> QED BY <1>2, <1>4, <1>5, <1>6 DEF Settle

LEMMA SplitStep == SplitInv /\ [SplitterNext]_splitter => SplitInv'
<1> SUFFICES ASSUME SplitInv, [SplitterNext]_splitter PROVE SplitInv'
  OBVIOUS
<1>1. ASSUME NEW chunk \in Seq(Tokens), FeedOpen(chunk) PROVE SplitInv'
  <2>1. /\ buffer = raw /\ text = <<>> /\ trimming = FALSE /\ verdict = NoVerdict /\ settled = FALSE
        /\ raw \in Seq(Tokens) /\ raw' = raw \o chunk /\ Settle(raw \o chunk, FALSE)
        /\ finished = FALSE /\ finished' = FALSE
    BY <1>1 DEF FeedOpen, SplitInv, HoldsBackOnlyVerdicts
  <2>2. raw' \in Seq(Tokens)
    BY <2>1, ConcatProperties
  <2>3. Settle(raw', FALSE)
    BY <2>1
  <2> QED BY <2>1, <2>2, <2>3, SettleStep DEF SplitInv, Decided
<1>2. ASSUME NEW chunk \in Seq(Tokens), FeedSettled(chunk) PROVE SplitInv'
  <2> DEFINE piece == IF trimming THEN LStrip(chunk) ELSE chunk
  <2>1. /\ settled = TRUE /\ settled' = TRUE /\ finished = FALSE /\ finished' = FALSE
        /\ raw' = raw \o chunk /\ buffer' = buffer /\ verdict' = verdict
        /\ text' = text \o piece /\ trimming' = (trimming /\ piece = <<>>)
    BY <1>2 DEF FeedSettled, Emit, SplitInv
  <2>2. /\ raw \in Seq(Tokens) /\ text \in Seq(Tokens) /\ trimming \in BOOLEAN /\ Decided(raw)
        /\ text = BodyOf(raw) /\ verdict = VerdictOf(raw) /\ buffer = <<>>
        /\ trimming <=> HeadOf(raw) \in Lines /\ text = <<>>
    BY <2>1 DEF SplitInv, StreamMatchesParse, HoldsBackOnlyVerdicts, Decided
  <2>3. piece \in Seq(Tokens)
    BY StripConcat
  <2>4. raw' \in Seq(Tokens) /\ text' \in Seq(Tokens)
    BY <2>1, <2>2, <2>3, ConcatProperties
  <2>5. /\ Decided(raw') /\ (HeadOf(raw') \in Lines <=> HeadOf(raw) \in Lines)
        /\ verdict' = VerdictOf(raw') /\ text' = BodyOf(raw')
    BY <2>1, <2>2, DecidedStays
  <2>6. trimming' \in BOOLEAN /\ (trimming' <=> HeadOf(raw') \in Lines /\ text' = <<>>)
    <3>1. text' = <<>> <=> text = <<>> /\ piece = <<>>
      BY <2>1, <2>2, <2>3, ConcatEqualIffEmpty
    <3> QED BY <2>1, <2>2, <2>5, <3>1
  <2> QED BY <2>1, <2>2, <2>4, <2>5, <2>6 DEF SplitInv, StreamMatchesParse, HoldsBackOnlyVerdicts, Decided
<1>3. CASE FinishOpen
  <2>1. /\ buffer = raw /\ text = <<>> /\ trimming = FALSE /\ verdict = NoVerdict /\ settled = FALSE
        /\ raw \in Seq(Tokens) /\ raw' = raw /\ Settle(raw, TRUE) /\ finished' = TRUE
    BY <1>3 DEF FinishOpen, SplitInv, HoldsBackOnlyVerdicts
  <2> QED BY <2>1, SettleStep DEF SplitInv, Decided
<1>4. CASE FinishSettled \/ UNCHANGED splitter
  <2>1. UNCHANGED <<raw, buffer, settled, trimming, verdict, text>> /\ finished' \in BOOLEAN
        /\ (~settled => finished' = finished) /\ (~finished' => finished' = finished)
    BY <1>4 DEF FinishSettled, splitter, SplitInv
  <2> QED BY <2>1 DEF SplitInv, StreamMatchesParse, HoldsBackOnlyVerdicts
<1>5. ASSUME NEW chunk \in Deltas PROVE chunk \in Seq(Tokens)
  BY <1>5, BoundsAssumption DEF Deltas, BoundedSeq, SeqOf
<1> QED BY <1>1, <1>2, <1>3, <1>4, <1>5 DEF SplitterNext

\* However an output is cut into chunks, the stream has the text and the verdict parse_answer
\* finds in the whole of it.
THEOREM StreamedAsParsed == SplitterSpec => []StreamMatchesParse
<1>1. SplitInv => StreamMatchesParse
  BY DEF SplitInv
<1> QED BY <1>1, SplitStart, SplitStep, PTL DEF SplitterSpec

\* And of no output more is held back than the beginning of a verdict.
THEOREM HeldBackForVerdicts == SplitterSpec => []HoldsBackOnlyVerdicts
<1>1. SplitInv => HoldsBackOnlyVerdicts
  BY DEF SplitInv
<1> QED BY <1>1, SplitStart, SplitStep, PTL DEF SplitterSpec


-----------------------------------------------------------------------------
(* A text in chunks.                                                       *)

\* A set of numbers that is bounded and not empty has a greatest one.
LEMMA GreatestIs ==
  ASSUME NEW n \in Nat, NEW S \in SUBSET (0..n), S # {}
  PROVE  Max(S) \in S /\ \A k \in S : k <= Max(S)
<1> DEFINE T == {n - k : k \in S}
<1>1. T \in SUBSET Nat /\ T # {}
  OBVIOUS
<1>2. Min(T) \in T /\ \A k \in T : Min(T) <= k
  <2> HIDE DEF T
  <2> QED BY <1>1, LeastIs
<1>3. PICK m \in S : Min(T) = n - m
  BY <1>2
<1>4. \A k \in S : m >= k
  <2>1. SUFFICES ASSUME NEW k \in S PROVE m >= k
    OBVIOUS
  <2>2. n - k \in T /\ k \in Nat /\ m \in Nat
    OBVIOUS
  <2>3. n - m <= n - k
    <3> HIDE DEF T
    <3> QED BY <1>2, <1>3, <2>2
  <2> QED BY <2>2, <2>3
<1>5. \A k, j \in S : k >= j <=> j <= k
  OBVIOUS
<1> QED BY <1>3, <1>4, <1>5 DEF Max

\* What holds at the start and stays from one place to the next holds everywhere.
LEMMA Along ==
  ASSUME NEW N \in Nat, NEW T, 0 \in T, \A n \in 0..(N - 1) : n \in T => n + 1 \in T
  PROVE  \A n \in 0..N : n \in T
<1> DEFINE U == {n \in Nat : n <= N => n \in T}
<1>1. 0 \in U
  OBVIOUS
<1>2. \A n \in Nat : n \in U => n + 1 \in U
  <2>1. SUFFICES ASSUME NEW n \in Nat, n \in U, n + 1 <= N PROVE n + 1 \in T
    OBVIOUS
  <2>2. n \in 0..(N - 1) /\ n \in T
    BY <2>1
  <2> QED BY <2>2
<1>3. \A n \in Nat : n \in U
  <2> HIDE DEF U
  <2> QED BY <1>1, <1>2, Induct
<1> QED BY <1>3

LEMMA TrimIs ==
  ASSUME NEW t, NEW s \in Nat, NEW e \in Nat, Inked(t, s, e) # {}
  PROVE  \E a, b \in Nat : /\ Trim(t, s, e) = <<a, b>> /\ a < b /\ b <= e
                           /\ a \in Inked(t, s, e) /\ b - 1 \in Inked(t, s, e)
                           /\ \A i \in Inked(t, s, e) : a <= i /\ i < b
<1> DEFINE I == Inked(t, s, e)
<1>1. I \in SUBSET Nat /\ I \in SUBSET (0..e) /\ \A i \in I : i < e
  BY DEF Inked
<1>2. I # {}
  OBVIOUS
<1> HIDE DEF I
<1>3. Min(I) \in I /\ (\A i \in I : Min(I) <= i) /\ Max(I) \in I /\ \A i \in I : i <= Max(I)
  BY <1>1, <1>2, LeastIs, GreatestIs
<1>4. Trim(t, s, e) = <<Min(I), Max(I) + 1>>
  BY DEF Trim, I
<1> DEFINE a == Min(I)
           b == Max(I)
<1> HIDE DEF a, b
<1>5. a \in I /\ (\A i \in I : a <= i) /\ b \in I /\ \A i \in I : i <= b
  BY <1>3 DEF a, b
<1>6. a \in Nat /\ b + 1 \in Nat /\ a < b + 1 /\ b + 1 <= e /\ (b + 1) - 1 \in I /\ \A i \in I : a <= i /\ i < b + 1
  BY <1>1, <1>5
<1>7. Trim(t, s, e) = <<a, b + 1>>
  BY <1>4 DEF a, b
<1> QED BY <1>5, <1>6, <1>7 DEF I

\* What _split_segment has made of a text up to an end.
Cut(t, size, spans, end) ==
    /\ spans \in Seq(Nat \X Nat)
    /\ \A i \in Inked(t, 0, end) : \E k \in DOMAIN spans : spans[k][1] <= i /\ i < spans[k][2]
    /\ \A k \in DOMAIN spans :
          /\ spans[k][1] < spans[k][2] /\ spans[k][2] <= end /\ spans[k][2] - spans[k][1] <= size
          /\ {spans[k][1], spans[k][2] - 1} \subseteq Inked(t, 0, end)
          /\ k > 1 => spans[k - 1][1] < spans[k][1] /\ spans[k - 1][2] < spans[k][2]

\* One core more: what it has is in a chunk, and what the overlap adds does not hide the chunk
\* before.
LEMMA AddCoreIs ==
  ASSUME NEW t, NEW size \in Nat, NEW overlap \in Nat, NEW spans, NEW c \in Nat, NEW e \in Nat, c < e,
         Cut(t, size, spans, c), c = 0 => e <= size, c # 0 => e - c + overlap <= size
  PROVE  Cut(t, size, AddCore(t, overlap, spans, <<c, e>>), e)
<1> DEFINE back == IF c = 0 THEN 0 ELSE Most(c, overlap) - overlap
           s == IF spans = <<>> THEN back ELSE Most(back, Last(spans)[1] + 1)
           n == Len(spans)
<1>0. spans \in Seq(Nat \X Nat) /\ n \in Nat /\ (spans # <<>> => n >= 1 /\ n \in DOMAIN spans) /\ DOMAIN spans = 1..n
  BY DEF Cut
<1>1. back \in Nat /\ back <= c /\ e - back <= size
  BY DEF Most
<1>2. ASSUME spans # <<>>
      PROVE  /\ Last(spans) = spans[n] /\ spans[n][1] \in Nat /\ spans[n][2] \in Nat
             /\ spans[n][1] < spans[n][2] /\ spans[n][2] <= c
  BY <1>0, <1>2 DEF Cut, Last
<1> HIDE DEF back, n
<1>3. s \in Nat /\ back <= s /\ s <= c /\ (spans # <<>> => spans[n][1] < s)
  BY <1>1, <1>2 DEF Most
<1>4. AddCore(t, overlap, spans, <<c, e>>) =
        IF Inked(t, s, e) = {} THEN spans
        ELSE IF spans # <<>> /\ Trim(t, s, e)[2] <= Last(spans)[2] THEN spans
        ELSE Append(spans, Trim(t, s, e))
  BY DEF AddCore, back
<1> HIDE DEF s
<1>5. /\ Inked(t, 0, c) \subseteq Inked(t, 0, e) /\ Inked(t, s, e) \subseteq Inked(t, 0, e)
      /\ \A i \in Inked(t, 0, e) : i \in Nat /\ (i \in Inked(t, 0, c) \/ (i \in Inked(t, s, e) /\ c <= i))
  BY <1>3 DEF Inked
<1>6. ASSUME \A i \in Inked(t, s, e) : i < c PROVE Cut(t, size, spans, e)
  <2>1. Inked(t, 0, e) = Inked(t, 0, c)
    BY <1>5, <1>6
  <2>2. \A k \in DOMAIN spans : spans[k][2] \in Nat /\ (spans[k][2] <= c => spans[k][2] <= e)
    BY <1>0
  <2> QED BY <2>1, <2>2 DEF Cut
<1>7. CASE Inked(t, s, e) = {}
  BY <1>4, <1>6, <1>7
<1>8. CASE Inked(t, s, e) # {}
  <2>1. PICK a, b \in Nat : /\ Trim(t, s, e) = <<a, b>> /\ a < b /\ b <= e
                            /\ a \in Inked(t, s, e) /\ b - 1 \in Inked(t, s, e)
                            /\ \A i \in Inked(t, s, e) : a <= i /\ i < b
    BY <1>3, <1>8, TrimIs
  <2>2. CASE spans # <<>> /\ b <= spans[n][2]
    <3>1. \A i \in Inked(t, s, e) : i < c
      BY <1>2, <1>5, <2>1, <2>2
    <3>2. Trim(t, s, e)[2] <= Last(spans)[2]
      BY <1>2, <2>1, <2>2
    <3>3. AddCore(t, overlap, spans, <<c, e>>) = spans
      BY <1>4, <1>8, <2>2, <3>2
    <3> QED BY <1>6, <3>1, <3>3
  <2>3. CASE ~(spans # <<>> /\ b <= spans[n][2])
    <3> DEFINE u == <<a, b>>
               R == Append(spans, u)
    <3>1. AddCore(t, overlap, spans, <<c, e>>) = R
      BY <1>2, <1>4, <1>8, <2>1, <2>3
    <3>2. u \in Nat \X Nat /\ u[1] = a /\ u[2] = b
      OBVIOUS
    <3> HIDE DEF u
    <3>3. /\ R \in Seq(Nat \X Nat) /\ Len(R) = n + 1 /\ DOMAIN R = 1..(n + 1) /\ R[n + 1] = u
          /\ \A k \in 1..n : R[k] = spans[k]
      BY <1>0, <3>2 DEF n
    <3> HIDE DEF R
    <3>4. ASSUME NEW i \in Inked(t, 0, e) PROVE \E k \in DOMAIN R : R[k][1] <= i /\ i < R[k][2]
      <4>1. CASE i \in Inked(t, 0, c)
        <5>1. PICK k \in DOMAIN spans : spans[k][1] <= i /\ i < spans[k][2]
          BY <4>1 DEF Cut
        <5>2. k \in DOMAIN R /\ R[k] = spans[k]
          BY <1>0, <3>3
        <5> QED BY <5>1, <5>2
      <4>2. CASE i \in Inked(t, s, e)
        <5>1. n + 1 \in DOMAIN R /\ a <= i /\ i < b
          BY <1>0, <2>1, <3>3, <4>2
        <5> QED BY <3>2, <3>3, <5>1
      <4> QED BY <1>5, <4>1, <4>2
    <3>5. ASSUME NEW k \in DOMAIN R
          PROVE  /\ R[k][1] < R[k][2] /\ R[k][2] <= e /\ R[k][2] - R[k][1] <= size
                 /\ {R[k][1], R[k][2] - 1} \subseteq Inked(t, 0, e)
                 /\ k > 1 => R[k - 1][1] < R[k][1] /\ R[k - 1][2] < R[k][2]
      <4>1. CASE k \in 1..n
        <5>1. /\ spans[k][1] < spans[k][2] /\ spans[k][2] <= c /\ spans[k][2] - spans[k][1] <= size
              /\ {spans[k][1], spans[k][2] - 1} \subseteq Inked(t, 0, c)
              /\ k > 1 => spans[k - 1][1] < spans[k][1] /\ spans[k - 1][2] < spans[k][2]
          BY <1>0, <4>1 DEF Cut
        <5>0. k \in Nat /\ spans[k] \in Nat \X Nat /\ (k > 1 => k - 1 \in 1..n)
          BY <1>0, <4>1
        <5>2. spans[k][2] \in Nat /\ R[k] = spans[k] /\ (k > 1 => R[k - 1] = spans[k - 1])
          BY <3>3, <4>1, <5>0
        <5>3. spans[k][2] <= e
          BY <5>1, <5>2
        <5> QED BY <1>5, <5>1, <5>2, <5>3
      <4>2. CASE k = n + 1
        <5>1. R[k] = u /\ (k > 1 => spans # <<>> /\ R[k - 1] = spans[n])
          <6>1. k > 1 => n \in 1..n /\ k - 1 = n
            BY <1>0, <4>2
          <6> QED BY <1>0, <3>3, <4>2, <6>1 DEF n
        <5>2. s <= a /\ b - a <= size
          <6>1. s <= a
            BY <1>3, <2>1 DEF Inked
          <6> QED BY <1>1, <1>3, <2>1, <6>1
        <5>3. k > 1 => spans[n][1] < a /\ spans[n][2] < b
          BY <1>2, <1>3, <2>1, <2>3, <5>1, <5>2
        <5>4. {a, b - 1} \subseteq Inked(t, 0, e)
          BY <1>5, <2>1
        <5> QED BY <2>1, <3>2, <5>1, <5>2, <5>3, <5>4
      <4> QED BY <1>0, <3>3, <4>1, <4>2
    <3> QED BY <3>1, <3>3, <3>4, <3>5 DEF Cut
  <2> QED BY <2>2, <2>3
<1> QED BY <1>7, <1>8

LEMMA TurnIs ==
  ASSUME NEW b \in Nat \ {0}, NEW x \in Nat
  PROVE  b % b = 0 /\ (x % b = 0 => (x + b) % b = 0)
<1>1. b % b = 0
  OBVIOUS
<1>2. ASSUME x % b = 0 PROVE (x + b) % b = 0
  <2>1. PICK q \in Nat : x = q * b
    BY <1>2
  <2>2. x + b = (q + 1) * b /\ q + 1 \in Nat
    BY <2>1
  <2>3. ((q + 1) * b) % b = 0
    BY <2>2
  <2> QED BY <2>2, <2>3
<1> QED BY <1>1, <1>2

\* Where a separator is found, the cut is in the piece.
LEMMA CutsAtIs ==
  ASSUME NEW t, NEW sep, Len(sep) \in Nat, NEW s, s \in Nat, NEW e, e \in Nat, s <= e
  PROVE  CutsAt(t, sep, s, e) \subseteq s..e
<1> DEFINE N == e - s
           V == s..e
           goes(v) == LET found == Found(t, sep, v, e)
                      IN  IF found = {} THEN e ELSE Len(sep) + CHOOSE i \in found : TRUE
           st == [n \in 1..N |-> [v \in V |-> goes(v)]]
<1>1. N \in Nat /\ s \in V
  OBVIOUS
<1>2. \A v \in V : goes(v) \in V
  <2>1. SUFFICES ASSUME NEW v \in V PROVE goes(v) \in V
    OBVIOUS
  <2>2. Found(t, sep, v, e) \subseteq {i \in v..e : i + Len(sep) <= e}
    BY DEF Found
  <2> QED BY <2>2
<1>3. st \in [1..N -> [V -> V]]
  BY <1>2
<1> HIDE DEF N, V, goes, st
<1>4. PICK f \in [0..N -> V] : f[0] = s /\ \A n \in 1..N : f[n] = st[n][f[n - 1]]
  <2>1. s \in V /\ N \in Nat /\ st \in [1..N -> [V -> V]]
    BY <1>1, <1>3
  <2> QED BY ONLY <2>1, Recursion
<1>5. \A n \in 1..N : n - 1 \in 0..N /\ f[n - 1] \in V /\ f[n] = goes(f[n - 1])
  <2>1. \A n \in 1..N : n - 1 \in 0..N
    BY <1>1
  <2> QED BY <1>4, <2>1 DEF st
<1>6. f = [n \in 0..N |-> IF n = 0 THEN s ELSE goes(f[n - 1])]
  <2>1. \A n \in 0..N : n = 0 \/ n \in 1..N
    BY <1>1
  <2> QED BY <1>4, <1>5, <2>1
<1> DEFINE g == CHOOSE g : g = [n \in 0..N |-> IF n = 0 THEN s ELSE goes(g[n - 1])]
<1>7. g = [n \in 0..N |-> IF n = 0 THEN s ELSE goes(g[n - 1])]
  BY <1>6
<1>8. CutsAt(t, sep, s, e) = {g[n] : n \in 0..N}
  BY DEF CutsAt, N, goes
<1> HIDE DEF g
<1>9. \A n \in 0..N : g[n] \in V
  <2> DEFINE T == {n \in 0..N : g[n] \in V}
  <2>1. 0 \in T
    BY <1>1, <1>7
  <2>2. \A n \in 0..(N - 1) : n \in T => n + 1 \in T
    <3>1. SUFFICES ASSUME NEW n \in 0..(N - 1), g[n] \in V PROVE n + 1 \in T
      OBVIOUS
    <3>2. n + 1 \in 0..N /\ n + 1 # 0 /\ (n + 1) - 1 = n
      BY <1>1
    <3>3. g[n + 1] = goes(g[n])
      BY <1>7, <3>2
    <3> QED BY <1>2, <3>1, <3>2, <3>3
  <2>3. \A n \in 0..N : n \in T
    <3> HIDE DEF T
    <3> QED BY <1>1, <2>1, <2>2, Along
  <2> QED BY <2>3
<1> QED BY <1>8, <1>9 DEF V

LEMMA WideIs ==
  ASSUME NEW L \in Nat, NEW K \in SUBSET (0..L), NEW b \in Nat, NEW p \in Wide(K, b)
  PROVE  /\ p[1] \in K /\ p[2] \in K /\ p[1] \in Nat /\ p[2] \in Nat /\ p[1] < p[2]
         /\ p[2] - p[1] > b /\ p[1]..p[2] \subseteq 0..L
<1>1. p \in K \X K /\ p[2] - p[1] > b
  BY DEF Wide
<1>2. p[1] \in K /\ p[2] \in K /\ p[1] \in 0..L /\ p[2] \in 0..L
  BY <1>1
<1> QED BY <1>1, <1>2

\* From every cut of _split_units but the last the next one is within the budget.
LEMMA SplitUnitsIs ==
  ASSUME NEW t, t \in Seq(Characters), NEW b, b \in Nat \ {0}
  PROVE  /\ SplitUnits(t, b) \subseteq 0..Len(t) /\ {0, Len(t)} \subseteq SplitUnits(t, b)
         /\ \A s \in SplitUnits(t, b) : s < Len(t) => \E c \in SplitUnits(t, b) : s < c /\ c <= s + b
<1> DEFINE L == Len(t)
           N == Len(Separators)
           V == {K \in SUBSET (0..L) : {0, L} \subseteq K}
           goes(n, K) == K \cup UNION {CutsAt(t, Separators[n], p[1], p[2]) : p \in Wide(K, b)}
           st == [n \in 1..N |-> [K \in V |-> goes(n, K)]]
           b0 == {0, L}
<1>1. /\ L \in Nat /\ b0 \in V /\ N \in Nat /\ b \in Nat
      /\ \A n \in 1..N : Len(Separators[n]) \in Nat
  BY ChunkingAssumption
<1>2. \A n \in 1..N : \A K \in V : goes(n, K) \in V
  <2>1. SUFFICES ASSUME NEW n \in 1..N, NEW K \in V PROVE goes(n, K) \in V
    OBVIOUS
  <2>2. K \in SUBSET (0..L) /\ {0, L} \subseteq K
    OBVIOUS
  <2> HIDE DEF L, N, V
  <2>3. ASSUME NEW p \in Wide(K, b) PROVE CutsAt(t, Separators[n], p[1], p[2]) \subseteq 0..L
    <3>1. /\ p[1] \in Nat /\ p[2] \in Nat /\ p[1] < p[2] /\ p[1]..p[2] \subseteq 0..L
      BY ONLY <1>1, <2>2, <2>3, WideIs
    <3>2. p[1] <= p[2]
      BY <3>1
    <3> QED BY <1>1, <3>1, <3>2, CutsAtIs
  <2>4. goes(n, K) \in SUBSET (0..L) /\ {0, L} \subseteq goes(n, K)
    BY <2>2, <2>3
  <2> QED BY <2>4 DEF V
<1>3. st \in [1..N -> [V -> V]]
  <2> HIDE DEF N, V, goes
  <2> QED BY <1>2
<1> HIDE DEF L, N, V, b0, goes, st
<1>4. PICK f \in [0..N -> V] : f[0] = b0 /\ \A n \in 1..N : f[n] = st[n][f[n - 1]]
  <2>1. b0 \in V /\ N \in Nat /\ st \in [1..N -> [V -> V]]
    BY <1>1, <1>3
  <2> QED BY ONLY <2>1, Recursion
<1>5. \A n \in 1..N : n - 1 \in 0..N /\ f[n - 1] \in V /\ f[n] = goes(n, f[n - 1])
  <2>1. \A n \in 1..N : n - 1 \in 0..N
    BY <1>1
  <2> QED BY <1>4, <2>1 DEF st
<1>6. f = [n \in 0..N |-> IF n = 0 THEN b0 ELSE goes(n, f[n - 1])]
  <2>1. \A n \in 0..N : n = 0 \/ n \in 1..N
    BY <1>1
  <2> QED BY <1>4, <1>5, <2>1
<1> DEFINE g == CHOOSE g : g = [n \in 0..N |-> IF n = 0 THEN b0 ELSE goes(n, g[n - 1])]
<1>7. g = [n \in 0..N |-> IF n = 0 THEN b0 ELSE goes(n, g[n - 1])]
  BY <1>6
<1>8. SplitUnits(t, b) = g[N] \cup UNION {Slices(p[1], p[2], b) : p \in Wide(g[N], b)}
  BY DEF SplitUnits, L, N, b0, goes
<1> HIDE DEF g
<1>9. \A n \in 0..N : g[n] \in V
  <2> DEFINE T == {n \in 0..N : g[n] \in V}
  <2>1. 0 \in T
    BY <1>1, <1>7
  <2>2. \A n \in 0..(N - 1) : n \in T => n + 1 \in T
    <3>1. SUFFICES ASSUME NEW n \in 0..(N - 1), g[n] \in V PROVE n + 1 \in T
      OBVIOUS
    <3>2. n + 1 \in 0..N /\ n + 1 \in 1..N /\ n + 1 # 0 /\ (n + 1) - 1 = n
      BY <1>1
    <3>3. g[n + 1] = goes(n + 1, g[n])
      BY <1>7, <3>2
    <3> QED BY <1>2, <3>1, <3>2, <3>3
  <2>3. \A n \in 0..N : n \in T
    <3> HIDE DEF T
    <3> QED BY <1>1, <2>1, <2>2, Along
  <2> QED BY <2>3
<1> DEFINE K == g[N]
           U == SplitUnits(t, b)
<1>10. K \in SUBSET (0..L) /\ {0, L} \subseteq K /\ U = K \cup UNION {Slices(p[1], p[2], b) : p \in Wide(K, b)}
  <2>1. N \in 0..N
    BY <1>1
  <2> QED BY <1>8, <1>9, <2>1 DEF V
<1> HIDE DEF K, U
<1>11. \A p \in Wide(K, b) : /\ p[1] \in K /\ p[2] \in K /\ p[1] \in Nat /\ p[2] \in Nat
                             /\ p[1]..p[2] \subseteq 0..L /\ Slices(p[1], p[2], b) \subseteq p[1]..p[2]
  <2>1. \A p \in Wide(K, b) : Slices(p[1], p[2], b) \subseteq p[1]..p[2]
    BY DEF Slices
  <2> QED BY <1>1, <1>10, <2>1, WideIs
<1>12. U \subseteq 0..L /\ {0, L} \subseteq U
  BY <1>10, <1>11
<1>13. ASSUME NEW s \in U, s < L PROVE \E c \in U : s < c /\ c <= s + b
  <2>0. s \in Nat
    BY <1>12
  <2>1. CASE s \in K
    <3> DEFINE S == {c \in K : c > s}
               e == Min(S)
    <3>1. S \in SUBSET Nat /\ S # {}
      <4>1. L \in K /\ L > s /\ \A c \in K : c \in Nat
        BY <1>1, <1>10, <1>13, <2>0
      <4> QED BY <4>1
    <3>2. e \in S /\ \A k \in S : e <= k
      <4> HIDE DEF S
      <4> QED BY <3>1, LeastIs
    <3> HIDE DEF e
    <3>3. e \in K /\ e > s /\ e \in Nat /\ \A k \in K : k > s => e <= k
      BY <1>10, <3>1, <3>2
    <3>4. CASE e <= s + b
      BY <1>10, <3>3, <3>4
    <3>5. CASE e > s + b
      <4> DEFINE p == <<s, e>>
      <4>1. (s..e) \cap K = {s, e}
        <5>1. \A k \in (s..e) \cap K : k = s \/ k = e
          BY <1>1, <1>10, <2>0, <3>3
        <5>2. s \in s..e /\ e \in s..e
          BY <2>0, <3>3
        <5> QED BY <2>1, <3>3, <5>1, <5>2
      <4>2. p[1] = s /\ p[2] = e /\ p \in K \X K /\ e - s > b
        BY <1>1, <2>0, <2>1, <3>3, <3>5
      <4> HIDE DEF p
      <4>3. p \in Wide(K, b)
        BY <4>1, <4>2 DEF Wide
      <4>4. s + b \in Slices(s, e, b)
        <5>1. b % b = 0 /\ (s + b) - s = b /\ s + b \in s..e
          BY <1>1, <2>0, <3>3, <3>5, TurnIs
        <5> QED BY <5>1 DEF Slices
      <4>5. s + b \in U
        BY <1>10, <4>2, <4>3, <4>4
      <4> QED BY <2>0, <4>5
    <3> QED BY <1>1, <2>0, <3>3, <3>4, <3>5
  <2>2. CASE s \notin K
    <3>1. PICK p \in Wide(K, b) : s \in Slices(p[1], p[2], b)
      BY <1>10, <1>13, <2>2
    <3> DEFINE q == p[1]
               e == p[2]
    <3>2. q \in K /\ e \in K /\ q \in Nat /\ e \in Nat /\ s \in q..e /\ (s - q) % b = 0 /\ s # e
      BY <1>11, <2>2, <3>1 DEF Slices
    <3>3. s \in Slices(q, e, b)
      BY <3>1
    <3>4. \A i \in Slices(q, e, b) : i \in U
      BY <1>10
    <3> HIDE DEF q, e
    <3>5. CASE e <= s + b
      BY <1>10, <3>2, <3>5
    <3>6. CASE e > s + b
      <4>1. s - q \in Nat /\ (s + b) - q = (s - q) + b /\ s + b \in q..e
        BY <1>1, <2>0, <3>2, <3>6
      <4>2. ((s - q) + b) % b = 0
        BY <3>2, <4>1, TurnIs
      <4>3. s + b \in Slices(q, e, b)
        BY <4>1, <4>2 DEF Slices
      <4> QED BY <2>0, <3>4, <4>3
    <3> QED BY <1>1, <2>0, <3>2, <3>5, <3>6
  <2> QED BY <2>1, <2>2
<1> QED BY <1>12, <1>13 DEF L, U

\* Cores that follow each other from the start, none wider than b.
EndOfCores(cores) == IF cores = <<>> THEN 0 ELSE Last(cores)[2]

Chain(cores, b) ==
    /\ cores \in Seq(Nat \X Nat)
    /\ \A k \in DOMAIN cores :
          /\ cores[k][1] = IF k = 1 THEN 0 ELSE cores[k - 1][2]
          /\ cores[k][1] < cores[k][2] /\ cores[k][2] - cores[k][1] <= b

LEMMA ChainOn ==
  ASSUME NEW cores, NEW b, b \in Nat, Chain(cores, b), NEW c \in Nat,
         EndOfCores(cores) < c, c <= EndOfCores(cores) + b
  PROVE  /\ EndOfCores(cores) \in Nat
         /\ Chain(Append(cores, <<EndOfCores(cores), c>>), b)
         /\ EndOfCores(Append(cores, <<EndOfCores(cores), c>>)) = c
<1> DEFINE n == Len(cores)
           s == EndOfCores(cores)
           u == <<s, c>>
           R == Append(cores, u)
<1>1. cores \in Seq(Nat \X Nat) /\ n \in Nat /\ DOMAIN cores = 1..n /\ (cores = <<>> <=> n = 0)
  BY DEF Chain
<1>2. s \in Nat /\ (n # 0 => s = cores[n][2]) /\ (n = 0 => s = 0)
  BY <1>1 DEF EndOfCores, Last
<1>3. u \in Nat \X Nat /\ u[1] = s /\ u[2] = c
  BY <1>2
<1> HIDE DEF u, s
<1>4. /\ R \in Seq(Nat \X Nat) /\ Len(R) = n + 1 /\ R[n + 1] = u /\ R # <<>>
      /\ \A k \in 1..n : R[k] = cores[k]
  BY <1>1, <1>3
<1> HIDE DEF R, n
<1>5. EndOfCores(R) = c
  BY <1>3, <1>4 DEF EndOfCores, Last
<1>6. ASSUME NEW k \in DOMAIN R
      PROVE  /\ R[k][1] = IF k = 1 THEN 0 ELSE R[k - 1][2]
             /\ R[k][1] < R[k][2] /\ R[k][2] - R[k][1] <= b
  <2>1. k \in 1..(n + 1)
    BY <1>4
  <2>2. CASE k \in 1..n
    <3>1. R[k] = cores[k] /\ (k # 1 => k - 1 \in 1..n /\ R[k - 1] = cores[k - 1])
      BY <1>1, <1>4, <2>2
    <3> QED BY <1>1, <2>2, <3>1 DEF Chain
  <2>3. CASE k = n + 1
    <3>1. R[k] = u /\ (k # 1 => n \in 1..n /\ k - 1 = n /\ n # 0) /\ (k = 1 => n = 0)
      BY <1>1, <1>4, <2>3
    <3>2. k # 1 => R[k - 1] = cores[n]
      BY <1>4, <3>1
    <3>3. s < c /\ c - s <= b
      BY <1>2 DEF s
    <3> QED BY <1>2, <1>3, <3>1, <3>2, <3>3
  <2> QED BY <1>1, <2>1, <2>2, <2>3
<1> QED BY <1>2, <1>4, <1>5, <1>6 DEF Chain, R, u, s

\* _merge_units leaves nothing out.
LEMMA MergeUnitsIs ==
  ASSUME NEW L, L \in Nat, NEW K, K \in SUBSET (0..L), {0, L} \subseteq K, NEW b, b \in Nat \ {0},
         \A s \in K : s < L => \E c \in K : s < c /\ c <= s + b
  PROVE  Chain(MergeUnits(K, L, b), b) /\ EndOfCores(MergeUnits(K, L, b)) = L
<1> DEFINE V == {v \in Seq(Nat \X Nat) : Chain(v, b) /\ EndOfCores(v) \in K}
           reach(s) == {c \in K : s < c /\ c <= s + b}
           goes(v) == LET s == EndOfCores(v) IN IF s = L THEN v ELSE Append(v, <<s, Max(reach(s))>>)
           st == [n \in 1..L |-> [v \in V |-> goes(v)]]
           b0 == << >>
<1>1. b0 \in V /\ L \in Nat
  <2>1. b0 \in Seq(Nat \X Nat) /\ DOMAIN b0 = {} /\ EndOfCores(b0) = 0
    BY DEF EndOfCores
  <2> QED BY <2>1 DEF Chain
<1>2. ASSUME NEW v \in V
      PROVE  /\ goes(v) \in V
             /\ EndOfCores(v) # L => EndOfCores(goes(v)) \in Nat /\ EndOfCores(goes(v)) >= EndOfCores(v) + 1
  <2> DEFINE s == EndOfCores(v)
             S == reach(s)
  <2>0. v \in Seq(Nat \X Nat) /\ Chain(v, b) /\ s \in K
    OBVIOUS
  <2>1. CASE s = L
    BY <2>1
  <2>2. CASE s # L
    <3>1. s \in Nat /\ s < L
      <4>1. s \in K /\ K \in SUBSET (0..L) /\ L \in Nat
        BY <2>0
      <4> HIDE DEF s
      <4> QED BY <2>2, <4>1
    <3>2. S # {} /\ S \in SUBSET (0..L)
      BY <2>0, <3>1
    <3>3. Max(S) \in S
      <4> HIDE DEF S
      <4> QED BY <3>2, GreatestIs
    <3> DEFINE c == Max(S)
    <3>4. c \in K /\ c \in Nat /\ s < c /\ c <= s + b
      <4>1. c \in S
        BY <3>3
      <4> HIDE DEF c
      <4> QED BY <4>1
    <3>5. goes(v) = Append(v, <<s, c>>)
      BY <2>2
    <3> HIDE DEF goes, c
    <3>6. Chain(goes(v), b) /\ EndOfCores(goes(v)) = c
      BY <2>0, <3>4, <3>5, ChainOn
    <3>7. goes(v) \in Seq(Nat \X Nat)
      BY <3>6 DEF Chain
    <3>8. c >= s + 1
      BY <3>1, <3>4
    <3> QED BY <3>4, <3>6, <3>7, <3>8
  <2> QED BY <2>1, <2>2
<1>3. st \in [1..L -> [V -> V]]
  <2> HIDE DEF goes, V
  <2> QED BY <1>2
<1> HIDE DEF V, goes, st, b0
<1>4. PICK f \in [0..L -> V] : f[0] = b0 /\ \A n \in 1..L : f[n] = st[n][f[n - 1]]
  BY ONLY <1>1, <1>3, Recursion
<1>5. \A n \in 1..L : n - 1 \in 0..L /\ f[n - 1] \in V /\ f[n] = goes(f[n - 1])
  <2>1. \A n \in 1..L : n - 1 \in 0..L
    BY <1>1
  <2> QED BY <1>4, <2>1 DEF st
<1>6. f = [n \in 0..L |-> IF n = 0 THEN b0 ELSE goes(f[n - 1])]
  <2>1. \A n \in 0..L : n = 0 \/ n \in 1..L
    BY <1>1
  <2> QED BY <1>4, <1>5, <2>1
<1> DEFINE g == CHOOSE g : g = [n \in 0..L |-> IF n = 0 THEN b0 ELSE goes(g[n - 1])]
<1>7. g = [n \in 0..L |-> IF n = 0 THEN b0 ELSE goes(g[n - 1])]
  BY <1>6
<1>8. MergeUnits(K, L, b) = g[L]
  BY DEF MergeUnits, goes, b0, EndOfCores
<1> HIDE DEF g
<1>9. \A n \in 0..L : g[n] \in V /\ EndOfCores(g[n]) \in Nat /\ (EndOfCores(g[n]) = L \/ EndOfCores(g[n]) >= n)
  <2> DEFINE T == {n \in 0..L : /\ g[n] \in V /\ EndOfCores(g[n]) \in Nat
                                /\ EndOfCores(g[n]) = L \/ EndOfCores(g[n]) >= n}
  <2>1. 0 \in T
    <3>1. EndOfCores(b0) = 0 /\ 0 \in 0..L /\ g[0] = b0
      BY <1>1, <1>7 DEF EndOfCores, b0
    <3> QED BY <1>1, <3>1
  <2>2. \A n \in 0..(L - 1) : n \in T => n + 1 \in T
    <3>1. SUFFICES ASSUME NEW n \in 0..(L - 1), g[n] \in V, EndOfCores(g[n]) \in Nat,
                          EndOfCores(g[n]) = L \/ EndOfCores(g[n]) >= n
                   PROVE  n + 1 \in T
      OBVIOUS
    <3>2. n + 1 \in 0..L /\ n + 1 # 0 /\ (n + 1) - 1 = n
      BY <1>1
    <3>3. g[n + 1] = goes(g[n])
      BY <1>7, <3>2
    <3>4. CASE EndOfCores(g[n]) = L
      BY <3>1, <3>2, <3>3, <3>4 DEF goes
    <3>5. CASE EndOfCores(g[n]) # L
      <4>1. /\ goes(g[n]) \in V /\ EndOfCores(goes(g[n])) \in Nat
            /\ EndOfCores(goes(g[n])) >= EndOfCores(g[n]) + 1
        BY <1>2, <3>1, <3>5
      <4> QED BY <3>1, <3>2, <3>3, <3>5, <4>1
    <3> QED BY <3>4, <3>5
  <2>3. \A n \in 0..L : n \in T
    <3> HIDE DEF T
    <3> QED BY <1>1, <2>1, <2>2, Along
  <2> QED BY <2>3
<1>10. L \in 0..L /\ \A v \in V : Chain(v, b) /\ EndOfCores(v) \in 0..L
  BY <1>1 DEF V
<1>11. g[L] \in V /\ Chain(g[L], b) /\ EndOfCores(g[L]) \in 0..L /\ (EndOfCores(g[L]) = L \/ EndOfCores(g[L]) >= L)
  BY <1>9, <1>10
<1> QED BY <1>8, <1>11

\* The cores of a text are all of it and leave room for the overlap.
LEMMA CoresAre ==
  ASSUME NEW t, t \in Seq(Characters), t # <<>>, NEW size, size \in Nat, NEW overlap, overlap \in 1..(size - 1)
  PROVE  /\ Chain(Cores(t, size, overlap), size) /\ EndOfCores(Cores(t, size, overlap)) = Len(t)
         /\ \A k \in DOMAIN Cores(t, size, overlap) :
               LET core == Cores(t, size, overlap)[k]
               IN  core[1] # 0 => core[2] - core[1] + overlap <= size
<1> DEFINE L == Len(t)
           b == size - overlap
<1>1. L \in Nat /\ L > 0 /\ b \in Nat \ {0} /\ b \in Nat /\ b <= size
  OBVIOUS
<1>2. CASE L <= size
  <2> DEFINE u == <<0, L>>
             c == << >>
  <2>1. Cores(t, size, overlap) = <<u>> /\ <<u>> = Append(c, u)
    BY <1>2 DEF Cores
  <2>2. Chain(c, size) /\ EndOfCores(c) = 0 /\ size \in Nat
    BY DEF Chain, EndOfCores
  <2>3. u = <<EndOfCores(c), L>>
    BY <2>2
  <2> HIDE DEF c, L
  <2>4. Chain(Append(c, u), size) /\ EndOfCores(Append(c, u)) = L
    <3> HIDE DEF u
    <3> QED BY <1>1, <1>2, <2>2, <2>3, ChainOn
  <2>5. \A k \in DOMAIN <<u>> : <<u>>[k][1] = 0
    BY <1>1
  <2> QED BY <2>1, <2>4, <2>5 DEF L
<1>3. CASE ~(L <= size)
  <2> DEFINE K == SplitUnits(t, b)
             R == MergeUnits(K, L, b)
  <2>1. Cores(t, size, overlap) = R
    BY <1>3 DEF Cores
  <2> HIDE DEF b
  <2>2. K \subseteq 0..L /\ {0, L} \subseteq K /\ \A s \in K : s < L => \E c \in K : s < c /\ c <= s + b
    BY <1>1, SplitUnitsIs
  <2> HIDE DEF K, L, R
  <2>3. Chain(R, b) /\ EndOfCores(R) = L
    BY <1>1, <2>2, MergeUnitsIs DEF R
  <2>4. ASSUME NEW k \in DOMAIN R
        PROVE  R[k][2] - R[k][1] <= size /\ R[k][2] - R[k][1] + overlap <= size
    <3>1. R[k] \in Nat \X Nat /\ R[k][2] - R[k][1] <= b
      BY <2>3 DEF Chain
    <3>2. R[k][1] \in Nat /\ R[k][2] \in Nat
      BY <3>1
    <3> QED BY <3>1, <3>2 DEF b
  <2>5. Chain(R, size)
    BY <2>3, <2>4 DEF Chain
  <2> QED BY <2>1, <2>3, <2>4, <2>5 DEF L
<1> QED BY <1>2, <1>3

LEMMA AddCoreType ==
  ASSUME NEW t, NEW overlap, overlap \in Nat, NEW spans, spans \in Seq(Nat \X Nat), NEW core, core \in Nat \X Nat
  PROVE  AddCore(t, overlap, spans, core) \in Seq(Nat \X Nat)
<1> DEFINE back == IF core[1] = 0 THEN 0 ELSE Most(core[1], overlap) - overlap
           s == IF spans = <<>> THEN back ELSE Most(back, Last(spans)[1] + 1)
<1>1. back \in Nat /\ core[2] \in Nat
  BY DEF Most
<1>2. s \in Nat
  <2>1. CASE spans = <<>>
    BY <1>1, <2>1
  <2>2. CASE spans # <<>>
    <3>1. Last(spans) \in Nat \X Nat
      BY <2>2 DEF Last
    <3>2. Last(spans)[1] \in Nat
      BY <3>1
    <3> HIDE DEF back
    <3> QED BY <1>1, <2>2, <3>2 DEF Most
  <2> QED BY <2>1, <2>2
<1>3. AddCore(t, overlap, spans, core) =
        IF Inked(t, s, core[2]) = {} THEN spans
        ELSE IF spans # <<>> /\ Trim(t, s, core[2])[2] <= Last(spans)[2] THEN spans
        ELSE Append(spans, Trim(t, s, core[2]))
  BY DEF AddCore
<1> HIDE DEF s
<1>4. Inked(t, s, core[2]) # {} => Trim(t, s, core[2]) \in Nat \X Nat
  <2>1. SUFFICES ASSUME Inked(t, s, core[2]) # {} PROVE Trim(t, s, core[2]) \in Nat \X Nat
    OBVIOUS
  <2>2. PICK a, b \in Nat : Trim(t, s, core[2]) = <<a, b>>
    BY <1>1, <1>2, <2>1, TrimIs
  <2> QED BY <2>2
<1> QED BY <1>3, <1>4

\* What _split_segment makes of a text.
LEMMA SplitSegmentIs ==
  ASSUME NEW t, t \in Seq(Characters), NEW size, size \in Nat, NEW overlap, overlap \in 1..(size - 1)
  PROVE  Cut(t, size, SplitSegment(t, size, overlap), Len(t))
<1>1. CASE t = <<>>
  <2>1. SplitSegment(t, size, overlap) = <<>>
    BY <1>1 DEF SplitSegment
  <2>2. Inked(t, 0, Len(t)) = {}
    BY <1>1 DEF Inked
  <2> QED BY <2>1, <2>2 DEF Cut
<1>2. CASE t # <<>>
  <2> DEFINE cores == Cores(t, size, overlap)
             N == Len(cores)
             V == Seq(Nat \X Nat)
             b0 == << >>
             st == [n \in 1..N |-> [v \in V |-> AddCore(t, overlap, v, cores[n])]]
  <2>1. /\ Chain(cores, size) /\ EndOfCores(cores) = Len(t)
        /\ \A k \in DOMAIN cores : cores[k][1] # 0 => cores[k][2] - cores[k][1] + overlap <= size
    BY <1>2, CoresAre
  <2> HIDE DEF cores
  <2>2. cores \in Seq(Nat \X Nat) /\ N \in Nat /\ DOMAIN cores = 1..N /\ b0 \in V /\ overlap \in Nat
    BY <2>1 DEF Chain
  <2>3. \A n \in 1..N : /\ cores[n] \in Nat \X Nat /\ cores[n] = <<cores[n][1], cores[n][2]>>
                        /\ cores[n][1] \in Nat /\ cores[n][2] \in Nat
    BY <2>2
  <2>4. st \in [1..N -> [V -> V]]
    BY <2>2, <2>3, AddCoreType
  <2> HIDE DEF N, V, b0, st
  <2>5. PICK f \in [0..N -> V] : f[0] = b0 /\ \A n \in 1..N : f[n] = st[n][f[n - 1]]
    <3>1. b0 \in V /\ N \in Nat /\ st \in [1..N -> [V -> V]]
      BY <2>2, <2>4
    <3> QED BY ONLY <3>1, Recursion
  <2>6. \A n \in 1..N : n - 1 \in 0..N /\ f[n - 1] \in V /\ f[n] = AddCore(t, overlap, f[n - 1], cores[n])
    <3>1. \A n \in 1..N : n - 1 \in 0..N
      BY <2>2
    <3> QED BY <2>5, <3>1 DEF st
  <2>7. f = [n \in 0..N |-> IF n = 0 THEN b0 ELSE AddCore(t, overlap, f[n - 1], cores[n])]
    <3>1. \A n \in 0..N : n = 0 \/ n \in 1..N
      BY <2>2
    <3> QED BY <2>5, <2>6, <3>1
  <2> DEFINE g == CHOOSE g : g = [n \in 0..N |-> IF n = 0 THEN b0 ELSE AddCore(t, overlap, g[n - 1], cores[n])]
  <2>8. g = [n \in 0..N |-> IF n = 0 THEN b0 ELSE AddCore(t, overlap, g[n - 1], cores[n])]
    BY <2>7
  <2>9. SplitSegment(t, size, overlap) = g[N]
    BY <1>2 DEF SplitSegment, N, cores, b0
  <2> HIDE DEF g
  <2> DEFINE end(n) == IF n = 0 THEN 0 ELSE cores[n][2]
             T == {n \in 0..N : Cut(t, size, g[n], end(n))}
  <2>10. 0 \in T
    <3>1. Inked(t, 0, 0) = {} /\ g[0] = << >>
      BY <2>2, <2>8 DEF Inked, b0
    <3>2. Cut(t, size, << >>, 0)
      BY <3>1 DEF Cut
    <3> QED BY <2>2, <3>1, <3>2
  <2>11. \A n \in 0..(N - 1) : n \in T => n + 1 \in T
    <3>1. SUFFICES ASSUME NEW n \in 0..(N - 1), Cut(t, size, g[n], end(n)) PROVE Cut(t, size, g[n + 1], end(n + 1))
      <4>1. \A n \in 0..(N - 1) : n + 1 \in 0..N
        BY <2>2
      <4> HIDE DEF end
      <4> QED BY <4>1
    <3>2. n + 1 \in 0..N /\ n + 1 \in 1..N /\ n + 1 # 0 /\ (n + 1) - 1 = n /\ (n # 0 => n \in 1..N)
          /\ (n + 1 = 1 <=> n = 0)
      BY <2>2
    <3> DEFINE c == cores[n + 1][1]
               e == cores[n + 1][2]
    <3>3. c \in Nat /\ e \in Nat /\ cores[n + 1] = <<c, e>> /\ end(n + 1) = e
      BY <2>3, <3>2
    <3>4. g[n + 1] = AddCore(t, overlap, g[n], <<c, e>>)
      BY <2>8, <3>2, <3>3
    <3>5. c = end(n) /\ c < e /\ e - c <= size /\ (c # 0 => e - c + overlap <= size)
      <4>1. /\ cores[n + 1][1] = IF n + 1 = 1 THEN 0 ELSE cores[(n + 1) - 1][2]
            /\ cores[n + 1][1] < cores[n + 1][2] /\ cores[n + 1][2] - cores[n + 1][1] <= size
            /\ cores[n + 1][1] # 0 => cores[n + 1][2] - cores[n + 1][1] + overlap <= size
        BY <2>1, <2>2, <3>2 DEF Chain
      <4> QED BY <3>2, <4>1
    <3> HIDE DEF c, e, end
    <3>6. Cut(t, size, g[n], c) /\ (c = 0 => e <= size)
      BY <3>1, <3>3, <3>5
    <3>7. Cut(t, size, AddCore(t, overlap, g[n], <<c, e>>), e)
      BY <2>2, <3>3, <3>5, <3>6, AddCoreIs
    <3> QED BY <3>3, <3>4, <3>7
  <2>12. \A n \in 0..N : n \in T
    <3> HIDE DEF T
    <3> QED BY <2>2, <2>10, <2>11, Along
  <2>13. Cut(t, size, g[N], end(N))
    BY <2>2, <2>12
  <2>14. end(N) = Len(t)
    <3>1. N # 0 /\ cores # <<>> /\ Last(cores) = cores[N]
      BY <1>2, <2>1, <2>2 DEF EndOfCores, Last, N
    <3> QED BY <2>1, <3>1 DEF EndOfCores
  <2> HIDE DEF end
  <2> QED BY <2>9, <2>13, <2>14
<1> QED BY <1>1, <1>2

ElementIn(x, s) == \E k \in DOMAIN s : s[k] = x

LEMMA ElementInConcat ==
  ASSUME NEW S, NEW s, s \in Seq(S), NEW c, c \in Seq(S)
  PROVE  s \o c \in Seq(S) /\ \A x : ElementIn(x, s \o c) <=> ElementIn(x, s) \/ ElementIn(x, c)
<1>1. /\ s \o c \in Seq(S) /\ DOMAIN s = 1..Len(s) /\ DOMAIN c = 1..Len(c) /\ DOMAIN (s \o c) = 1..(Len(s) + Len(c))
      /\ Len(s) \in Nat /\ Len(c) \in Nat
      /\ \A i \in 1..(Len(s) + Len(c)) : (s \o c)[i] = IF i <= Len(s) THEN s[i] ELSE c[i - Len(s)]
  <2>1. s \o c \in Seq(S) /\ Len(s \o c) = Len(s) + Len(c)
    BY ConcatProperties
  <2>2. \A i \in 1..(Len(s) + Len(c)) : (s \o c)[i] = IF i <= Len(s) THEN s[i] ELSE c[i - Len(s)]
    BY ConcatProperties
  <2> QED BY <2>1, <2>2
<1>2. ASSUME NEW x, ElementIn(x, s \o c) PROVE ElementIn(x, s) \/ ElementIn(x, c)
  <2>1. PICK i \in 1..(Len(s) + Len(c)) : (s \o c)[i] = x
    BY <1>1, <1>2 DEF ElementIn
  <2>2. CASE i <= Len(s)
    BY <1>1, <2>1, <2>2 DEF ElementIn
  <2>3. CASE ~(i <= Len(s))
    <3>1. i - Len(s) \in 1..Len(c)
      BY <1>1, <2>3
    <3> QED BY <1>1, <2>1, <2>3, <3>1 DEF ElementIn
  <2> QED BY <2>2, <2>3
<1>3. ASSUME NEW x, ElementIn(x, s) PROVE ElementIn(x, s \o c)
  <2>1. PICK i \in 1..Len(s) : s[i] = x
    BY <1>1, <1>3 DEF ElementIn
  <2>2. i \in 1..(Len(s) + Len(c)) /\ i <= Len(s)
    BY <1>1
  <2> QED BY <1>1, <2>1, <2>2 DEF ElementIn
<1>4. ASSUME NEW x, ElementIn(x, c) PROVE ElementIn(x, s \o c)
  <2>1. PICK i \in 1..Len(c) : c[i] = x
    BY <1>1, <1>4 DEF ElementIn
  <2>2. Len(s) + i \in 1..(Len(s) + Len(c)) /\ ~(Len(s) + i <= Len(s)) /\ (Len(s) + i) - Len(s) = i
    BY <1>1
  <2> QED BY <1>1, <2>1, <2>2 DEF ElementIn
<1> QED BY <1>1, <1>2, <1>3, <1>4

\* One sequence after the other has the elements of all.
LEMMA FlattenIs ==
  ASSUME NEW S, NEW q, q \in Seq(Seq(S))
  PROVE  /\ FlattenSeq(q) \in Seq(S)
         /\ \A x : ElementIn(x, FlattenSeq(q)) <=> \E i \in DOMAIN q : ElementIn(x, q[i])
<1>1. CASE Len(q) = 0
  <2>1. q = <<>> /\ FlattenSeq(q) = q
    BY <1>1 DEF FlattenSeq
  <2>2. q \in Seq(S) /\ DOMAIN q = {}
    BY <2>1
  <2> QED BY <2>1, <2>2 DEF ElementIn
<1>2. CASE Len(q) # 0
  <2> DEFINE L == Len(q)
             N == L - 1
             V == Seq(S)
             b0 == q[1]
             st == [n \in 1..N |-> [v \in V |-> v \o q[n + 1]]]
  <2>1. L \in Nat /\ N \in Nat /\ L = N + 1 /\ DOMAIN q = 1..L /\ \A i \in 1..L : q[i] \in V
    BY <1>2
  <2> HIDE DEF L
  <2>2. b0 \in V
    BY <2>1
  <2>3. \A n \in 1..N : n + 1 \in 1..L /\ q[n + 1] \in V
    BY <2>1
  <2>4. st \in [1..N -> [V -> V]]
    BY <2>3, ElementInConcat
  <2> HIDE DEF N, V, b0, st
  <2>5. PICK f \in [0..N -> V] : f[0] = b0 /\ \A n \in 1..N : f[n] = st[n][f[n - 1]]
    <3>1. b0 \in V /\ N \in Nat /\ st \in [1..N -> [V -> V]]
      BY <2>1, <2>2, <2>4
    <3> QED BY ONLY <3>1, Recursion
  <2>6. \A n \in 1..N : n - 1 \in 0..N /\ f[n - 1] \in V /\ f[n] = f[n - 1] \o q[n + 1]
    <3>1. \A n \in 1..N : n - 1 \in 0..N
      BY <2>1
    <3> QED BY <2>5, <3>1 DEF st
  <2> DEFINE h == [i \in 1..L |-> f[i - 1]]
  <2>7. h = [i \in 1..L |-> IF i = 1 THEN q[i] ELSE h[i - 1] \o q[i]]
    <3>1. SUFFICES ASSUME NEW i \in 1..L PROVE f[i - 1] = IF i = 1 THEN q[i] ELSE h[i - 1] \o q[i]
      OBVIOUS
    <3>2. CASE i = 1
      BY <2>5, <3>2 DEF b0
    <3>3. CASE i # 1
      <4>1. i - 1 \in 1..N /\ (i - 1) + 1 = i /\ i - 1 \in 1..L
        BY <2>1, <3>3
      <4>2. f[i - 1] = f[(i - 1) - 1] \o q[i] /\ h[i - 1] = f[(i - 1) - 1]
        BY <2>6, <4>1
      <4> QED BY <3>3, <4>2
    <3> QED BY <3>2, <3>3
  <2> DEFINE g == CHOOSE g : g = [i \in 1..L |-> IF i = 1 THEN q[i] ELSE g[i - 1] \o q[i]]
  <2>8. g = [i \in 1..L |-> IF i = 1 THEN q[i] ELSE g[i - 1] \o q[i]]
    <3> HIDE DEF h
    <3> QED BY <2>7
  <2>9. FlattenSeq(q) = g[L]
    BY <1>2 DEF FlattenSeq, L
  <2> HIDE DEF g
  <2> DEFINE Q(n) == g[n + 1] \in V /\ \A x : ElementIn(x, g[n + 1]) <=> \E i \in 1..(n + 1) : ElementIn(x, q[i])
             T == {n \in 0..N : Q(n)}
  <2>10. 0 \in T
    <3>1. 1 \in 1..L /\ g[1] = q[1] /\ 0 + 1 = 1 /\ 0 \in 0..N /\ \A i \in 1..1 : i = 1
      BY <2>1, <2>8
    <3>2. 1 \in 1..1 /\ g[1] \in V
      BY <2>1, <3>1
    <3> QED BY <3>1, <3>2
  <2>11. \A n \in 0..(N - 1) : n \in T => n + 1 \in T
    <3>1. SUFFICES ASSUME NEW n \in 0..(N - 1), Q(n) PROVE Q(n + 1)
      <4>1. \A n \in 0..(N - 1) : n + 1 \in 0..N
        BY <2>1
      <4> HIDE DEF Q
      <4> QED BY <4>1
    <3> DEFINE m == n + 1
    <3>2. m \in Nat /\ m + 1 \in 1..L /\ m + 1 # 1 /\ (m + 1) - 1 = m /\ \A i \in 1..(m + 1) : i \in 1..m \/ i = m + 1
      BY <2>1
    <3>3. m + 1 \in 1..(m + 1) /\ \A i \in 1..m : i \in 1..(m + 1)
      BY <3>2
    <3>4. g[m] \in V /\ \A x : ElementIn(x, g[m]) <=> \E i \in 1..m : ElementIn(x, q[i])
      BY <3>1
    <3> HIDE DEF m
    <3>5. g[m + 1] = g[m] \o q[m + 1] /\ q[m + 1] \in V
      BY <2>1, <2>8, <3>2
    <3>6. g[m + 1] \in V /\ \A x : ElementIn(x, g[m + 1]) <=> ElementIn(x, g[m]) \/ ElementIn(x, q[m + 1])
      BY <3>4, <3>5, ElementInConcat DEF V
    <3>7. g[m + 1] \in V /\ \A x : ElementIn(x, g[m + 1]) <=> \E i \in 1..(m + 1) : ElementIn(x, q[i])
      BY <3>2, <3>3, <3>4, <3>6
    <3> QED BY <3>7 DEF m
  <2>12. \A n \in 0..N : n \in T
    <3> HIDE DEF T
    <3> QED BY <2>1, <2>10, <2>11, Along
  <2>13. Q(N)
    <3> HIDE DEF Q
    <3>1. N \in 0..N
      BY <2>1
    <3> QED BY <2>12, <3>1
  <2> QED BY <2>1, <2>9, <2>13 DEF V
<1> QED BY <1>1, <1>2

\* What stands for text[s:e] after the guard: all that is not blank, in pieces that fit or are
\* as small as can be.
Kept(t, spans, s, e) ==
    /\ spans \in Seq(Nat \X Nat)
    /\ \A i \in Inked(t, s, e) : \E k \in DOMAIN spans : spans[k][1] <= i /\ i < spans[k][2]
    /\ \A k \in DOMAIN spans :
          /\ spans[k][1] < spans[k][2] /\ {spans[k][1], spans[k][2] - 1} \subseteq Inked(t, s, e)
          /\ Fits(t, spans[k]) \/ spans[k][2] - spans[k][1] <= MinSize

\* The pieces of a span lie in the text where the span lies.
LEMMA ResplitIs ==
  ASSUME NEW t, t \in Seq(Characters), NEW s, s \in Nat, NEW e, e \in Nat, s < e, e <= Len(t),
         NEW size, size \in Nat, NEW overlap, overlap \in 1..(size - 1)
  PROVE  LET spans == Resplit(t, <<s, e>>, size, overlap)
         IN  /\ spans \in Seq(Nat \X Nat)
             /\ \A i \in Inked(t, s, e) : \E k \in DOMAIN spans : spans[k][1] <= i /\ i < spans[k][2]
             /\ \A k \in DOMAIN spans :
                   /\ spans[k][1] < spans[k][2] /\ {spans[k][1], spans[k][2] - 1} \subseteq Inked(t, s, e)
                   /\ spans[k][2] - spans[k][1] <= size
<1> DEFINE u == Part(t, <<s, e>>)
           P == SplitSegment(u, size, overlap)
           R == Resplit(t, <<s, e>>, size, overlap)
<1>1. u \in Seq(Characters) /\ Len(u) = e - s /\ e - s \in Nat /\ \A i \in 1..(e - s) : u[i] = t[s + i]
  <2>1. u = SubSeq(t, s + 1, e)
    BY DEF Part
  <2>2. s + 1 \in Int /\ e \in Int /\ s + 1 <= e /\ \A i \in (s + 1)..e : t[i] \in Characters
    OBVIOUS
  <2>3. u \in Seq(Characters) /\ Len(u) = e - s /\ \A i \in 1..(e - s) : u[i] = t[s + i]
    <3> DEFINE m == s + 1
    <3>1. m \in Int /\ e \in Int /\ m <= e /\ \A i \in m..e : t[i] \in Characters
      BY <2>2
    <3> HIDE DEF m
    <3>2. /\ SubSeq(t, m, e) \in Seq(Characters) /\ Len(SubSeq(t, m, e)) = e - m + 1
          /\ \A i \in 1..(e - m + 1) : SubSeq(t, m, e)[i] = t[m + i - 1]
      BY ONLY <3>1, SubSeqProperties
    <3>3. e - m + 1 = e - s /\ m = s + 1 /\ \A i \in 1..(e - s) : (s + 1) + i - 1 = s + i
      BY DEF m
    <3>4. u \in Seq(Characters) /\ Len(u) = e - s
      BY <2>1, <3>2, <3>3
    <3>5. \A i \in 1..(e - s) : u[i] = t[(s + 1) + i - 1]
      BY <2>1, <3>2, <3>3
    <3> QED BY <3>3, <3>4, <3>5
  <2>4. e - s \in Nat
    OBVIOUS
  <2> QED BY <2>3, <2>4
<1> HIDE DEF u
<1>2. Cut(u, size, P, Len(u))
  BY <1>1, SplitSegmentIs
<1>3. /\ \A i \in Inked(u, 0, Len(u)) : s + i \in Inked(t, s, e)
      /\ \A i \in Inked(t, s, e) : i - s \in Inked(u, 0, Len(u)) /\ i - s \in Nat /\ i \in Nat
  <2>1. ASSUME NEW i \in Inked(u, 0, Len(u)) PROVE s + i \in Inked(t, s, e)
    <3>1. i \in 0..(e - s - 1) /\ u[i + 1] \notin White /\ i + 1 \in 1..(e - s)
      BY <1>1 DEF Inked
    <3>2. u[i + 1] = t[s + (i + 1)] /\ s + (i + 1) = (s + i) + 1 /\ s + i \in s..(e - 1)
      BY <1>1, <3>1
    <3> QED BY <3>1, <3>2 DEF Inked
  <2>2. ASSUME NEW i \in Inked(t, s, e)
        PROVE  i - s \in Inked(u, 0, Len(u)) /\ i - s \in Nat /\ i \in Nat
    <3>1. i \in s..(e - 1) /\ t[i + 1] \notin White /\ (i - s) + 1 \in 1..(e - s) /\ s + ((i - s) + 1) = i + 1
      BY <1>1 DEF Inked
    <3>2. u[(i - s) + 1] = t[i + 1] /\ i - s \in 0..(Len(u) - 1)
      BY <1>1, <3>1
    <3> QED BY <3>1, <3>2 DEF Inked
  <2> QED BY <2>1, <2>2
<1> HIDE DEF P
<1>4. P \in Seq(Nat \X Nat) /\ \A k \in DOMAIN P : P[k][1] \in Nat /\ P[k][2] \in Nat
  BY <1>2 DEF Cut
<1>5. R = [k \in DOMAIN P |-> <<s + P[k][1], s + P[k][2]>>]
  BY DEF Resplit, P, u
<1> HIDE DEF R
<1>6. R \in Seq(Nat \X Nat) /\ DOMAIN R = DOMAIN P
      /\ \A k \in DOMAIN P : R[k][1] = s + P[k][1] /\ R[k][2] = s + P[k][2]
  <2>1. \A k \in DOMAIN P : <<s + P[k][1], s + P[k][2]>> \in Nat \X Nat
    BY <1>4
  <2>2. Len(P) \in Nat /\ DOMAIN P = 1..Len(P)
    BY <1>4
  <2> QED BY <1>5, <2>1, <2>2
<1>7. ASSUME NEW i \in Inked(t, s, e) PROVE \E k \in DOMAIN R : R[k][1] <= i /\ i < R[k][2]
  <2>1. PICK k \in DOMAIN P : P[k][1] <= i - s /\ i - s < P[k][2]
    BY <1>2, <1>3 DEF Cut
  <2>2. P[k][1] \in Nat /\ P[k][2] \in Nat /\ i \in Nat
    BY <1>3, <1>4
  <2>3. s + P[k][1] <= i /\ i < s + P[k][2]
    BY <2>1, <2>2
  <2> QED BY <1>6, <2>3
<1>8. ASSUME NEW k \in DOMAIN R
      PROVE  /\ R[k][1] < R[k][2] /\ {R[k][1], R[k][2] - 1} \subseteq Inked(t, s, e)
             /\ R[k][2] - R[k][1] <= size
  <2>1. /\ P[k][1] < P[k][2] /\ P[k][2] - P[k][1] <= size
        /\ P[k][1] \in Inked(u, 0, Len(u)) /\ P[k][2] - 1 \in Inked(u, 0, Len(u))
        /\ P[k][1] \in Nat /\ P[k][2] \in Nat
    BY <1>2, <1>4, <1>6 DEF Cut
  <2>2. s + P[k][1] \in Inked(t, s, e) /\ s + (P[k][2] - 1) \in Inked(t, s, e)
    BY <1>3, <2>1
  <2>3. /\ s + (P[k][2] - 1) = (s + P[k][2]) - 1 /\ s + P[k][1] < s + P[k][2]
        /\ (s + P[k][2]) - (s + P[k][1]) <= size
    <3> DEFINE a == P[k][1]
               b == P[k][2]
    <3>1. a \in Nat /\ b \in Nat /\ a < b /\ b - a <= size
      BY <2>1
    <3> HIDE DEF a, b
    <3>2. s + (b - 1) = (s + b) - 1 /\ s + a < s + b /\ (s + b) - (s + a) <= size
      BY <3>1
    <3> QED BY <3>2 DEF a, b
  <2> QED BY <1>6, <2>2, <2>3
<1> QED BY <1>6, <1>7, <1>8 DEF R

\* The guard stops at a size whose pieces all fit, or at the least.
LEMMA ShrinkIs ==
  ASSUME NEW t, t \in Seq(Characters), NEW s, s \in Nat, NEW e, e \in Nat, s < e, e <= Len(t),
         NEW size, size \in Nat, NEW overlap, overlap \in Nat, e - s <= size, {s, e - 1} \subseteq Inked(t, s, e)
  PROVE  Kept(t, Shrink(t, <<s, e>>, size, overlap), s, e)
<1> DEFINE u == <<s, e>>
<1>0. u \in Nat \X Nat /\ u[1] = s /\ u[2] = e /\ MinSize \in Nat /\ MinSize >= 2
  BY ChunkingAssumption
<1>1. CASE size <= MinSize
  <2>1. Shrink(t, u, size, overlap) = <<u>>
    BY <1>1 DEF Shrink
  <2> HIDE DEF u
  <2>2. <<u>> \in Seq(Nat \X Nat) /\ DOMAIN <<u>> = {1} /\ <<u>>[1] = u
    BY <1>0
  <2>3. e - s <= MinSize /\ \A i \in Inked(t, s, e) : s <= i /\ i < e
    BY <1>0, <1>1 DEF Inked
  <2>4. Kept(t, <<u>>, s, e)
    BY <1>0, <2>2, <2>3 DEF Kept
  <2> QED BY <2>1, <2>4 DEF u
<1>2. CASE ~(size <= MinSize)
  <2> DEFINE V == MinSize..size
             b0 == size
             goes(v) == Most(MinSize, v \div 2)
             st == [n \in 1..size |-> [v \in V |-> goes(v)]]
             N == size
  <2>1. b0 \in V /\ N \in Nat
    BY <1>0, <1>2
  <2>2. \A v \in V : goes(v) \in V
    BY <1>0, <1>2 DEF Most
  <2>3. st \in [1..N -> [V -> V]]
    BY <2>2
  <2> HIDE DEF V, b0, goes, st, N
  <2>4. PICK f \in [0..N -> V] : f[0] = b0 /\ \A n \in 1..N : f[n] = st[n][f[n - 1]]
    <3>1. b0 \in V /\ N \in Nat /\ st \in [1..N -> [V -> V]]
      BY <2>1, <2>3
    <3> QED BY ONLY <3>1, Recursion
  <2>5. \A n \in 1..N : n - 1 \in 0..N /\ f[n - 1] \in V /\ f[n] = goes(f[n - 1])
    <3>1. \A n \in 1..N : n - 1 \in 0..N
      BY <2>1
    <3> QED BY <2>4, <3>1 DEF st, N
  <2>6. f = [n \in 0..N |-> IF n = 0 THEN b0 ELSE goes(f[n - 1])]
    <3>1. \A n \in 0..N : n = 0 \/ n \in 1..N
      BY <2>1
    <3> QED BY <2>4, <2>5, <3>1
  <2> DEFINE g == CHOOSE g : g = [n \in 0..N |-> IF n = 0 THEN b0 ELSE goes(g[n - 1])]
  <2>7. g = [n \in 0..N |-> IF n = 0 THEN b0 ELSE goes(g[n - 1])]
    BY <2>6
  <2> HIDE DEF g
  <2> DEFINE Pieces(h) == Resplit(t, u, h, ClampOverlap(h, overlap))
             fitting == {h \in {g[n] : n \in 1..N} : \A k \in DOMAIN Pieces(h) : Fits(t, Pieces(h)[k])}
             best == Max(fitting \cup {MinSize})
  <2>8. Shrink(t, u, size, overlap) = Pieces(best)
    <3> HIDE DEF u
    <3> QED BY <1>2 DEF Shrink, g, N, b0, goes
  <2>9. \A n \in 0..N : g[n] \in V
    <3> DEFINE T == {n \in 0..N : g[n] \in V}
    <3>1. 0 \in T
      BY <2>1, <2>7
    <3>2. \A n \in 0..(N - 1) : n \in T => n + 1 \in T
      <4>1. SUFFICES ASSUME NEW n \in 0..(N - 1), g[n] \in V PROVE n + 1 \in T
        OBVIOUS
      <4>2. n + 1 \in 0..N /\ n + 1 # 0 /\ (n + 1) - 1 = n
        BY <2>1
      <4>3. g[n + 1] = goes(g[n])
        BY <2>7, <4>2
      <4> QED BY <2>2, <4>1, <4>2, <4>3
    <3>3. \A n \in 0..N : n \in T
      <4> HIDE DEF T
      <4> QED BY <2>1, <3>1, <3>2, Along
    <3> QED BY <3>3
  <2> DEFINE tried == fitting \cup {MinSize}
  <2>10. tried \in SUBSET (0..size) /\ \A h \in tried : h \in Nat /\ h >= MinSize
    <3>1. \A n \in 1..N : g[n] \in V /\ n \in 0..N
      <4>1. \A n \in 1..N : n \in 0..N
        BY <2>1
      <4> QED BY <2>9, <4>1
    <3>2. \A h \in V : h \in 0..size /\ h \in Nat /\ h >= MinSize
      BY <1>0 DEF V
    <3>3. MinSize \in 0..size
      BY <1>0, <1>2
    <3> QED BY <1>0, <3>1, <3>2, <3>3
  <2>11. tried # {} /\ \A h \in tried : h = MinSize \/ \A k \in DOMAIN Pieces(h) : Fits(t, Pieces(h)[k])
    OBVIOUS
  <2>12. best \in tried
    <3> HIDE DEF tried
    <3>1. Max(tried) \in tried
      BY <2>10, <2>11, GreatestIs
    <3> QED BY <3>1 DEF tried
  <2>13. /\ best \in Nat /\ best >= MinSize
         /\ best = MinSize \/ \A k \in DOMAIN Pieces(best) : Fits(t, Pieces(best)[k])
    <3> HIDE DEF tried, best, Pieces
    <3> QED BY <2>10, <2>11, <2>12
  <2> HIDE DEF best, fitting
  <2>14. ClampOverlap(best, overlap) \in 1..(best - 1)
    BY <1>0, <2>13 DEF ClampOverlap, Most, Least
  <2> DEFINE R == Pieces(best)
  <2>15. /\ R \in Seq(Nat \X Nat)
         /\ \A i \in Inked(t, s, e) : \E k \in DOMAIN R : R[k][1] <= i /\ i < R[k][2]
         /\ \A k \in DOMAIN R :
               /\ R[k][1] < R[k][2] /\ {R[k][1], R[k][2] - 1} \subseteq Inked(t, s, e)
               /\ R[k][2] - R[k][1] <= best
    BY <2>13, <2>14, ResplitIs
  <2> HIDE DEF Pieces
  <2>16. Kept(t, R, s, e)
    BY <2>13, <2>15 DEF Kept
  <2> QED BY <2>8, <2>16
<1> QED BY <1>1, <1>2

\* Nothing is lost between the pieces of one chunk and of the next.
LEMMA GuardedIs ==
  ASSUME NEW t, t \in Seq(Characters), NEW size, size \in Nat, NEW overlap, overlap \in Nat,
         NEW spans, Cut(t, size, spans, Len(t))
  PROVE  Kept(t, Guarded(t, spans, size, overlap), 0, Len(t))
<1> DEFINE L == Len(t)
           q == [k \in DOMAIN spans |->
                    IF Fits(t, spans[k]) THEN <<spans[k]>> ELSE Shrink(t, spans[k], size, overlap)]
           R == Guarded(t, spans, size, overlap)
<1>1. spans \in Seq(Nat \X Nat) /\ DOMAIN spans = 1..Len(spans) /\ Len(spans) \in Nat /\ L \in Nat
  BY DEF Cut
<1>2. ASSUME NEW k \in DOMAIN spans
      PROVE  /\ spans[k][1] \in Nat /\ spans[k][2] \in Nat /\ spans[k] = <<spans[k][1], spans[k][2]>>
             /\ spans[k][1] < spans[k][2] /\ spans[k][2] <= L /\ spans[k][2] - spans[k][1] <= size
             /\ Inked(t, spans[k][1], spans[k][2]) \subseteq Inked(t, 0, L)
             /\ {spans[k][1], spans[k][2] - 1} \subseteq Inked(t, spans[k][1], spans[k][2])
  <2>1. spans[k] \in Nat \X Nat
    BY <1>1
  <2>2. /\ spans[k][1] \in Nat /\ spans[k][2] \in Nat /\ spans[k] = <<spans[k][1], spans[k][2]>>
        /\ spans[k][1] < spans[k][2] /\ spans[k][2] <= L /\ spans[k][2] - spans[k][1] <= size
        /\ spans[k][1] \in Inked(t, 0, L) /\ spans[k][2] - 1 \in Inked(t, 0, L)
    BY <2>1 DEF Cut
  <2> DEFINE a == spans[k][1]
             b == spans[k][2]
  <2>3. a \in Nat /\ b \in Nat /\ a < b /\ b <= L /\ a \in Inked(t, 0, L) /\ b - 1 \in Inked(t, 0, L)
    BY <2>2
  <2> HIDE DEF a, b, L
  <2>4. Inked(t, a, b) \subseteq Inked(t, 0, L) /\ a \in Inked(t, a, b) /\ b - 1 \in Inked(t, a, b)
    BY <1>1, <2>3 DEF Inked
  <2> QED BY <2>2, <2>4 DEF a, b
<1> HIDE DEF L
<1>3. ASSUME NEW k \in DOMAIN spans PROVE Kept(t, q[k], spans[k][1], spans[k][2])
  <2> DEFINE u == spans[k]
             a == spans[k][1]
             b == spans[k][2]
  <2>1. /\ a \in Nat /\ b \in Nat /\ u = <<a, b>> /\ a < b /\ b <= Len(t) /\ b - a <= size
        /\ {a, b - 1} \subseteq Inked(t, a, b) /\ u \in Nat \X Nat /\ u[1] = a /\ u[2] = b
    BY <1>1, <1>2 DEF L
  <2>2. q[k] = IF Fits(t, u) THEN <<u>> ELSE Shrink(t, u, size, overlap)
    OBVIOUS
  <2> HIDE DEF u, a, b, q
  <2>3. CASE Fits(t, u)
    <3>1. <<u>> \in Seq(Nat \X Nat) /\ DOMAIN <<u>> = {1} /\ <<u>>[1] = u
      BY <2>1
    <3>2. \A i \in Inked(t, a, b) : a <= i /\ i < b
      BY <2>1 DEF Inked
    <3>3. Kept(t, <<u>>, a, b)
      BY <2>1, <2>3, <3>1, <3>2 DEF Kept
    <3> QED BY <2>2, <2>3, <3>3 DEF a, b
  <2>4. CASE ~Fits(t, u)
    <3>1. Kept(t, Shrink(t, <<a, b>>, size, overlap), a, b)
      BY <2>1, ShrinkIs
    <3> QED BY <2>1, <2>2, <2>4, <3>1 DEF a, b
  <2> QED BY <2>3, <2>4
<1>4. R = FlattenSeq(q) /\ DOMAIN q = DOMAIN spans
  BY DEF Guarded
<1> HIDE DEF q, R
<1>5. q \in Seq(Seq(Nat \X Nat))
  <2>1. \A k \in DOMAIN spans : q[k] \in Seq(Nat \X Nat)
    BY <1>3 DEF Kept
  <2>2. q = [k \in 1..Len(spans) |-> q[k]]
    BY <1>1 DEF q
  <2> QED BY <1>1, <2>1, <2>2
<1>6. /\ R \in Seq(Nat \X Nat)
      /\ \A x : ElementIn(x, R) <=> \E k \in DOMAIN spans : ElementIn(x, q[k])
  BY <1>4, <1>5, FlattenIs
<1>7. ASSUME NEW i \in Inked(t, 0, L) PROVE \E k \in DOMAIN R : R[k][1] <= i /\ i < R[k][2]
  <2>1. PICK k \in DOMAIN spans : spans[k][1] <= i /\ i < spans[k][2]
    BY DEF Cut, L
  <2>2. i \in Inked(t, spans[k][1], spans[k][2])
    BY <1>1, <1>2, <2>1 DEF Inked
  <2>3. PICK j \in DOMAIN q[k] : q[k][j][1] <= i /\ i < q[k][j][2]
    BY <1>3, <2>2 DEF Kept
  <2>4. ElementIn(q[k][j], R)
    BY <1>6, <2>3 DEF ElementIn
  <2>5. PICK n \in DOMAIN R : R[n] = q[k][j]
    BY <2>4 DEF ElementIn
  <2> QED BY <2>3, <2>5
<1>8. ASSUME NEW n \in DOMAIN R
      PROVE  /\ R[n][1] < R[n][2] /\ {R[n][1], R[n][2] - 1} \subseteq Inked(t, 0, L)
             /\ Fits(t, R[n]) \/ R[n][2] - R[n][1] <= MinSize
  <2>1. ElementIn(R[n], R)
    BY DEF ElementIn
  <2>2. PICK k \in DOMAIN spans : ElementIn(R[n], q[k])
    BY <1>6, <2>1
  <2>3. PICK j \in DOMAIN q[k] : q[k][j] = R[n]
    BY <2>2 DEF ElementIn
  <2>4. /\ R[n][1] < R[n][2] /\ {R[n][1], R[n][2] - 1} \subseteq Inked(t, spans[k][1], spans[k][2])
        /\ Fits(t, R[n]) \/ R[n][2] - R[n][1] <= MinSize
    BY <1>3, <2>3 DEF Kept
  <2> QED BY <1>2, <2>4
<1> QED BY <1>6, <1>7, <1>8 DEF Kept, L, R

\* What there is of a text before it is cut, cut, and guarded.
ChunksInv ==
    /\ body \in Seq(Characters) /\ setting \in Settings /\ phase \in {"text", "split", "guarded"}
    /\ phase = "split" => Cut(body, setting[1], chunks, Len(body))
    /\ phase = "guarded" => Kept(body, chunks, 0, Len(body))

LEMMA ChunksStart == ChunkingInit => ChunksInv
  BY DEF ChunkingInit, ChunksInv, BoundedSeq, SeqOf

LEMMA ChunksStep == ChunksInv /\ [ChunkingNext]_chunking => ChunksInv'
<1> SUFFICES ASSUME ChunksInv, [ChunkingNext]_chunking PROVE ChunksInv'
  OBVIOUS
<1>1. /\ body \in Seq(Characters) /\ setting \in Settings
      /\ setting[1] \in Nat /\ setting[2] \in 1..(setting[1] - 1) /\ setting[2] \in Nat
  BY ChunkingAssumption DEF ChunksInv
<1>2. CASE Split
  <2>1. Cut(body, setting[1], SplitSegment(body, setting[1], setting[2]), Len(body))
    BY <1>1, SplitSegmentIs
  <2> QED BY <1>1, <1>2, <2>1 DEF Split, ChunksInv
<1>3. CASE Guard
  <2>1. Cut(body, setting[1], chunks, Len(body))
    BY <1>3 DEF Guard, ChunksInv
  <2>2. Kept(body, Guarded(body, chunks, setting[1], setting[2]), 0, Len(body))
    BY <1>1, <2>1, GuardedIs
  <2> QED BY <1>1, <1>3, <2>2 DEF Guard, ChunksInv
<1>4. CASE UNCHANGED chunking
  BY <1>4 DEF ChunksInv, chunking
<1> QED BY <1>2, <1>3, <1>4 DEF ChunkingNext

LEMMA ChunksImply == ChunksInv => ChunksCover
<1> SUFFICES ASSUME ChunksInv PROVE ChunksCover
  OBVIOUS
<1> DEFINE L == Len(body)
           I == Inked(body, 0, L)
<1>1. L \in Nat /\ \A i \in I : i \in Nat /\ i < L
  BY DEF ChunksInv, Inked
<1>2. ASSUME chunks \in Seq(Nat \X Nat), \A i \in I : \E k \in DOMAIN chunks : chunks[k][1] <= i /\ i < chunks[k][2]
      PROVE  I \subseteq UNION {chunks[k][1]..(chunks[k][2] - 1) : k \in DOMAIN chunks}
  <2>1. SUFFICES ASSUME NEW i \in I PROVE \E k \in DOMAIN chunks : i \in chunks[k][1]..(chunks[k][2] - 1)
    OBVIOUS
  <2>2. PICK k \in DOMAIN chunks : chunks[k][1] <= i /\ i < chunks[k][2]
    BY <1>2
  <2>3. chunks[k] \in Nat \X Nat
    BY <1>2
  <2>4. chunks[k][1] \in Nat /\ chunks[k][2] \in Nat
    BY <2>3
  <2> QED BY <1>1, <2>2, <2>4
<1> HIDE DEF I
<1>3. CASE phase = "text"
  BY <1>3 DEF ChunksCover
<1>4. CASE phase = "split"
  <2>1. Cut(body, setting[1], chunks, L)
    BY <1>4 DEF ChunksInv
  <2>2. I \subseteq UNION {chunks[k][1]..(chunks[k][2] - 1) : k \in DOMAIN chunks}
    BY <1>2, <2>1 DEF Cut, I
  <2> QED BY <1>4, <2>1, <2>2 DEF ChunksCover, Cut, I
<1>5. CASE phase = "guarded"
  <2>1. Kept(body, chunks, 0, L)
    BY <1>5 DEF ChunksInv
  <2>2. I \subseteq UNION {chunks[k][1]..(chunks[k][2] - 1) : k \in DOMAIN chunks}
    BY <1>2, <2>1 DEF Kept, I
  <2>3. \A k \in DOMAIN chunks : chunks[k][2] <= L
    <3>1. SUFFICES ASSUME NEW k \in DOMAIN chunks PROVE chunks[k][2] <= L
      OBVIOUS
    <3>2. chunks[k] \in Nat \X Nat /\ chunks[k][2] - 1 \in I
      BY <2>1 DEF Kept, I
    <3>3. chunks[k][2] \in Nat /\ chunks[k][2] - 1 < L
      BY <1>1, <3>2
    <3> QED BY <1>1, <3>3
  <2> QED BY <1>5, <2>1, <2>2, <2>3 DEF ChunksCover, Kept, I
<1> QED BY <1>3, <1>4, <1>5 DEF ChunksInv

\* Cutting, cutting again and trimming lose no text and shift none, and the chunks advance and
\* fit, for a text of any length, any separators and any sizes.
THEOREM ChunksAreTheText == ChunkingSpec => []ChunksCover
<1>1. ChunkingInit => ChunksInv
  BY ChunksStart
<1>2. ChunksInv /\ [ChunkingNext]_chunking => ChunksInv'
  BY ChunksStep
<1>3. ChunksInv => ChunksCover
  BY ChunksImply
<1> QED BY <1>1, <1>2, <1>3, PTL DEF ChunkingSpec
-----------------------------------------------------------------------------
(* A health check.                                                         *)

LEMMA HealthStart == HealthInit => HealthInv
  BY HealthAssumption DEF HealthInit, HealthInv, HealthType, TotalLimit

LEMMA HealthStep == HealthInv /\ [HealthNext]_checking => HealthInv'
<1> SUFFICES ASSUME HealthInv, [HealthNext]_checking PROVE HealthInv'
  OBVIOUS
<1> USE HealthAssumption DEF HealthInv, HealthType, TotalLimit, ProbeLimit
<1>1. ASSUME NEW p \in Probes, NEW r \in {"ok", "unavailable"}, Ended(p, r), answered["reply"] = -1
      PROVE  HealthInv'
  BY <1>1 DEF Ended
<1>2. ASSUME NEW p \in Probes, answered["reply"] = -1, ProbeStopped(p) PROVE HealthInv'
  BY <1>2 DEF ProbeStopped
<1>3. CASE ReplyHealth
  BY <1>3 DEF ReplyHealth, Due
<1>4. CASE ClockTicks
  <2>1. answered["reply"] = -1 => clock < TotalLimit /\ \E p \in Probes : probe[p] # "done"
    BY <1>4 DEF ClockTicks, Due
  <2>2. clock' = clock + 1 /\ UNCHANGED <<limits, probe, result, report, answered>>
    BY <1>4 DEF ClockTicks
  <2> QED BY <2>1, <2>2
<1>5. CASE UNCHANGED checking
  BY <1>5 DEF checking
<1> QED BY <1>1, <1>2, <1>3, <1>4, <1>5 DEF HealthNext, ProbeEnds, CleanedUp

\* However long probes hang or take to clean up, the check answers by its limit and says of
\* each probe what is true.
THEOREM HealthIsTold == HealthSpec => []ReportIsRight
<1>1. HealthInv => ReportIsRight
  BY HealthAssumption DEF HealthInv, HealthType, TotalLimit, ReportIsRight, IsOk
<1> QED BY <1>1, HealthStart, HealthStep, PTL DEF HealthSpec

-----------------------------------------------------------------------------
(* The reading of a turn.                                                  *)

LEMMA ReaderStart == ReaderInit => ReadingInv
BY DEF ReaderInit, ReadingInv, InOrder, FedOf, TextOf, LostOf, Places, HasText

\* What an addition to the text leads to.
LEMMA FedMore ==
  ASSUME fed \in Seq(Messages \X Nat), NEW i \in Messages, NEW n \in Nat, fed' = Append(fed, <<i, n>>)
  PROVE  /\ fed' \in Seq(Messages \X Nat)
         /\ \A j \in Messages : FedOf(j)' = IF j = i THEN FedOf(j) \cup {n} ELSE FedOf(j)
         /\ \A j \in Messages : InOrder(j) /\ (j = i => \A m \in FedOf(i) : m < n) => InOrder(j)'
<1>1. /\ fed' \in Seq(Messages \X Nat) /\ DOMAIN fed' = DOMAIN fed \cup {Len(fed) + 1}
      /\ DOMAIN fed = 1..Len(fed) /\ Len(fed) \in Nat
      /\ fed'[Len(fed) + 1] = <<i, n>> /\ \A k \in DOMAIN fed : fed'[k] = fed[k]
  OBVIOUS
<1>2. ASSUME NEW j \in Messages PROVE FedOf(j)' = IF j = i THEN FedOf(j) \cup {n} ELSE FedOf(j)
  <2>1. /\ fed'[Len(fed) + 1][1] = i /\ fed'[Len(fed) + 1][2] = n
        /\ Len(fed) + 1 \in DOMAIN fed'
    BY <1>1
  <2> DEFINE K == {k \in DOMAIN fed : fed[k][1] = j}
             L == {k \in DOMAIN fed' : fed'[k][1] = j}
  <2>2. FedOf(j) = {fed[k][2] : k \in K} /\ FedOf(j)' = {fed'[k][2] : k \in L}
    BY DEF FedOf
  <2>3. L = IF j = i THEN K \cup {Len(fed) + 1} ELSE K
    BY <1>1, <2>1
  <2>4. \A k \in K : fed'[k][2] = fed[k][2]
    BY <1>1
  <2> HIDE DEF K, L
  <2>5. \A v : v \in FedOf(j)' <=> (v \in FedOf(j) \/ (j = i /\ v = n))
    <3>1. \A v : v \in FedOf(j)' <=> \E k \in L : v = fed'[k][2]
      BY <2>2
    <3>2. \A v : v \in FedOf(j) <=> \E k \in K : v = fed[k][2]
      BY <2>2
    <3>3. TAKE v
    <3>4. (\E k \in K : v = fed'[k][2]) <=> \E k \in K : v = fed[k][2]
      BY <2>4
    <3>5. CASE j = i
      <4>1. L = K \cup {Len(fed) + 1}
        BY <2>3, <3>5
      <4>2. (\E k \in L : v = fed'[k][2]) <=> ((\E k \in K : v = fed'[k][2]) \/ v = fed'[Len(fed) + 1][2])
        BY <4>1
      <4> QED BY <2>1, <3>1, <3>2, <3>4, <3>5, <4>2
    <3>6. CASE j # i
      <4>1. L = K
        BY <2>3, <3>6
      <4> QED BY <3>1, <3>2, <3>4, <3>6, <4>1
    <3> QED BY <3>5, <3>6
  <2> QED BY <2>5
<1>3. ASSUME NEW j \in Messages, InOrder(j), j = i => \A m \in FedOf(i) : m < n PROVE InOrder(j)'
  <2>1. SUFFICES ASSUME NEW k \in DOMAIN fed', NEW l \in DOMAIN fed', k < l, fed'[k][1] = j, fed'[l][1] = j
                 PROVE  fed'[k][2] < fed'[l][2]
    BY DEF InOrder
  <2>2. k \in DOMAIN fed /\ (l \in DOMAIN fed \/ l = Len(fed) + 1)
    BY <1>1, <2>1
  <2>3. CASE l \in DOMAIN fed
    BY <1>1, <1>3, <2>1, <2>2, <2>3 DEF InOrder
  <2>4. CASE l = Len(fed) + 1
    <3>1. j = i /\ fed'[l][2] = n
      BY <1>1, <2>1, <2>4
    <3>2. fed[k][2] \in FedOf(i)
      BY <1>1, <2>1, <2>2, <3>1 DEF FedOf
    <3> QED BY <1>1, <1>3, <2>2, <3>1, <3>2
  <2> QED BY <2>2, <2>3, <2>4
<1> QED BY <1>1, <1>2, <1>3

\* A delta more of one item, read or lost.
LEMMA DeltaMore ==
  ASSUME written \in [Messages -> Seq(BOOLEAN)], NEW i \in Messages, NEW shown \in BOOLEAN,
         written' = [written EXCEPT ![i] = Append(@, shown)]
  PROVE  /\ written' \in [Messages -> Seq(BOOLEAN)]
         /\ Len(written[i]) + 1 \in Nat \ {0}
         /\ Places(i)' = Places(i) \cup {Len(written[i]) + 1} /\ Places(i) = 1..Len(written[i])
         /\ TextOf(i)' = TextOf(i) \cup IF shown THEN {Len(written[i]) + 1} ELSE {}
         /\ \A j \in Messages \ {i} : Places(j)' = Places(j) /\ TextOf(j)' = TextOf(j) /\ written'[j] = written[j]
<1>1. /\ written' \in [Messages -> Seq(BOOLEAN)] /\ Len(written[i]) \in Nat
      /\ written'[i] = Append(written[i], shown) /\ \A j \in Messages \ {i} : written'[j] = written[j]
  OBVIOUS
<1>2. /\ DOMAIN written[i] = 1..Len(written[i]) /\ DOMAIN written'[i] = DOMAIN written[i] \cup {Len(written[i]) + 1}
      /\ \A n \in DOMAIN written[i] : written'[i][n] = written[i][n]
      /\ written'[i][Len(written[i]) + 1] = shown
  BY <1>1
<1>3. TextOf(i)' = TextOf(i) \cup IF shown THEN {Len(written[i]) + 1} ELSE {}
  <2>1. TextOf(i)' = {n \in DOMAIN written'[i] : written'[i][n]} /\ TextOf(i) = {n \in DOMAIN written[i] : written[i][n]}
    BY DEF TextOf, Places
  <2>2. CASE shown = TRUE
    BY <1>2, <2>1, <2>2
  <2>3. CASE shown = FALSE
    BY <1>2, <2>1, <2>3
  <2> QED BY <2>2, <2>3
<1> QED BY <1>1, <1>2, <1>3 DEF Places, TextOf

LEMMA DeltaRead ==
  ASSUME ReadingInv, NEW i \in Messages, ReadDelta(i)
  PROVE  ReadingInv'
<1> DEFINE n == Len(written[i]) + 1
<1>1. PICK shown \in BOOLEAN :
         /\ written' = [written EXCEPT ![i] = Append(@, shown)]
         /\ fed' = IF shown THEN Append(fed, <<i, n>>) ELSE fed
  BY DEF ReadDelta
<1>2. /\ whole[i] = "open" /\ deltas' = [deltas EXCEPT ![i] = deltas[i] + 1]
      /\ UNCHANGED <<turnEnd, lost, whole>>
  BY DEF ReadDelta, Counted
<1>3. /\ written' \in [Messages -> Seq(BOOLEAN)] /\ n \in Nat \ {0}
      /\ Places(i)' = Places(i) \cup {n} /\ Places(i) = 1..Len(written[i])
      /\ TextOf(i)' = TextOf(i) \cup IF shown THEN {n} ELSE {}
      /\ \A j \in Messages \ {i} : Places(j)' = Places(j) /\ TextOf(j)' = TextOf(j) /\ written'[j] = written[j]
  BY <1>1, DeltaMore DEF ReadingInv
<1>4. n \notin Places(i) /\ <<i, n>> \notin lost
  BY <1>3 DEF ReadingInv
<1>5. LostOf(i)' = LostOf(i) /\ \A j \in Messages \ {i} : LostOf(j)' = LostOf(j)
  BY <1>2, <1>3, <1>4 DEF LostOf
<1>6. TextOf(i) \subseteq Places(i) /\ LostOf(i) \subseteq Places(i) /\ \A m \in FedOf(i) : m < n
  <2>1. TextOf(i) \subseteq Places(i) /\ LostOf(i) \subseteq Places(i)
    BY DEF TextOf, LostOf
  <2>2. FedOf(i) \subseteq Places(i)
    BY <1>2, <2>1 DEF ReadingInv
  <2> QED BY <1>3, <2>1, <2>2
<1>7. /\ fed' \in Seq(Messages \X Nat)
      /\ \A j \in Messages : FedOf(j)' = IF j = i /\ shown THEN FedOf(j) \cup {n} ELSE FedOf(j)
      /\ \A j \in Messages : InOrder(j)'
  <2>1. CASE shown = TRUE
    <3>1. fed' = Append(fed, <<i, n>>) /\ n \in Nat /\ fed \in Seq(Messages \X Nat) /\ \A j \in Messages : InOrder(j)
      BY <1>1, <1>3, <2>1 DEF ReadingInv
    <3>2. /\ fed' \in Seq(Messages \X Nat)
          /\ \A j \in Messages : FedOf(j)' = IF j = i THEN FedOf(j) \cup {n} ELSE FedOf(j)
          /\ \A j \in Messages : InOrder(j) /\ (j = i => \A m \in FedOf(i) : m < n) => InOrder(j)'
      BY ONLY <3>1, FedMore
    <3> QED BY <1>6, <2>1, <3>1, <3>2
  <2>2. CASE shown = FALSE
    BY <1>1, <2>2 DEF ReadingInv, FedOf, InOrder
  <2> QED BY <2>1, <2>2
<1>8. /\ deltas' \in [Messages -> Nat] /\ deltas'[i] # 0 /\ \A j \in Messages \ {i} : deltas'[j] = deltas[j]
  BY <1>2 DEF ReadingInv
<1>9. \A l \in lost' : l \in Messages \X Nat /\ l[2] \in Places(l[1])'
  BY <1>2, <1>3 DEF ReadingInv
<1>10. ASSUME NEW j \in Messages
       PROVE  /\ deltas'[j] = 0 <=> LostOf(j)' = Places(j)'
              /\ FedOf(j)' = IF whole'[j] = "text" /\ deltas'[j] = 0 THEN {0} ELSE TextOf(j)' \ LostOf(j)'
              /\ whole'[j] = "text" => written'[j] = <<>> \/ HasText(j)'
              /\ whole'[j] = "blank" => ~HasText(j)'
  <2>1. CASE j = i
    <3>1. LostOf(i)' # Places(i)'
      BY <1>3, <1>4, <1>5, <1>6
    <3>2. FedOf(i) = TextOf(i) \ LostOf(i)
      BY <1>2 DEF ReadingInv
    <3>3. FedOf(i)' = TextOf(i)' \ LostOf(i)'
      BY <1>3, <1>4, <1>5, <1>6, <1>7, <3>2
    <3> QED BY <1>2, <1>8, <2>1, <3>1, <3>3
  <2>2. CASE j # i
    <3>1. HasText(j)' <=> HasText(j)
      BY <1>3, <2>2 DEF HasText
    <3> QED BY <1>2, <1>3, <1>5, <1>7, <1>8, <2>2, <3>1 DEF ReadingInv
  <2> QED BY <2>1, <2>2
<1> QED BY <1>2, <1>3, <1>7, <1>8, <1>9, <1>10 DEF ReadingInv

LEMMA DeltaLost ==
  ASSUME ReadingInv, NEW i \in Messages, LoseDelta(i)
  PROVE  ReadingInv'
<1> DEFINE n == Len(written[i]) + 1
<1>1. PICK shown \in BOOLEAN : written' = [written EXCEPT ![i] = Append(@, shown)]
  BY DEF LoseDelta
<1>2. /\ whole[i] = "open" /\ lost' = lost \cup {<<i, n>>}
      /\ UNCHANGED <<deltas, fed, turnEnd, whole>>
  BY DEF LoseDelta
<1>3. /\ written' \in [Messages -> Seq(BOOLEAN)] /\ n \in Nat \ {0}
      /\ Places(i)' = Places(i) \cup {n} /\ Places(i) = 1..Len(written[i])
      /\ TextOf(i)' = TextOf(i) \cup IF shown THEN {n} ELSE {}
      /\ \A j \in Messages \ {i} : Places(j)' = Places(j) /\ TextOf(j)' = TextOf(j) /\ written'[j] = written[j]
  BY <1>1, DeltaMore DEF ReadingInv
<1>4. n \notin Places(i)
  BY <1>3
<1>5. LostOf(i)' = LostOf(i) \cup {n} /\ \A j \in Messages \ {i} : LostOf(j)' = LostOf(j)
  BY <1>2, <1>3 DEF LostOf
<1>6. TextOf(i) \subseteq Places(i) /\ LostOf(i) \subseteq Places(i)
  BY DEF TextOf, LostOf
<1>7. \A j \in Messages : FedOf(j)' = FedOf(j) /\ (InOrder(j) => InOrder(j)')
  BY <1>2 DEF FedOf, InOrder
<1>8. ASSUME NEW l \in lost' PROVE l \in Messages \X Nat /\ l[2] \in Places(l[1])'
  <2>1. CASE l \in lost
    <3>1. l \in Messages \X Nat /\ l[1] \in Messages /\ l[2] \in Places(l[1])
      BY <2>1 DEF ReadingInv
    <3> QED BY <1>3, <3>1
  <2>2. CASE l = <<i, n>>
    BY <1>3, <2>2
  <2> QED BY <1>2, <2>1, <2>2
<1>9. ASSUME NEW j \in Messages
      PROVE  /\ deltas'[j] = 0 <=> LostOf(j)' = Places(j)'
             /\ FedOf(j)' = IF whole'[j] = "text" /\ deltas'[j] = 0 THEN {0} ELSE TextOf(j)' \ LostOf(j)'
             /\ whole'[j] = "text" => written'[j] = <<>> \/ HasText(j)'
             /\ whole'[j] = "blank" => ~HasText(j)'
  <2>1. CASE j = i
    <3>1. (LostOf(i)' = Places(i)') <=> (LostOf(i) = Places(i))
      BY <1>3, <1>4, <1>5, <1>6
    <3>2. FedOf(i) = TextOf(i) \ LostOf(i) /\ (deltas[i] = 0 <=> LostOf(i) = Places(i))
      BY <1>2 DEF ReadingInv
    <3>3. FedOf(i)' = TextOf(i)' \ LostOf(i)'
      BY <1>3, <1>4, <1>5, <1>6, <1>7, <3>2
    <3> QED BY <1>2, <2>1, <3>1, <3>2, <3>3
  <2>2. CASE j # i
    <3>1. HasText(j)' <=> HasText(j)
      BY <1>3, <2>2 DEF HasText
    <3> QED BY <1>2, <1>3, <1>5, <1>7, <2>2, <3>1 DEF ReadingInv
  <2> QED BY <2>1, <2>2
<1> QED BY <1>2, <1>3, <1>7, <1>8, <1>9 DEF ReadingInv

LEMMA CompletionRead ==
  ASSUME ReadingInv, NEW i \in Messages, ReadCompletion(i)
  PROVE  ReadingInv'
<1>1. PICK shown \in BOOLEAN :
         /\ written[i] # <<>> => shown = HasText(i)
         /\ whole' = [whole EXCEPT ![i] = IF shown THEN "text" ELSE "blank"]
         /\ fed' = IF Superfluous(i, shown) THEN fed ELSE Append(fed, <<i, 0>>)
  BY DEF ReadCompletion, HasText
<1>2. whole[i] = "open" /\ UNCHANGED <<deltas, turnEnd, written, lost>>
  BY DEF ReadCompletion
<1>3. \A j \in Messages : /\ Places(j)' = Places(j) /\ LostOf(j)' = LostOf(j) /\ TextOf(j)' = TextOf(j)
                          /\ HasText(j)' <=> HasText(j)
  BY <1>2 DEF Places, LostOf, TextOf, HasText
<1>4. TextOf(i) \subseteq Places(i) /\ FedOf(i) = TextOf(i) \ LostOf(i) /\ (deltas[i] = 0 <=> LostOf(i) = Places(i))
  BY <1>2 DEF ReadingInv, TextOf
<1>5. /\ whole' \in [Messages -> {"open", "blank", "text", "lost"}]
      /\ whole'[i] = IF shown THEN "text" ELSE "blank"
      /\ \A j \in Messages \ {i} : whole'[j] = whole[j]
  BY <1>1 DEF ReadingInv
<1>6. (written[i] = <<>> => ~HasText(i)) /\ (shown => written[i] = <<>> \/ HasText(i)) /\ (~shown => ~HasText(i))
  <2>1. written[i] = <<>> => ~HasText(i)
    BY DEF HasText, Places
  <2>2. CASE shown = TRUE
    BY <1>1, <2>1, <2>2
  <2>3. CASE shown = FALSE
    BY <1>1, <2>1, <2>3
  <2> QED BY <2>1, <2>2, <2>3
<1>7. /\ fed' \in Seq(Messages \X Nat)
      /\ \A j \in Messages : FedOf(j)' = IF j = i /\ shown /\ deltas[i] = 0 THEN {0} ELSE FedOf(j)
      /\ \A j \in Messages : InOrder(j)'
  <2>1. CASE Superfluous(i, shown)
    BY <1>1, <2>1 DEF ReadingInv, FedOf, InOrder, Superfluous
  <2>2. CASE ~Superfluous(i, shown)
    <3>1. shown /\ deltas[i] = 0 /\ fed' = Append(fed, <<i, 0>>) /\ fed \in Seq(Messages \X Nat) /\ \A j \in Messages : InOrder(j)
      BY <1>1, <2>2 DEF Superfluous, ReadingInv
    <3>2. FedOf(i) = {}
      BY <1>4, <3>1
    <3>3. /\ fed' \in Seq(Messages \X Nat)
          /\ \A j \in Messages : FedOf(j)' = IF j = i THEN FedOf(j) \cup {0} ELSE FedOf(j)
          /\ \A j \in Messages : InOrder(j) /\ (j = i => \A m \in FedOf(i) : m < 0) => InOrder(j)'
      BY ONLY <3>1, FedMore
    <3> QED BY <3>1, <3>2, <3>3
  <2> QED BY <2>1, <2>2
<1>8. \A l \in lost' : l \in Messages \X Nat /\ l[2] \in Places(l[1])'
  BY <1>2, <1>3 DEF ReadingInv
<1>9. ASSUME NEW j \in Messages
      PROVE  /\ deltas'[j] = 0 <=> LostOf(j)' = Places(j)'
             /\ FedOf(j)' = IF whole'[j] = "text" /\ deltas'[j] = 0 THEN {0} ELSE TextOf(j)' \ LostOf(j)'
             /\ whole'[j] = "text" => written'[j] = <<>> \/ HasText(j)'
             /\ whole'[j] = "blank" => ~HasText(j)'
  <2>1. CASE j = i
    BY <1>2, <1>3, <1>4, <1>5, <1>6, <1>7, <2>1
  <2>2. CASE j # i
    BY <1>2, <1>3, <1>5, <1>7, <2>2 DEF ReadingInv
  <2> QED BY <2>1, <2>2
<1> QED BY <1>2, <1>3, <1>5, <1>7, <1>8, <1>9 DEF ReadingInv

LEMMA ReaderStep == ReadingInv /\ [ReaderNext]_reading => ReadingInv'
<1> SUFFICES ASSUME ReadingInv, [ReaderNext]_reading PROVE ReadingInv'
  OBVIOUS
<1>1. ASSUME NEW i \in Messages, ReadDelta(i) PROVE ReadingInv'
  BY <1>1, DeltaRead
<1>2. ASSUME NEW i \in Messages, LoseDelta(i) PROVE ReadingInv'
  BY <1>2, DeltaLost
<1>3. ASSUME NEW i \in Messages, ReadCompletion(i) PROVE ReadingInv'
  BY <1>3, CompletionRead
<1>4. ASSUME NEW i \in Messages, LoseCompletion(i) PROVE ReadingInv'
  BY <1>4 DEF LoseCompletion, ReadingInv, InOrder, FedOf, TextOf, LostOf, Places, HasText
<1>5. CASE ReadError \/ ReadEndOfTurn \/ UNCHANGED reading
  BY <1>5 DEF ReadError, ReadEndOfTurn, reading, ReadingInv, InOrder, FedOf, TextOf, LostOf, Places, HasText
<1> QED BY <1>1, <1>2, <1>3, <1>4, <1>5 DEF ReaderNext

LEMMA ReaderImplies == ReadingInv => TextIsWhole
<1> SUFFICES ASSUME ReadingInv, NEW i \in Messages
             PROVE  /\ InOrder(i)
                    /\ FedOf(i) = {0} \/ FedOf(i) = TextOf(i) \ LostOf(i)
                    /\ whole[i] \in {"text", "blank"} /\ LostOf(i) \in {{}, Places(i)} =>
                           FedOf(i) \in IF whole[i] = "blank" THEN {{}} ELSE {TextOf(i), {0}} \ {{}}
  BY DEF TextIsWhole
<1>1. /\ deltas[i] = 0 <=> LostOf(i) = Places(i)
      /\ FedOf(i) = IF whole[i] = "text" /\ deltas[i] = 0 THEN {0} ELSE TextOf(i) \ LostOf(i)
      /\ whole[i] = "text" => written[i] = <<>> \/ HasText(i)
      /\ whole[i] = "blank" => ~HasText(i)
      /\ InOrder(i)
  BY DEF ReadingInv
<1>2. (HasText(i) <=> TextOf(i) # {}) /\ (written[i] = <<>> => Places(i) = {})
  BY DEF HasText, TextOf, Places
<1>3. LostOf(i) \subseteq Places(i) /\ TextOf(i) \subseteq Places(i)
  BY DEF LostOf, TextOf
<1> QED BY <1>1, <1>2, <1>3

\* What the turn yields of a message is its text, once and in order, as its deltas or whole, and
\* all of it unless lines of its deltas, but not of all of them, were lost (TurnReader.feed,
\* _completed_item): whatever the messages, and however their lines are mixed.
THEOREM TurnsTextIsWhole == ReaderSpec => []TextIsWhole
BY ReaderStart, ReaderStep, ReaderImplies, PTL DEF ReaderSpec
-----------------------------------------------------------------------------
(* Loads at first use: LazyLoad keeps LoadedOnce for any number of threads *)
(* and loads.                                                              *)

LEMMA LazyStart == LazyInit => LazyInv
<1> SUFFICES ASSUME LazyInit PROVE LazyInv
  OBVIOUS
<1>1. \A t \in Workers : at[t] = "out" /\ taken[t] = 0
  BY DEF LazyInit
<1>2. LazyType
  BY DEF LazyInit, LazyType
<1> QED BY <1>1, <1>2 DEF LazyInit, LazyInv, Behind

LEMMA LazyStep == LazyInv /\ [LazyNext]_loading => LazyInv'
<1> SUFFICES ASSUME LazyInv, [LazyNext]_loading PROVE LazyInv'
  OBVIOUS
<1> USE DEF LazyInv, LazyType, Behind, Move
<1>1. ASSUME NEW t \in Workers, Enter(t) PROVE LazyInv'
  BY <1>1 DEF Enter
<1>2. ASSUME NEW t \in Workers, LookFirst(t) PROVE LazyInv'
  BY <1>2 DEF LookFirst
<1>3. ASSUME NEW t \in Workers, TakeLock(t) PROVE LazyInv'
  BY <1>3, LazyAssumption DEF TakeLock
<1>4. ASSUME NEW t \in Workers, LookAgain(t) PROVE LazyInv'
  BY <1>4 DEF LookAgain
\* Nobody was handed anything while there was nothing.
<1>5. ASSUME NEW t \in Workers, Loaded(t) PROVE LazyInv'
  BY <1>5 DEF Loaded
<1>6. ASSUME NEW t \in Workers, LoadFails(t) PROVE LazyInv'
  BY <1>6 DEF LoadFails
<1>7. ASSUME NEW t \in Workers, Unlock(t) PROVE LazyInv'
  BY <1>7 DEF Unlock
<1>8. ASSUME NEW t \in Workers, ReturnIt(t) PROVE LazyInv'
  BY <1>8 DEF ReturnIt
<1>9. CASE Serve
  BY <1>9 DEF Serve
<1>10. CASE UNCHANGED loading
  BY <1>10 DEF loading
<1> QED BY <1>1, <1>2, <1>3, <1>4, <1>5, <1>6, <1>7, <1>8, <1>9, <1>10 DEF LazyNext

LEMMA LazyImplies == LazyInv => LoadedOnce
  BY DEF LazyInv, LazyType, Behind, LoadedOnce, Loading

\* However many threads need it at once, and however often it fails, what is loaded at first use
\* is there once, and everybody has the same.
THEOREM OneInstance == LazySpec => []LoadedOnce
<1>1. LazyInv /\ [LazyNext]_loading => LazyInv' BY LazyStep
<1> QED BY LazyStart, <1>1, LazyImplies, PTL DEF LazySpec

===============================================================================
