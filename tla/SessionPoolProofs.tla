--------------------------- MODULE SessionPoolProofs ---------------------------
(***************************************************************************)
(* Theorems about SessionPool for any finite set of requests, any sessions *)
(* and any size of the pool.                                               *)
(***************************************************************************)
EXTENDS SessionPool, FiniteSetTheorems, TLAPS

USE RequestsAssumption, SizeAssumption, NoSessionAssumption
USE DEF pool, closes, Go, Hold, Terminate, Leave, Alive

Places == Carrying \cup {"out", "wait", "pick"}
Holding == Carrying \cup {"pick"}

\* The empty pool of a start.
LEMMA InitInv == Init => IInv
<1> SUFFICES ASSUME Init PROVE IInv
  OBVIOUS
<1> USE DEF Init
<1>1. TypeOK
  BY DEF TypeOK, Carrying
<1>2. Holders = {} /\ Carriers = {}
  BY DEF Holders, Carriers, Carrying
<1>3. SlotsConserved /\ RoomInv
  BY <1>2, FS_EmptySet DEF SlotsConserved, RoomInv
<1>4. LentOnce /\ IdleIsQuiet /\ NoOrphan
  BY <1>2 DEF LentOnce, IdleIsQuiet, NoOrphan
<1>5. WorkInv /\ PlaceInv
  BY DEF WorkInv, PlaceInv
<1> QED BY <1>1, <1>3, <1>4, <1>5 DEF IInv

-----------------------------------------------------------------------------
\* A request that moves changes the number of requests within a set of places by
\* at most its own.
LEMMA Counted ==
  ASSUME NEW r \in Requests, NEW S, NEW to, pc \in [Requests -> Places],
         pc' = [pc EXCEPT ![r] = to]
  PROVE  LET Before == {q \in Requests : pc[q] \in S}
             After == {q \in Requests : pc'[q] \in S}
         IN  /\ Cardinality(Before) \in Nat /\ Cardinality(After) \in Nat
             /\ to \in S /\ pc[r] \notin S => Cardinality(After) = Cardinality(Before) + 1
             /\ to \notin S /\ pc[r] \in S => Cardinality(After) = Cardinality(Before) - 1
             /\ (to \in S <=> pc[r] \in S) => Cardinality(After) = Cardinality(Before)
<1> DEFINE Before == {q \in Requests : pc[q] \in S}
<1> DEFINE After == {q \in Requests : pc'[q] \in S}
<1>1. IsFiniteSet(Before) /\ IsFiniteSet(After)
  BY FS_Subset
<1>2. Cardinality(Before) \in Nat /\ Cardinality(After) \in Nat
  BY <1>1, FS_CardinalityType
<1>3. ASSUME to \in S, pc[r] \notin S PROVE Cardinality(After) = Cardinality(Before) + 1
  <2>1. After = Before \cup {r} /\ r \notin Before
    BY <1>3
  <2> QED BY <2>1, <1>1, FS_AddElement
<1>4. ASSUME to \notin S, pc[r] \in S PROVE Cardinality(After) = Cardinality(Before) - 1
  <2>1. After = Before \ {r} /\ r \in Before
    BY <1>4
  <2> QED BY <2>1, <1>1, FS_RemoveElement
<1>5. ASSUME to \in S <=> pc[r] \in S PROVE After = Before
  BY <1>5
<1> QED BY <1>2, <1>3, <1>4, <1>5

\* The types survive every step.
LEMMA TypeStep == IInv /\ [Next]_vars => TypeOK'
<1> SUFFICES ASSUME IInv, [Next]_vars PROVE TypeOK'
  OBVIOUS
<1> USE DEF IInv, TypeOK, Carrying
<1>1. ASSUME NEW r \in Requests, Ask(r) \/ Take(r) \/ GiveUp(r) \/ ServerStarts(r) PROVE TypeOK'
  BY <1>1 DEF Ask, Take, GiveUp, ServerStarts
<1>2. ASSUME NEW r \in Requests, NEW s \in Sessions, PickIdle(r, s) \/ PickDead(r, s) \/ PickNew(r, s)
      PROVE  TypeOK'
  BY <1>2 DEF PickIdle, PickDead, PickNew
<1>3. ASSUME NEW r \in Requests, Reaped(r) \/ Started(r) PROVE TypeOK'
  BY <1>3 DEF Reaped, Started, LentOnce, Carriers
<1>9. ASSUME NEW r \in Requests, CannotRun(r) \/ StartFails(r) \/ StartUndone(r) \/ CutClose(r)
      PROVE  TypeOK'
  BY <1>9 DEF CannotRun, StartFails, StartUndone, CutClose, LentOnce, Carriers
<1>4. ASSUME NEW r \in Requests,
             ThreadStarted(r) \/ TurnStarted(r) \/ Completed(r) \/ Fails(r) \/ Interrupted(r) \/ NotInterrupted(r)
      PROVE  TypeOK'
  BY <1>4 DEF ThreadStarted, TurnStarted, Completed, Fails, Interrupted, NotInterrupted
<1>5. ASSUME NEW r \in Requests, Release(r) \/ Discard(r) \/ Discarded(r) PROVE TypeOK'
  BY <1>5 DEF Release, Discard, Discarded, LentOnce, Carriers
<1>6. ASSUME NEW s \in Sessions, ServerEnds(s) \/ Die(s) \/ ProcessEnds(s) PROVE TypeOK'
  BY <1>6 DEF ServerEnds, Die, ProcessEnds
<1>7. CASE Close \/ Closed
  BY <1>7 DEF Close, Closed
<1>8. CASE UNCHANGED vars
  BY <1>8 DEF vars
<1> QED BY <1>1, <1>2, <1>3, <1>4, <1>5, <1>6, <1>7, <1>8, <1>9 DEF Next, Continue

-----------------------------------------------------------------------------
\* The two ways of counting requests, by the place they stand in.
LEMMA ByPlace ==
  ASSUME TypeOK, NEW r \in Requests, NEW to \in Places, pc' = [pc EXCEPT ![r] = to]
  PROVE  /\ Cardinality(Holders) \in Nat /\ Cardinality(Carriers) \in Nat
         /\ Cardinality(Holders') =
              Cardinality(Holders) + (IF to \in Holding THEN 1 ELSE 0) - (IF pc[r] \in Holding THEN 1 ELSE 0)
         /\ Cardinality(Carriers') =
              Cardinality(Carriers) + (IF to \in Carrying THEN 1 ELSE 0) - (IF pc[r] \in Carrying THEN 1 ELSE 0)
<1>1. pc \in [Requests -> Places]
  BY DEF TypeOK, Places
<1>2. Holders = {q \in Requests : pc[q] \in Holding} /\ Holders' = {q \in Requests : pc'[q] \in Holding}
  BY DEF Holders, Holding
<1>3. Carriers = {q \in Requests : pc[q] \in Carrying} /\ Carriers' = {q \in Requests : pc'[q] \in Carrying}
  BY DEF Carriers
<1>4. LET Before == {q \in Requests : pc[q] \in Holding}
          After == {q \in Requests : pc'[q] \in Holding}
      IN  /\ Cardinality(Before) \in Nat /\ Cardinality(After) \in Nat
          /\ to \in Holding /\ pc[r] \notin Holding => Cardinality(After) = Cardinality(Before) + 1
          /\ to \notin Holding /\ pc[r] \in Holding => Cardinality(After) = Cardinality(Before) - 1
          /\ (to \in Holding <=> pc[r] \in Holding) => Cardinality(After) = Cardinality(Before)
  BY <1>1, Counted
<1>5. LET Before == {q \in Requests : pc[q] \in Carrying}
          After == {q \in Requests : pc'[q] \in Carrying}
      IN  /\ Cardinality(Before) \in Nat /\ Cardinality(After) \in Nat
          /\ to \in Carrying /\ pc[r] \notin Carrying => Cardinality(After) = Cardinality(Before) + 1
          /\ to \notin Carrying /\ pc[r] \in Carrying => Cardinality(After) = Cardinality(Before) - 1
          /\ (to \in Carrying <=> pc[r] \in Carrying) => Cardinality(After) = Cardinality(Before)
  BY <1>1, Counted
<1>6. \/ to \in Holding /\ pc[r] \notin Holding
      \/ to \notin Holding /\ pc[r] \in Holding
      \/ (to \in Holding <=> pc[r] \in Holding)
  OBVIOUS
<1>7. \/ to \in Carrying /\ pc[r] \notin Carrying
      \/ to \notin Carrying /\ pc[r] \in Carrying
      \/ (to \in Carrying <=> pc[r] \in Carrying)
  OBVIOUS
<1>8. Cardinality(Holders') =
        Cardinality(Holders) + (IF to \in Holding THEN 1 ELSE 0) - (IF pc[r] \in Holding THEN 1 ELSE 0)
  BY <1>2, <1>4, <1>6
<1>9. Cardinality(Carriers') =
        Cardinality(Carriers) + (IF to \in Carrying THEN 1 ELSE 0) - (IF pc[r] \in Carrying THEN 1 ELSE 0)
  BY <1>3, <1>5, <1>7
<1> QED BY <1>2, <1>3, <1>4, <1>5, <1>8, <1>9

\* A free place lost is a request past the semaphore, and the other way round.
LEMMA SlotsStep == IInv /\ [Next]_vars => SlotsConserved'
<1> SUFFICES ASSUME IInv, [Next]_vars PROVE SlotsConserved'
  OBVIOUS
<1> USE DEF IInv, SlotsConserved, Carrying, Holding, Places
<1>1. slots \in Nat
  BY DEF TypeOK
<1>2. ASSUME UNCHANGED pc, UNCHANGED slots PROVE SlotsConserved'
  BY <1>2 DEF Holders
<1>3. ASSUME NEW r \in Requests, Ask(r) \/ GiveUp(r) PROVE SlotsConserved'
  BY <1>1, <1>3, ByPlace DEF Ask, GiveUp
<1>4. ASSUME NEW r \in Requests, Take(r) PROVE SlotsConserved'
  <2>1. pc[r] = "wait" /\ pc' = [pc EXCEPT ![r] = "pick"] /\ slots' = slots - 1
    BY <1>4 DEF Take
  <2>a. "pick" \in Places /\ "pick" \in Holding /\ "wait" \notin Holding
    OBVIOUS
  <2>b. Cardinality(Holders') = Cardinality(Holders) + (IF "pick" \in Holding THEN 1 ELSE 0)
                                - (IF pc[r] \in Holding THEN 1 ELSE 0)
    BY <2>1, <2>a, ByPlace
  <2>c. Cardinality(Holders) \in Nat
    BY <2>1, <2>a, ByPlace
  <2>2. Cardinality(Holders') = Cardinality(Holders) + 1 /\ Cardinality(Holders) \in Nat
    BY <2>1, <2>a, <2>b, <2>c
  <2> QED BY <1>1, <2>1, <2>2
<1>5. ASSUME NEW r \in Requests, NEW s \in Sessions, PickIdle(r, s) \/ PickDead(r, s) \/ PickNew(r, s)
      PROVE  SlotsConserved'
  BY <1>1, <1>5, ByPlace DEF PickIdle, PickDead, PickNew
<1>6. ASSUME NEW r \in Requests, Reaped(r) \/ Started(r) PROVE SlotsConserved'
  BY <1>1, <1>6, ByPlace DEF Reaped, Started
<1>7. ASSUME NEW r \in Requests, CannotRun(r) \/ StartFails(r) \/ StartUndone(r) \/ CutClose(r)
      PROVE  SlotsConserved'
  BY <1>1, <1>7, ByPlace DEF CannotRun, StartFails, StartUndone, CutClose
<1>8. ASSUME NEW r \in Requests, ThreadStarted(r) \/ TurnStarted(r) \/ Completed(r) PROVE SlotsConserved'
  BY <1>1, <1>8, ByPlace DEF ThreadStarted, TurnStarted, Completed
<1>9. ASSUME NEW r \in Requests, Fails(r) \/ Interrupted(r) \/ NotInterrupted(r) PROVE SlotsConserved'
  BY <1>1, <1>9, ByPlace DEF Fails, Interrupted, NotInterrupted
<1>10. ASSUME NEW r \in Requests, Release(r) \/ Discarded(r) PROVE SlotsConserved'
  BY <1>1, <1>10, ByPlace DEF Release, Discarded
<1>11. ASSUME NEW r \in Requests, Discard(r) PROVE SlotsConserved'
  BY <1>1, <1>11, ByPlace DEF Discard
<1>12. ASSUME NEW r \in Requests, ServerStarts(r) PROVE SlotsConserved'
  BY <1>2, <1>12 DEF ServerStarts
<1>13. ASSUME NEW s \in Sessions, ServerEnds(s) \/ Die(s) \/ ProcessEnds(s) PROVE SlotsConserved'
  BY <1>2, <1>13 DEF ServerEnds, Die, ProcessEnds
<1>14. CASE Close \/ Closed
  BY <1>2, <1>14 DEF Close, Closed
<1>15. CASE UNCHANGED vars
  BY <1>2, <1>15 DEF vars
<1> QED
  BY <1>3, <1>4, <1>5, <1>6, <1>7, <1>8, <1>9, <1>10, <1>11, <1>12, <1>13, <1>14, <1>15 DEF Next, Continue

\* Sessions idle or in hand stay within the size: a process is started only when
\* none is idle.
LEMMA RoomStep == IInv /\ [Next]_vars => RoomInv'
<1> SUFFICES ASSUME IInv, [Next]_vars PROVE RoomInv'
  OBVIOUS
<1> USE DEF IInv, RoomInv, Carrying, Holding, Places
<1>1. Cardinality(idle) \in Nat /\ slots \in Nat
  BY FS_CardinalityType DEF TypeOK
<1>2. ASSUME UNCHANGED <<pc, idle>> PROVE RoomInv'
  BY <1>2 DEF Carriers
<1>3. ASSUME NEW r \in Requests, Ask(r) \/ GiveUp(r) \/ Take(r) PROVE RoomInv'
  BY <1>1, <1>3, ByPlace DEF Ask, GiveUp, Take
<1>4. ASSUME NEW r \in Requests, NEW s \in Sessions, PickIdle(r, s) \/ PickDead(r, s) PROVE RoomInv'
  <2>1. IsFiniteSet(idle \ {s}) /\ Cardinality(idle \ {s}) = Cardinality(idle) - 1
    BY <1>4, FS_RemoveElement DEF PickIdle, PickDead
  <2>2. idle' = idle \ {s}
    BY <1>4 DEF PickIdle, PickDead
  <2>3. Cardinality(Carriers') = Cardinality(Carriers) + 1 /\ Cardinality(Carriers) \in Nat
    BY <1>4, ByPlace DEF PickIdle, PickDead
  <2> QED BY <1>1, <2>1, <2>2, <2>3
<1>5. ASSUME NEW r \in Requests, NEW s \in Sessions, PickNew(r, s) PROVE RoomInv'
  <2>1. Cardinality(idle) = 0
    BY <1>5, FS_EmptySet DEF PickNew
  <2>2. Holders = Carriers \cup {q \in Requests : pc[q] = "pick"} /\ r \in Holders /\ r \notin Carriers
    BY <1>5 DEF Holders, Carriers, PickNew
  <2>3. IsFiniteSet(Holders) /\ IsFiniteSet(Carriers)
    BY FS_Subset DEF Holders, Carriers
  <2>4. Cardinality(Carriers) < Cardinality(Holders)
    BY <2>2, <2>3, FS_Subset, FS_CardinalityType
  <2>5. Cardinality(Holders) <= Size
    BY <1>1, <2>3, FS_CardinalityType DEF SlotsConserved
  <2>a. pc[r] = "pick" /\ pc' = [pc EXCEPT ![r] = "start"] /\ idle' = idle
    BY <1>5 DEF PickNew
  <2>b. "start" \in Places /\ "start" \in Carrying /\ "pick" \notin Carrying
    OBVIOUS
  <2>c. Cardinality(Carriers') = Cardinality(Carriers) + (IF "start" \in Carrying THEN 1 ELSE 0)
                                 - (IF pc[r] \in Carrying THEN 1 ELSE 0)
    BY <2>a, <2>b, ByPlace
  <2>d. Cardinality(Carriers) \in Nat
    BY <2>a, <2>b, ByPlace
  <2>6. Cardinality(Carriers') = Cardinality(Carriers) + 1 /\ Cardinality(Carriers) \in Nat /\ idle' = idle
    BY <2>a, <2>b, <2>c, <2>d
  <2>7. Cardinality(Holders) \in Nat
    BY <2>3, FS_CardinalityType
  <2> QED BY <1>1, <2>1, <2>4, <2>5, <2>6, <2>7
<1>6. ASSUME NEW r \in Requests, Reaped(r) \/ Started(r) PROVE RoomInv'
  BY <1>1, <1>6, ByPlace DEF Reaped, Started
<1>16. ASSUME NEW r \in Requests, CannotRun(r) \/ StartFails(r) \/ StartUndone(r) \/ CutClose(r)
      PROVE  RoomInv'
  BY <1>1, <1>16, ByPlace DEF CannotRun, StartFails, StartUndone, CutClose
<1>7. ASSUME NEW r \in Requests, ThreadStarted(r) \/ TurnStarted(r) \/ Completed(r) PROVE RoomInv'
  BY <1>1, <1>7, ByPlace DEF ThreadStarted, TurnStarted, Completed
<1>8. ASSUME NEW r \in Requests, Fails(r) \/ Interrupted(r) \/ NotInterrupted(r) PROVE RoomInv'
  BY <1>1, <1>8, ByPlace DEF Fails, Interrupted, NotInterrupted
<1>9. ASSUME NEW r \in Requests, Release(r) PROVE RoomInv'
  <2>1. hand[r] \notin idle /\ idle' = idle \cup {hand[r]}
    BY <1>9 DEF Release, LentOnce, Carriers
  <2>2. IsFiniteSet(idle') /\ Cardinality(idle') = Cardinality(idle) + 1
    BY <2>1, FS_AddElement
  <2>a. pc[r] = "giveBack" /\ pc' = [pc EXCEPT ![r] = "out"]
    BY <1>9 DEF Release
  <2>b. "out" \in Places /\ "out" \notin Carrying /\ "giveBack" \in Carrying
    OBVIOUS
  <2>c. Cardinality(Carriers') = Cardinality(Carriers) + (IF "out" \in Carrying THEN 1 ELSE 0)
                                 - (IF pc[r] \in Carrying THEN 1 ELSE 0)
    BY <2>a, <2>b, ByPlace
  <2>d. Cardinality(Carriers) \in Nat
    BY <2>a, <2>b, ByPlace
  <2>3. Cardinality(Carriers') = Cardinality(Carriers) - 1 /\ Cardinality(Carriers) \in Nat
    BY <2>a, <2>b, <2>c, <2>d
  <2> QED BY <1>1, <2>2, <2>3
<1>10. ASSUME NEW r \in Requests, Discard(r) \/ Discarded(r) PROVE RoomInv'
  BY <1>1, <1>10, ByPlace DEF Discard, Discarded
<1>11. ASSUME NEW r \in Requests, ServerStarts(r) PROVE RoomInv'
  BY <1>2, <1>11 DEF ServerStarts
<1>12. ASSUME NEW s \in Sessions, ServerEnds(s) \/ Die(s) \/ ProcessEnds(s) PROVE RoomInv'
  BY <1>2, <1>12 DEF ServerEnds, Die, ProcessEnds
<1>13. CASE Close
  <2>1. idle' = {} /\ Carriers' = Carriers
    BY <1>13 DEF Close, Carriers
  <2>2. IsFiniteSet(idle') /\ Cardinality(idle') = 0
    BY <2>1, FS_EmptySet
  <2>3. IsFiniteSet(Carriers) /\ Cardinality(Carriers) \in Nat
    BY FS_Subset, FS_CardinalityType DEF Carriers
  <2> QED BY <1>1, <2>1, <2>2, <2>3
<1>14. CASE Closed
  BY <1>2, <1>14 DEF Closed
<1>15. CASE UNCHANGED vars
  BY <1>2, <1>15 DEF vars
<1> QED
  BY <1>3, <1>4, <1>5, <1>6, <1>7, <1>8, <1>9, <1>10, <1>11, <1>12, <1>13, <1>14, <1>15, <1>16 DEF Next, Continue

-----------------------------------------------------------------------------
\* A session is taken off the idle list before it is lent, and a name is used again only
\* when nobody has it in hand.
LEMMA LentStep == IInv /\ [Next]_vars => LentOnce'
<1> SUFFICES ASSUME IInv, [Next]_vars PROVE LentOnce'
  OBVIOUS
<1> USE DEF IInv, TypeOK, LentOnce, WorkInv, Carriers, Carrying
<1>1. ASSUME NEW r \in Requests, Ask(r) \/ Take(r) \/ GiveUp(r) PROVE LentOnce'
  BY <1>1 DEF Ask, Take, GiveUp
<1>2. ASSUME NEW r \in Requests, NEW s \in Sessions, PickIdle(r, s) PROVE LentOnce'
  BY <1>2 DEF PickIdle
<1>3. ASSUME NEW r \in Requests, NEW s \in Sessions, PickDead(r, s) PROVE LentOnce'
  BY <1>3 DEF PickDead
<1>4. ASSUME NEW r \in Requests, NEW s \in Sessions, PickNew(r, s) PROVE LentOnce'
  BY <1>4 DEF PickNew
<1>5. ASSUME NEW r \in Requests, Reaped(r) PROVE LentOnce'
  BY <1>5 DEF Reaped
<1>6. ASSUME NEW r \in Requests, Started(r) PROVE LentOnce'
  BY <1>6 DEF Started
<1>7. ASSUME NEW r \in Requests, CannotRun(r) \/ StartFails(r) \/ StartUndone(r) \/ CutClose(r)
      PROVE  LentOnce'
  BY <1>7 DEF CannotRun, StartFails, StartUndone, CutClose
<1>8. ASSUME NEW r \in Requests, ServerStarts(r) PROVE LentOnce'
  BY <1>8 DEF ServerStarts
<1>9. ASSUME NEW r \in Requests, ThreadStarted(r) \/ TurnStarted(r) \/ Completed(r) PROVE LentOnce'
  BY <1>9 DEF ThreadStarted, TurnStarted, Completed
<1>10. ASSUME NEW r \in Requests, Fails(r) \/ Interrupted(r) \/ NotInterrupted(r) PROVE LentOnce'
  BY <1>10 DEF Fails, Interrupted, NotInterrupted
<1>11. ASSUME NEW r \in Requests, Release(r) PROVE LentOnce'
  BY <1>11 DEF Release
<1>12. ASSUME NEW r \in Requests, Discard(r) PROVE LentOnce'
  BY <1>12 DEF Discard
<1>13. ASSUME NEW r \in Requests, Discarded(r) PROVE LentOnce'
  BY <1>13 DEF Discarded
<1>14. ASSUME NEW s \in Sessions, ServerEnds(s) \/ Die(s) \/ ProcessEnds(s) PROVE LentOnce'
  BY <1>14 DEF ServerEnds, Die, ProcessEnds
<1>15. CASE Close \/ Closed
  BY <1>15 DEF Close, Closed
<1>16. CASE UNCHANGED vars
  BY <1>16 DEF vars
<1> QED
  BY <1>1, <1>2, <1>3, <1>4, <1>5, <1>6, <1>7, <1>8, <1>9, <1>10, <1>11, <1>12, <1>13, <1>14, <1>15, <1>16 DEF Next, Continue

\* What a request knows of the session in its hand stays true whatever others do.
LEMMA WorkStep == IInv /\ [Next]_vars => WorkInv'
<1> SUFFICES ASSUME IInv, [Next]_vars PROVE WorkInv'
  OBVIOUS
<1> USE DEF IInv, TypeOK, LentOnce, WorkInv, Carriers, Carrying, PlaceInv, NoOrphan
<1>1. ASSUME NEW r \in Requests, Ask(r) \/ Take(r) \/ GiveUp(r) PROVE WorkInv'
  BY <1>1 DEF Ask, Take, GiveUp
<1>2. ASSUME NEW r \in Requests, NEW s \in Sessions, PickIdle(r, s) PROVE WorkInv'
  BY <1>2 DEF PickIdle
<1>3. ASSUME NEW r \in Requests, NEW s \in Sessions, PickDead(r, s) PROVE WorkInv'
  BY <1>3 DEF PickDead
<1>4. ASSUME NEW r \in Requests, NEW s \in Sessions, PickNew(r, s) PROVE WorkInv'
  BY <1>4 DEF PickNew
<1>5. ASSUME NEW r \in Requests, Reaped(r) PROVE WorkInv'
  BY <1>5 DEF Reaped
<1>6. ASSUME NEW r \in Requests, Started(r) PROVE WorkInv'
  BY <1>6 DEF Started
<1>7. ASSUME NEW r \in Requests, CannotRun(r) \/ StartFails(r) \/ StartUndone(r) \/ CutClose(r)
      PROVE  WorkInv'
  BY <1>7 DEF CannotRun, StartFails, StartUndone, CutClose
<1>8. ASSUME NEW r \in Requests, ServerStarts(r) PROVE WorkInv'
  BY <1>8 DEF ServerStarts
<1>9. ASSUME NEW r \in Requests, ThreadStarted(r) \/ TurnStarted(r) \/ Completed(r) PROVE WorkInv'
  BY <1>9 DEF ThreadStarted, TurnStarted, Completed
<1>10. ASSUME NEW r \in Requests, Fails(r) \/ Interrupted(r) \/ NotInterrupted(r) PROVE WorkInv'
  BY <1>10 DEF Fails, Interrupted, NotInterrupted
<1>11. ASSUME NEW r \in Requests, Release(r) PROVE WorkInv'
  BY <1>11 DEF Release
<1>12. ASSUME NEW r \in Requests, Discard(r) PROVE WorkInv'
  BY <1>12 DEF Discard
<1>13. ASSUME NEW r \in Requests, Discarded(r) PROVE WorkInv'
  BY <1>13 DEF Discarded
<1>14. ASSUME NEW s \in Sessions, ServerEnds(s) \/ Die(s) \/ ProcessEnds(s) PROVE WorkInv'
  BY <1>14 DEF ServerEnds, Die, ProcessEnds
<1>15. CASE Close \/ Closed
  BY <1>15 DEF Close, Closed
<1>16. CASE UNCHANGED vars
  BY <1>16 DEF vars
<1> QED
  BY <1>1, <1>2, <1>3, <1>4, <1>5, <1>6, <1>7, <1>8, <1>9, <1>10, <1>11, <1>12, <1>13, <1>14, <1>15, <1>16 DEF Next, Continue

\* A session becomes idle with its turn over, and only its borrower starts turns.
LEMMA QuietStep == IInv /\ [Next]_vars => IdleIsQuiet'
<1> SUFFICES ASSUME IInv, [Next]_vars PROVE IdleIsQuiet'
  OBVIOUS
<1> USE DEF IInv, TypeOK, LentOnce, WorkInv, Carriers, Carrying, IdleIsQuiet
<1>1. ASSUME NEW r \in Requests, Ask(r) \/ Take(r) \/ GiveUp(r) PROVE IdleIsQuiet'
  BY <1>1 DEF Ask, Take, GiveUp
<1>2. ASSUME NEW r \in Requests, NEW s \in Sessions, PickIdle(r, s) PROVE IdleIsQuiet'
  BY <1>2 DEF PickIdle
<1>3. ASSUME NEW r \in Requests, NEW s \in Sessions, PickDead(r, s) PROVE IdleIsQuiet'
  BY <1>3 DEF PickDead
<1>4. ASSUME NEW r \in Requests, NEW s \in Sessions, PickNew(r, s) PROVE IdleIsQuiet'
  BY <1>4 DEF PickNew
<1>5. ASSUME NEW r \in Requests, Reaped(r) PROVE IdleIsQuiet'
  BY <1>5 DEF Reaped
<1>6. ASSUME NEW r \in Requests, Started(r) PROVE IdleIsQuiet'
  BY <1>6 DEF Started
<1>7. ASSUME NEW r \in Requests, CannotRun(r) \/ StartFails(r) \/ StartUndone(r) \/ CutClose(r)
      PROVE  IdleIsQuiet'
  BY <1>7 DEF CannotRun, StartFails, StartUndone, CutClose
<1>8. ASSUME NEW r \in Requests, ServerStarts(r) PROVE IdleIsQuiet'
  BY <1>8 DEF ServerStarts
<1>9. ASSUME NEW r \in Requests, ThreadStarted(r) \/ TurnStarted(r) \/ Completed(r) PROVE IdleIsQuiet'
  BY <1>9 DEF ThreadStarted, TurnStarted, Completed
<1>10. ASSUME NEW r \in Requests, Fails(r) \/ Interrupted(r) \/ NotInterrupted(r) PROVE IdleIsQuiet'
  BY <1>10 DEF Fails, Interrupted, NotInterrupted
<1>11. ASSUME NEW r \in Requests, Release(r) PROVE IdleIsQuiet'
  BY <1>11 DEF Release
<1>12. ASSUME NEW r \in Requests, Discard(r) PROVE IdleIsQuiet'
  BY <1>12 DEF Discard
<1>13. ASSUME NEW r \in Requests, Discarded(r) PROVE IdleIsQuiet'
  BY <1>13 DEF Discarded
<1>14. ASSUME NEW s \in Sessions, ServerEnds(s) \/ Die(s) \/ ProcessEnds(s) PROVE IdleIsQuiet'
  BY <1>14 DEF ServerEnds, Die, ProcessEnds
<1>15. CASE Close \/ Closed
  BY <1>15 DEF Close, Closed
<1>16. CASE UNCHANGED vars
  BY <1>16 DEF vars
<1> QED
  BY <1>1, <1>2, <1>3, <1>4, <1>5, <1>6, <1>7, <1>8, <1>9, <1>10, <1>11, <1>12, <1>13, <1>14, <1>15, <1>16 DEF Next, Continue

\* A session leaves the live set only with a SIGTERM for its process.
LEMMA OrphanStep == IInv /\ [Next]_vars => NoOrphan'
<1> SUFFICES ASSUME IInv, [Next]_vars PROVE NoOrphan'
  OBVIOUS
<1> USE DEF IInv, TypeOK, LentOnce, WorkInv, Carriers, Carrying, NoOrphan, PlaceInv
<1>1. ASSUME NEW r \in Requests, Ask(r) \/ Take(r) \/ GiveUp(r) PROVE NoOrphan'
  BY <1>1 DEF Ask, Take, GiveUp
<1>2. ASSUME NEW r \in Requests, NEW s \in Sessions, PickIdle(r, s) PROVE NoOrphan'
  BY <1>2 DEF PickIdle
<1>3. ASSUME NEW r \in Requests, NEW s \in Sessions, PickDead(r, s) PROVE NoOrphan'
  BY <1>3 DEF PickDead
<1>4. ASSUME NEW r \in Requests, NEW s \in Sessions, PickNew(r, s) PROVE NoOrphan'
  BY <1>4 DEF PickNew
<1>5. ASSUME NEW r \in Requests, Reaped(r) PROVE NoOrphan'
  BY <1>5 DEF Reaped
<1>6. ASSUME NEW r \in Requests, Started(r) PROVE NoOrphan'
  BY <1>6 DEF Started
<1>7. ASSUME NEW r \in Requests, CannotRun(r) \/ StartFails(r) \/ StartUndone(r) \/ CutClose(r)
      PROVE  NoOrphan'
  BY <1>7 DEF CannotRun, StartFails, StartUndone, CutClose
<1>8. ASSUME NEW r \in Requests, ServerStarts(r) PROVE NoOrphan'
  BY <1>8 DEF ServerStarts
<1>9. ASSUME NEW r \in Requests, ThreadStarted(r) \/ TurnStarted(r) \/ Completed(r) PROVE NoOrphan'
  BY <1>9 DEF ThreadStarted, TurnStarted, Completed
<1>10. ASSUME NEW r \in Requests, Fails(r) \/ Interrupted(r) \/ NotInterrupted(r) PROVE NoOrphan'
  BY <1>10 DEF Fails, Interrupted, NotInterrupted
<1>11. ASSUME NEW r \in Requests, Release(r) PROVE NoOrphan'
  BY <1>11 DEF Release
<1>12. ASSUME NEW r \in Requests, Discard(r) PROVE NoOrphan'
  BY <1>12 DEF Discard
<1>13. ASSUME NEW r \in Requests, Discarded(r) PROVE NoOrphan'
  BY <1>13 DEF Discarded
<1>14. ASSUME NEW s \in Sessions, ServerEnds(s) \/ Die(s) \/ ProcessEnds(s) PROVE NoOrphan'
  BY <1>14 DEF ServerEnds, Die, ProcessEnds
<1>15. CASE Close \/ Closed
  BY <1>15 DEF Close, Closed
<1>16. CASE UNCHANGED vars
  BY <1>16 DEF vars
<1> QED
  BY <1>1, <1>2, <1>3, <1>4, <1>5, <1>6, <1>7, <1>8, <1>9, <1>10, <1>11, <1>12, <1>13, <1>14, <1>15, <1>16 DEF Next, Continue

\* A process that is neither idle nor in hand nor ending is down.
LEMMA PlaceStep == IInv /\ [Next]_vars => PlaceInv'
<1> SUFFICES ASSUME IInv, [Next]_vars PROVE PlaceInv'
  OBVIOUS
<1> USE DEF IInv, TypeOK, LentOnce, WorkInv, Carriers, Carrying, PlaceInv, NoOrphan
<1>1. ASSUME NEW r \in Requests, Ask(r) \/ Take(r) \/ GiveUp(r) PROVE PlaceInv'
  BY <1>1 DEF Ask, Take, GiveUp
<1>2. ASSUME NEW r \in Requests, NEW s \in Sessions, PickIdle(r, s) PROVE PlaceInv'
  BY <1>2 DEF PickIdle
<1>3. ASSUME NEW r \in Requests, NEW s \in Sessions, PickDead(r, s) PROVE PlaceInv'
  BY <1>3 DEF PickDead
<1>4. ASSUME NEW r \in Requests, NEW s \in Sessions, PickNew(r, s) PROVE PlaceInv'
  BY <1>4 DEF PickNew
<1>5. ASSUME NEW r \in Requests, Reaped(r) PROVE PlaceInv'
  BY <1>5 DEF Reaped
<1>6. ASSUME NEW r \in Requests, Started(r) PROVE PlaceInv'
  BY <1>6 DEF Started
<1>7. ASSUME NEW r \in Requests, CannotRun(r) \/ StartFails(r) \/ StartUndone(r) \/ CutClose(r)
      PROVE  PlaceInv'
  BY <1>7 DEF CannotRun, StartFails, StartUndone, CutClose
<1>8. ASSUME NEW r \in Requests, ServerStarts(r) PROVE PlaceInv'
  BY <1>8 DEF ServerStarts
<1>9. ASSUME NEW r \in Requests, ThreadStarted(r) \/ TurnStarted(r) \/ Completed(r) PROVE PlaceInv'
  BY <1>9 DEF ThreadStarted, TurnStarted, Completed
<1>10. ASSUME NEW r \in Requests, Fails(r) \/ Interrupted(r) \/ NotInterrupted(r) PROVE PlaceInv'
  BY <1>10 DEF Fails, Interrupted, NotInterrupted
<1>11. ASSUME NEW r \in Requests, Release(r) PROVE PlaceInv'
  BY <1>11 DEF Release
<1>12. ASSUME NEW r \in Requests, Discard(r) PROVE PlaceInv'
  BY <1>12 DEF Discard
<1>13. ASSUME NEW r \in Requests, Discarded(r) PROVE PlaceInv'
  BY <1>13 DEF Discarded
<1>14. ASSUME NEW s \in Sessions, ServerEnds(s) \/ Die(s) \/ ProcessEnds(s) PROVE PlaceInv'
  BY <1>14 DEF ServerEnds, Die, ProcessEnds
<1>15. CASE Close \/ Closed
  BY <1>15 DEF Close, Closed
<1>16. CASE UNCHANGED vars
  BY <1>16 DEF vars
<1> QED
  BY <1>1, <1>2, <1>3, <1>4, <1>5, <1>6, <1>7, <1>8, <1>9, <1>10, <1>11, <1>12, <1>13, <1>14, <1>15, <1>16 DEF Next, Continue

\* Every step keeps the invariant.
LEMMA StepInv == IInv /\ [Next]_vars => IInv'
  BY TypeStep, SlotsStep, RoomStep, LentStep, WorkStep, QuietStep, OrphanStep, PlaceStep DEF IInv

-----------------------------------------------------------------------------
\* The invariant of the pool holds of every behaviour: deaths, failures, cancellations
\* and shutdown at any point included.
THEOREM PoolInvariant == Spec => []IInv
  BY InitInv, StepInv, PTL DEF Spec

\* Every reachable state has its type.
THEOREM TypeCorrect == Spec => []TypeOK
<1>1. IInv => TypeOK
  BY DEF IInv
<1> QED BY <1>1, PoolInvariant, PTL

\* The places of the semaphore are conserved: release, discard and a failing acquire
\* give back exactly what was taken.
THEOREM SlotConservation == Spec => []SlotsConserved
<1>1. IInv => SlotsConserved
  BY DEF IInv
<1> QED BY <1>1, PoolInvariant, PTL

\* No two requests run turns on one session.
THEOREM SessionsLentOnce == Spec => []LentOnce
<1>1. IInv => LentOnce
  BY DEF IInv
<1> QED BY <1>1, PoolInvariant, PTL

\* No session is given back with a turn running.
THEOREM QuietIdle == Spec => []IdleIsQuiet
<1>1. IInv => IdleIsQuiet
  BY DEF IInv
<1> QED BY <1>1, PoolInvariant, PTL

\* No process is forgotten, not even by a shutdown that overtakes a start; a close cut by a
\* cancellation leaves at least the SIGTERM with the process it stops waiting for.
THEOREM NothingOrphaned == Spec => []NoOrphan
<1>1. IInv => NoOrphan
  BY DEF IInv
<1> QED BY <1>1, PoolInvariant, PTL

\* But for those that end by themselves there are at most as many processes as idle
\* sessions and sessions in hand.
LEMMA ProcessesAreHeld == IInv => ProcessesBounded
<1> SUFFICES ASSUME IInv PROVE ProcessesBounded
  OBVIOUS
<1> DEFINE Up == {s \in Sessions : proc[s] # "down"} \ (left \cup ending)
<1> DEFINE InHand == {hand[r] : r \in Carriers}
<1> DEFINE f == [r \in Carriers |-> hand[r]]
<1>1. IsFiniteSet(Carriers)
  BY FS_Subset DEF Carriers
<1>2. f \in Surjection(Carriers, InHand)
  BY DEF Surjection
<1>3. IsFiniteSet(InHand) /\ Cardinality(InHand) <= Cardinality(Carriers)
  BY <1>1, <1>2, FS_Surjection
<1>4. Up \subseteq idle \cup InHand
  BY DEF IInv, PlaceInv
<1>5. /\ IsFiniteSet(idle \cup InHand) /\ IsFiniteSet(idle)
      /\ Cardinality(idle \cup InHand) = Cardinality(idle) + Cardinality(InHand) - Cardinality(idle \cap InHand)
  BY <1>3, FS_Union DEF IInv, RoomInv
<1>6. IsFiniteSet(Up) /\ Cardinality(Up) <= Cardinality(idle \cup InHand)
  BY <1>4, <1>5, FS_Subset
<1>7. IsFiniteSet(idle \cap InHand)
  BY <1>5, FS_Intersection
<1>8. /\ Cardinality(Up) \in Nat /\ Cardinality(idle) \in Nat /\ Cardinality(InHand) \in Nat
      /\ Cardinality(Carriers) \in Nat /\ Cardinality(idle \cap InHand) \in Nat
      /\ Cardinality(idle \cup InHand) \in Nat
  BY <1>1, <1>3, <1>5, <1>6, <1>7, FS_CardinalityType
<1>9. Cardinality(idle) + Cardinality(Carriers) <= Size
  BY DEF IInv, RoomInv
<1>10. Cardinality(Up) <= Size
  BY <1>3, <1>5, <1>6, <1>8, <1>9
<1> QED BY <1>10 DEF ProcessesBounded

\* Idle sessions occupy no place of the semaphore, yet processes exceed the size only by
\* those left behind by cut closes and, at shutdown, those aclose is ending.
THEOREM BoundedProcesses == Spec => []ProcessesBounded
  BY ProcessesAreHeld, PoolInvariant, PTL

=============================================================================
