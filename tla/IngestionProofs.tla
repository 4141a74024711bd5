--------------------------- MODULE IngestionProofs ---------------------------
(***************************************************************************)
(* Theorems about Ingestion for every set of documents, revisions,         *)
(* signatures and requests and every value of the bounds.  IInv is the     *)
(* inductive invariant; its conjuncts state, request by request, how far   *)
(* the work has come and what each store holds at that point.              *)
(***************************************************************************)
EXTENDS Ingestion, TLAPS

USE BatchesAssumption, NoDocAssumption, NoJobAssumption, FreeAssumption
USE DEF stores, startup, locks, locals, counters, history, Version, Chunk, Record, Job, Holdings

\* The empty stores of a first start satisfy the invariant.
LEMMA InitInv == Init => IInv
  BY DEF Init, IInv, TypeOK, LockInv, RecordInv, WrittenInv, StartupInv, RemovalInv,
         IndexedIsComplete, Steps, Modes, Holding, Reading, Writing, Purging, Removing,
         MatchesIndex

\* A batch written to the lexical index completes the batches counted so far.
LEMMA AddLexInv ==
  ASSUME IInv, NEW p \in Procs, AddLex(p)
  PROVE  IInv'
<1> USE DEF IInv, TypeOK, LockInv, Step, Steps, Modes, Target, BatchOf
<1>1. /\ job[p] \in [op : {"ingest"}, doc : Docs, rev : Revs]
      /\ pc[p] = "addLex" /\ owner[job[p].doc] = p
  <2>1. pc[p] = "addLex" /\ job[p] \in Job /\ job[p].op = "ingest" /\ owner[job[p].doc] = p
    BY DEF AddLex, Holding, Reading
  <2> QED BY <2>1
<1>2. stored[p] \in Nat /\ stored[p] < Batches
  <2>1. stored[p] \in 0..Batches
    OBVIOUS
  <2>2. WrittenInv
    OBVIOUS
  <2>3. stored[p] < Batches
    BY ONLY <1>1, <2>2, p \in Procs DEF WrittenInv
  <2> QED BY <2>1, <2>3
<1>3. stored[p] + 1 \in 1..Batches
  BY <1>2
<1>4. /\ pc' = [pc EXCEPT ![p] = IF stored[p] + 1 < Batches THEN "addVec" ELSE "commit"]
      /\ stored' = [stored EXCEPT ![p] = stored[p] + 1]
      /\ lex' = lex \cup {BatchOf(Target(p), stored[p] + 1)}
      /\ vec' = vec /\ job' = job /\ sig' = sig
  BY DEF AddLex
<1>5. TypeOK'
  <2>1. BatchOf(Target(p), stored[p] + 1) \in Chunk
    BY <1>1, <1>3
  <2>2. stored' \in [Procs -> 0..Batches]
    BY <1>3, <1>4
  <2> QED BY <2>1, <2>2, <1>4 DEF AddLex
<1>6. LockInv'
  BY DEF AddLex, Holding, Reading, Writing, Purging, Removing
<1>7. RecordInv'
  BY DEF AddLex, RecordInv, Reading, Purging, NeedsPurge, UpToDate, Searchable, MatchesIndex
<1>8. WrittenInv'
  <2> SUFFICES ASSUME NEW q \in Procs
               PROVE /\ pc'[q] \in Writing =>
                           \A i \in 1..stored'[q] : BatchOf(Target(q)', i) \in vec' \cap lex'
                     /\ pc'[q] = "addLex" => BatchOf(Target(q)', stored'[q] + 1) \in vec'
                     /\ pc'[q] \in {"addVec", "addLex"} => stored'[q] < Batches
                     /\ pc'[q] = "commit" => stored'[q] = Batches
    BY DEF WrittenInv
  <2>1. CASE q # p
    <3>1. /\ pc'[q] = pc[q] /\ stored'[q] = stored[q] /\ Target(q)' = Target(q)
          /\ vec' = vec /\ lex \subseteq lex'
      BY <1>4, <2>1
    <3> QED BY <3>1 DEF WrittenInv
  <2>2. CASE q = p
    <3>1. stored'[p] = stored[p] + 1 /\ Target(p)' = Target(p)
      BY <1>4
    <3>2. pc'[p] = IF stored[p] + 1 < Batches THEN "addVec" ELSE "commit"
      BY <1>4
    <3>3. \A i \in 1..stored[p] : BatchOf(Target(p), i) \in vec \cap lex
      BY <1>1 DEF WrittenInv, Writing
    <3>4. BatchOf(Target(p), stored[p] + 1) \in vec' \cap lex'
      BY <1>1, <1>4 DEF WrittenInv
    <3>5. \A i \in 1..(stored[p] + 1) : i \in 1..stored[p] \/ i = stored[p] + 1
      BY ONLY <1>2
    <3>6. \A i \in 1..stored'[p] : BatchOf(Target(p)', i) \in vec' \cap lex'
      BY ONLY <3>1, <3>3, <3>4, <3>5, <1>4
    <3> QED BY <2>2, <3>1, <3>2, <3>6, <1>2
  <2> QED BY <2>1, <2>2
<1>9. StartupInv' /\ RemovalInv'
  <2>1. StartupInv'
    BY DEF AddLex, StartupInv, MatchesIndex, Recorded
  <2>2. RemovalInv'
    BY <1>1, <1>4 DEF AddLex, RemovalInv, Holding, Removing
  <2> QED BY <2>1, <2>2
<1>10. IndexedIsComplete'
  BY DEF AddLex, IndexedIsComplete, Complete, Recorded
<1> QED BY <1>5, <1>6, <1>7, <1>8, <1>9, <1>10

\* The commit makes the uploaded generation the recorded one, all of it written.
LEMMA CommitInv ==
  ASSUME IInv, NEW p \in Procs, Commit(p)
  PROVE  IInv'
<1> USE DEF IInv, TypeOK, LockInv, RecordInv, WrittenInv, StartupInv, RemovalInv,
            Step, Steps, Modes, Holding, Reading, Writing, Purging, Removing,
            Target, BatchOf, VersionOf, Recorded, MatchesIndex, Searchable, UpToDate,
            Commit, NeedsPurge
<1>1. TypeOK'
  OBVIOUS
<1>2. LockInv' /\ WrittenInv'
  OBVIOUS
<1>3. RecordInv'
  OBVIOUS
<1>4. StartupInv'
  OBVIOUS
<1>5. RemovalInv'
  OBVIOUS
<1>6. IndexedIsComplete'
  <2> SUFFICES ASSUME NEW d \in Docs, registry'[d] # NoDoc,
                      registry'[d].status = "indexed", d \notin halfDeleted'
               PROVE  Complete(d)'
    BY DEF IndexedIsComplete
  <2>1. CASE d = job[p].doc
    BY <2>1 DEF Complete
  <2>2. CASE d # job[p].doc
    BY <2>2 DEF IndexedIsComplete, Complete
  <2> QED BY <2>1, <2>2
<1> QED BY <1>1, <1>2, <1>3, <1>4, <1>5, <1>6

\* A roll-back deletes a version that is not the recorded one.
LEMMA UndoVecInv ==
  ASSUME IInv, NEW p \in Procs, UndoVec(p)
  PROVE  IInv'
<1> USE DEF IInv, TypeOK, LockInv, RecordInv, WrittenInv, StartupInv, RemovalInv,
            Step, Steps, Modes, Holding, Reading, Writing, Purging, Removing,
            Target, BatchOf, VersionOf, Recorded, MatchesIndex, Searchable, UpToDate,
            UndoVec, DropVersion
<1>1. TypeOK' /\ LockInv'
  OBVIOUS
<1>2. RecordInv'
  BY DEF NeedsPurge
<1>3. WrittenInv'
  OBVIOUS
<1>4. StartupInv' /\ RemovalInv'
  OBVIOUS
<1>5. IndexedIsComplete'
  <2> SUFFICES ASSUME NEW d \in Docs, registry'[d] # NoDoc,
                      registry'[d].status = "indexed", d \notin halfDeleted'
               PROVE  Complete(d)'
    BY DEF IndexedIsComplete
  <2>1. Complete(d) /\ registry' = registry /\ lex' = lex
    BY DEF IndexedIsComplete
  <2>2. ~UpToDate(registry[job[p].doc], job[p].rev)
    OBVIOUS
  <2>3. Recorded(d) # Target(p)
    BY <2>1, <2>2
  <2> QED BY <2>1, <2>3 DEF Complete
<1> QED BY <1>1, <1>2, <1>3, <1>4, <1>5

\* So does the second half of the roll-back, which also lets go of the lock.
LEMMA UndoLexInv ==
  ASSUME IInv, NEW p \in Procs, UndoLex(p)
  PROVE  IInv'
<1> USE DEF IInv, TypeOK, LockInv, RecordInv, WrittenInv, StartupInv, RemovalInv,
            Step, Steps, Modes, Holding, Reading, Writing, Purging, Removing,
            Target, BatchOf, VersionOf, Recorded, MatchesIndex, Searchable, UpToDate,
            UndoLex, DropVersion, Release
<1>1. TypeOK' /\ LockInv'
  OBVIOUS
<1>2. RecordInv'
  BY DEF NeedsPurge
<1>3. WrittenInv'
  OBVIOUS
<1>4. StartupInv' /\ RemovalInv'
  OBVIOUS
<1>5. IndexedIsComplete'
  <2> SUFFICES ASSUME NEW d \in Docs, registry'[d] # NoDoc,
                      registry'[d].status = "indexed", d \notin halfDeleted'
               PROVE  Complete(d)'
    BY DEF IndexedIsComplete
  <2>1. Complete(d) /\ registry' = registry /\ vec' = vec
    BY DEF IndexedIsComplete
  <2>2. ~UpToDate(registry[job[p].doc], job[p].rev)
    OBVIOUS
  <2>3. Recorded(d) # Target(p)
    BY <2>1, <2>2
  <2> QED BY <2>1, <2>3 DEF Complete
<1> QED BY <1>1, <1>2, <1>3, <1>4, <1>5

\* What a purge leaves of an index keeps every recorded chunk: the axis it
\* selects by is one on which the new generation differs from the old.
LEMMA PurgeKeeps ==
  ASSUME IInv, NEW p \in Procs, pc[p] \in Purging, NEW d \in Docs,
         NEW s, NEW c \in s, VersionOf(c) = Recorded(d)
  PROVE  c \in Purged(p, s)
<1> USE DEF IInv, Recorded, VersionOf
<1>1. CASE d = job[p].doc
  <2>1. c.rev = job[p].rev /\ c.sig = sig
    <3>1. registry[job[p].doc] =
             [rev |-> job[p].rev, sig |-> sig, status |-> "indexed", count |-> Batches]
      BY DEF RecordInv
    <3> QED BY <3>1, <1>1
  <2>2. current[p].rev # job[p].rev \/ current[p].sig # sig
    BY DEF RecordInv, NeedsPurge
  <2>3. CASE current[p].rev # job[p].rev
    BY <2>1, <2>3 DEF Purged, DropRevision
  <2>4. CASE current[p].rev = job[p].rev
    BY <2>1, <2>2, <2>4 DEF Purged, DropSignature
  <2> QED BY <2>3, <2>4
<1>2. CASE d # job[p].doc
  BY <1>2 DEF Purged, DropRevision, DropSignature
<1> QED BY <1>1, <1>2

\* The purge of the vector store keeps the recorded generation.
LEMMA PurgeVecInv ==
  ASSUME IInv, NEW p \in Procs, PurgeVec(p)
  PROVE  IInv'
<1> USE DEF IInv, TypeOK, LockInv, RecordInv, WrittenInv, StartupInv, RemovalInv,
            Step, Steps, Modes, Holding, Reading, Writing, Purging, Removing,
            PurgeVec
<1>1. vec' \subseteq vec
  BY DEF Purged, DropRevision, DropSignature
<1>2. TypeOK' /\ LockInv'
  BY <1>1
<1>3. RecordInv'
  BY DEF NeedsPurge, UpToDate, Searchable, MatchesIndex
<1>4. WrittenInv'
  BY <1>1 DEF Target, BatchOf, Purged, DropRevision, DropSignature
<1>5. StartupInv' /\ RemovalInv'
  BY <1>1 DEF MatchesIndex, Recorded
<1>6. IndexedIsComplete'
  <2>1. \A d \in Docs : \A i : VersionOf(BatchOf(Recorded(d), i)) = Recorded(d)
    BY DEF VersionOf, BatchOf, Recorded
  <2>2. \A d \in Docs : \A i : BatchOf(Recorded(d), i) \in vec => BatchOf(Recorded(d), i) \in vec'
    <3>1. pc[p] \in Purging /\ vec' = Purged(p, vec)
      OBVIOUS
    <3>2. \A d \in Docs, c \in vec : VersionOf(c) = Recorded(d) => c \in Purged(p, vec)
      BY <3>1, PurgeKeeps
    <3> QED BY ONLY <2>1, <3>1, <3>2
  <2>3. lex' = lex /\ registry' = registry
    OBVIOUS
  <2>4. \A d \in Docs : Complete(d) => Complete(d)'
    BY <2>2, <2>3 DEF Complete, Recorded
  <2> QED BY <2>4 DEF IndexedIsComplete
<1> QED BY <1>2, <1>3, <1>4, <1>5, <1>6

\* So does the purge of the lexical index.
LEMMA PurgeLexInv ==
  ASSUME IInv, NEW p \in Procs, PurgeLex(p)
  PROVE  IInv'
<1> USE DEF IInv, TypeOK, LockInv, RecordInv, WrittenInv, StartupInv, RemovalInv,
            Step, Steps, Modes, Holding, Reading, Writing, Purging, Removing,
            PurgeLex
<1>1. lex' \subseteq lex
  BY DEF Purged, DropRevision, DropSignature
<1>2. TypeOK' /\ LockInv'
  BY <1>1
<1>3. RecordInv'
  BY DEF NeedsPurge, UpToDate, Searchable, MatchesIndex
<1>4. WrittenInv'
  BY <1>1 DEF Target, BatchOf, Purged, DropRevision, DropSignature
<1>5. StartupInv' /\ RemovalInv'
  BY <1>1 DEF MatchesIndex, Recorded
<1>6. IndexedIsComplete'
  <2>1. \A d \in Docs : \A i : VersionOf(BatchOf(Recorded(d), i)) = Recorded(d)
    BY DEF VersionOf, BatchOf, Recorded
  <2>2. \A d \in Docs : \A i : BatchOf(Recorded(d), i) \in lex => BatchOf(Recorded(d), i) \in lex'
    <3>1. pc[p] \in Purging /\ lex' = Purged(p, lex)
      OBVIOUS
    <3>2. \A d \in Docs, c \in lex : VersionOf(c) = Recorded(d) => c \in Purged(p, lex)
      BY <3>1, PurgeKeeps
    <3> QED BY ONLY <2>1, <3>1, <3>2
  <2>3. vec' = vec /\ registry' = registry
    OBVIOUS
  <2>4. \A d \in Docs : Complete(d) => Complete(d)'
    BY <2>2, <2>3 DEF Complete, Recorded
  <2> QED BY <2>4 DEF IndexedIsComplete
<1> QED BY <1>2, <1>3, <1>4, <1>5, <1>6

\* Answering the request frees the lock and leaves the stores alone.
LEMMA ReplyInv ==
  ASSUME IInv, NEW p \in Procs, Reply(p)
  PROVE  IInv'
<1> USE DEF IInv, TypeOK, LockInv, RecordInv, WrittenInv, StartupInv, RemovalInv,
            Step, Steps, Modes, Holding, Reading, Writing, Purging, Removing,
            Reply, Release
<1>1. TypeOK'
  OBVIOUS
<1>2. LockInv'
  OBVIOUS
<1>3. RecordInv'
  BY DEF NeedsPurge, UpToDate, Searchable, MatchesIndex
<1>4. WrittenInv'
  BY DEF Target, BatchOf
<1>5. StartupInv'
  BY DEF MatchesIndex, Recorded
<1>6. RemovalInv'
  OBVIOUS
<1>7. IndexedIsComplete'
  BY DEF IndexedIsComplete, Complete, Recorded, BatchOf
<1> QED BY <1>1, <1>2, <1>3, <1>4, <1>5, <1>6, <1>7

\* Recording a document as emptied yields a record.
LEMMA EmptiedRecord ==
  ASSUME NEW r \in Record
  PROVE  [r EXCEPT !.status = "stale", !.count = 0] \in Record
<1>1. 0 \in 0..Batches
  OBVIOUS
<1> QED BY ONLY <1>1, r \in Record DEF Record

\* A document of another configuration is recorded as stale once it is empty.
LEMMA StaleRecordInv ==
  ASSUME IInv, StaleRecord
  PROVE  IInv'
<1> USE DEF IInv, TypeOK, LockInv, RecordInv, WrittenInv, StartupInv, RemovalInv,
            Step, Steps, Modes, Holding, Reading, Writing, Purging, Removing,
            MatchesIndex, StaleRecord
<1>1. hand \in Docs /\ registry[hand] \in Record
  OBVIOUS
<1>2. [registry[hand] EXCEPT !.status = "stale", !.count = 0] \in Record
  BY <1>1, EmptiedRecord
<1>3. TypeOK'
  BY <1>1, <1>2
<1>4. LockInv'
  OBVIOUS
<1>5. RecordInv'
  BY DEF NeedsPurge
<1>6. WrittenInv'
  BY DEF Target, BatchOf
<1>7. StartupInv'
  BY <1>1 DEF Recorded
<1>8. RemovalInv'
  OBVIOUS
<1>9. IndexedIsComplete'
  BY <1>1 DEF IndexedIsComplete, Complete, Recorded, BatchOf
<1> QED BY <1>3, <1>4, <1>5, <1>6, <1>7, <1>8, <1>9

\* Every step of the service keeps the invariant.
LEMMA StepInv == IInv /\ [Next]_vars => IInv'
<1> SUFFICES ASSUME IInv, [Next]_vars PROVE IInv'
  OBVIOUS
<1> USE DEF IInv, TypeOK, LockInv, RecordInv, WrittenInv, StartupInv, RemovalInv,
            IndexedIsComplete, Complete, Step, Steps, Modes, Holding, Reading, Writing,
            Purging, Removing, Target, BatchOf, VersionOf, Recorded, NeedsPurge,
            MatchesIndex, Searchable, UpToDate
<1>1. ASSUME NEW p \in Procs, NEW j \in Job, Accept(p, j) PROVE IInv'
  BY <1>1 DEF Accept
<1>2. ASSUME NEW p \in Procs, Lock(p) PROVE IInv'
  BY <1>2 DEF Lock
<1>3. ASSUME NEW p \in Procs, GetForIngest(p) PROVE IInv'
  BY <1>3 DEF GetForIngest
<1>4. ASSUME NEW p \in Procs, GetForDelete(p) PROVE IInv'
  BY <1>4 DEF GetForDelete
<1>5. ASSUME NEW p \in Procs, NothingToDo(p) PROVE IInv'
  BY <1>5 DEF NothingToDo, Release
<1>6. ASSUME NEW p \in Procs, GetFails(p) PROVE IInv'
  BY <1>6 DEF GetFails, Release, Fault
<1>7. ASSUME NEW p \in Procs, EnterLimiter(p) PROVE IInv'
  BY <1>7 DEF EnterLimiter
<1>8. ASSUME NEW p \in Procs, Extract(p) PROVE IInv'
  BY <1>8 DEF Extract
<1>9. ASSUME NEW p \in Procs, ExtractFails(p) PROVE IInv'
  BY <1>9 DEF ExtractFails, Release
<1>10. ASSUME NEW p \in Procs, AddVec(p) PROVE IInv'
  BY <1>10 DEF AddVec
<1>11. ASSUME NEW p \in Procs, AddVecFails(p) PROVE IInv'
  BY <1>11 DEF AddVecFails, Fault
<1>12. ASSUME NEW p \in Procs, AddLex(p) PROVE IInv'
  BY <1>12, AddLexInv
<1>13. ASSUME NEW p \in Procs, AddLexFails(p) PROVE IInv'
  BY <1>13 DEF AddLexFails, Fault
<1>14. ASSUME NEW p \in Procs, Commit(p) PROVE IInv'
  BY <1>14, CommitInv
<1>15. ASSUME NEW p \in Procs, CommitFails(p) PROVE IInv'
  BY <1>15 DEF CommitFails, Fault
<1>16. ASSUME NEW p \in Procs, UndoVec(p) PROVE IInv'
  BY <1>16, UndoVecInv
<1>17. ASSUME NEW p \in Procs, UndoVecFails(p) PROVE IInv'
  BY <1>17 DEF UndoVecFails, Fault, Leak
<1>18. ASSUME NEW p \in Procs, UndoLex(p) PROVE IInv'
  BY <1>18, UndoLexInv
<1>19. ASSUME NEW p \in Procs, UndoLexFails(p) PROVE IInv'
  BY <1>19 DEF UndoLexFails, Release, Fault, Leak
<1>20. ASSUME NEW p \in Procs, PurgeVec(p) PROVE IInv'
  BY <1>20, PurgeVecInv
<1>21. ASSUME NEW p \in Procs, PurgeVecFails(p) PROVE IInv'
  BY <1>21 DEF PurgeVecFails, Fault, Leak
<1>22. ASSUME NEW p \in Procs, PurgeLex(p) PROVE IInv'
  BY <1>22, PurgeLexInv
<1>23. ASSUME NEW p \in Procs, PurgeLexFails(p) PROVE IInv'
  BY <1>23 DEF PurgeLexFails, Fault, Leak
<1>24. ASSUME NEW p \in Procs, DropVec(p) PROVE IInv'
  BY <1>24 DEF DropVec, DropDoc
<1>25. ASSUME NEW p \in Procs, DropVecFails(p) PROVE IInv'
  BY <1>25 DEF DropVecFails, Release, Fault
<1>26. ASSUME NEW p \in Procs, DropLex(p) PROVE IInv'
  BY <1>26 DEF DropLex, DropDoc
<1>27. ASSUME NEW p \in Procs, DropLexFails(p) PROVE IInv'
  BY <1>27 DEF DropLexFails, Release, Fault
<1>28. ASSUME NEW p \in Procs, DropRecord(p) PROVE IInv'
  BY <1>28 DEF DropRecord
<1>29. ASSUME NEW p \in Procs, DropRecordFails(p) PROVE IInv'
  BY <1>29 DEF DropRecordFails, Release, Fault
<1>30. ASSUME NEW p \in Procs, ForgetDocAnswers(p) PROVE IInv'
  BY <1>30 DEF ForgetDocAnswers
<1>31. ASSUME NEW p \in Procs, Reply(p) PROVE IInv'
  BY <1>31, ReplyInv
<1>32. ASSUME Crash PROVE IInv'
  BY <1>32 DEF Crash
<1>33. ASSUME List PROVE IInv'
  BY <1>33 DEF List
<1>34. ASSUME NEW d \in Docs, StaleVec(d) PROVE IInv'
  BY <1>34 DEF StaleVec, DropDoc
<1>35. ASSUME StaleLex PROVE IInv'
  BY <1>35 DEF StaleLex, DropDoc
<1>36. ASSUME StaleRecord PROVE IInv'
  BY <1>36, StaleRecordInv
<1>37. ASSUME NEW v \in Version, SweepVec(v) PROVE IInv'
  BY <1>37 DEF SweepVec, DropVersion
<1>38. ASSUME SweepLex PROVE IInv'
  BY <1>38 DEF SweepLex, DropVersion
<1>39. ASSUME Reconciled PROVE IInv'
  BY <1>39 DEF Reconciled
<1>40. ASSUME ReconcileFails PROVE IInv'
  BY <1>40 DEF ReconcileFails, Fault
<1>41. CASE UNCHANGED vars
  BY <1>41 DEF vars
<1> QED
  BY <1>1, <1>2, <1>3, <1>4, <1>5, <1>6, <1>7, <1>8, <1>9, <1>10, <1>11,
     <1>12, <1>13, <1>14, <1>15, <1>16, <1>17, <1>18, <1>19, <1>20, <1>21,
     <1>22, <1>23, <1>24, <1>25, <1>26, <1>27, <1>28, <1>29, <1>30, <1>31,
     <1>32, <1>33, <1>34, <1>35, <1>36, <1>37, <1>38, <1>39, <1>40, <1>41
     DEF Next, Arrive, Progress, Fails, Reconcile

-----------------------------------------------------------------------------
\* The state of the service and its stores keeps its shape.
THEOREM TypeCorrect == Spec => []TypeOK
<1>1. IInv => TypeOK
  BY DEF IInv
<1> QED BY InitInv, StepInv, <1>1, PTL DEF Spec

\* The inductive invariant holds of every behaviour: failures, crashes at any
\* await and restarts under another configuration included.
THEOREM InductiveInvariant == Spec => []IInv
  BY InitInv, StepInv, PTL DEF Spec

\* A document recorded as indexed whose removal has not begun has every one of
\* its chunks in both indexes, whatever failed or was interrupted before.
THEOREM IndexedComplete == Spec => []IndexedIsComplete
<1>1. IInv => IndexedIsComplete
  BY DEF IInv
<1> QED BY InductiveInvariant, <1>1, PTL

\* A deletion about to be answered has left no chunk of the document.
THEOREM DeletionComplete == Spec => []DeletedLeavesNothing
<1>1. IInv => DeletedLeavesNothing
  BY DEF IInv, RemovalInv, DeletedLeavesNothing
<1> QED BY InductiveInvariant, <1>1, PTL

-----------------------------------------------------------------------------
(* Ingestion implements DocumentStore.                                     *)

\* What the record and the set of half-removed documents say is held.
View(d) ==
    IF registry[d] = NoDoc \/ registry[d].status = "stale" THEN NoDoc
    ELSE [rev |-> registry[d].rev, sig |-> registry[d].sig,
          state |-> IF d \in halfDeleted THEN "removing" ELSE "whole"]

Untorn == \A d \in Docs : Held(d) = View(d)

\* Given the invariant, "torn" never occurs.
LEMMA NeverTorn == IInv => Untorn
<1> SUFFICES ASSUME IInv, NEW d \in Docs PROVE Held(d) = View(d)
  BY DEF Untorn
<1>1. CASE registry[d] = NoDoc \/ registry[d].status = "stale"
  BY <1>1 DEF Held, View
<1>2. CASE registry[d] # NoDoc /\ registry[d].status # "stale"
  <2>1. registry[d].status = "indexed"
    BY <1>2 DEF IInv, TypeOK
  <2>2. d \in halfDeleted \/ Complete(d)
    BY <1>2, <2>1 DEF IInv, IndexedIsComplete
  <2> QED BY <1>2, <2>2 DEF Held, View
<1> QED BY <1>1, <1>2

\* The same of the state a step leads to.
LEMMA NeverTornNext == IInv' => Untorn'
  BY NeverTorn, PTL

\* Only these steps change a record, the set of half-removed documents or the
\* configuration.
LEMMA OtherStepsStutter ==
  ASSUME Next
  PROVE  \/ registry' = registry /\ halfDeleted' = halfDeleted /\ sig' = sig
         \/ \E p \in Procs : Commit(p) \/ DropVec(p) \/ DropRecord(p)
         \/ \E d \in Docs : StaleVec(d)
         \/ StaleRecord \/ Crash
<1>1. ASSUME NEW p \in Procs, Arrive(p) \/ Lock(p) \/ EnterLimiter(p)
      PROVE registry' = registry /\ halfDeleted' = halfDeleted /\ sig' = sig
  BY <1>1 DEF Arrive, Accept, Lock, EnterLimiter
<1>2. ASSUME NEW p \in Procs, Progress(p), ~Commit(p), ~DropVec(p), ~DropRecord(p)
      PROVE registry' = registry /\ halfDeleted' = halfDeleted /\ sig' = sig
  BY <1>2 DEF Progress, GetForIngest, GetForDelete, NothingToDo, Extract, ExtractFails,
     AddVec, AddLex, UndoVec, UndoLex, PurgeVec, PurgeLex, DropLex, ForgetDocAnswers, Reply
<1>3. ASSUME NEW p \in Procs, Fails(p)
      PROVE registry' = registry /\ halfDeleted' = halfDeleted /\ sig' = sig
  BY <1>3 DEF Fails, GetFails, AddVecFails, AddLexFails, CommitFails, UndoVecFails,
     UndoLexFails, PurgeVecFails, PurgeLexFails, DropVecFails, DropLexFails, DropRecordFails
<1>4. ASSUME NEW v \in Version, List \/ StaleLex \/ SweepVec(v) \/ SweepLex \/ Reconciled
      PROVE registry' = registry /\ halfDeleted' = halfDeleted /\ sig' = sig
  BY <1>4 DEF List, StaleLex, SweepVec, SweepLex, Reconciled
<1>5. ASSUME List \/ StaleLex \/ SweepLex \/ Reconciled \/ ReconcileFails
      PROVE registry' = registry /\ halfDeleted' = halfDeleted /\ sig' = sig
  BY <1>5 DEF List, StaleLex, SweepLex, Reconciled, ReconcileFails
<1> QED BY ONLY Next, <1>1, <1>2, <1>3, <1>4, <1>5 DEF Next, Reconcile

\* Every step is a step of DocumentStore or changes nothing it can see.
LEMMA StepImplements ==
  ASSUME IInv, IInv', Next
  PROVE  \/ Promise!Next
         \/ UNCHANGED <<[d \in Docs |-> Held(d)], sig>>
<1> DEFINE content  == [d \in Docs |-> Held(d)]
           Keeps(d) == registry'[d] = registry[d] /\ (d \in halfDeleted <=> d \in halfDeleted')
<1>1. content = [d \in Docs |-> View(d)] /\ content' = [d \in Docs |-> View(d)']
  BY NeverTorn, NeverTornNext DEF Untorn
<1> HIDE DEF content
<1>2. \A d \in Docs : Keeps(d) => content'[d] = content[d]
  BY <1>1 DEF View
<1>3. CASE registry' = registry /\ halfDeleted' = halfDeleted /\ sig' = sig
  <2>1. content' = content
    BY <1>1, <1>2, <1>3
  <2> QED BY <1>3, <2>1 DEF content
<1>4. ASSUME NEW p \in Procs, Commit(p)
      PROVE  Promise!Put(job[p].doc, job[p].rev)
  <2>0. job[p].doc \in Docs /\ job[p].rev \in Revs
    BY <1>4 DEF Commit, Step, IInv, TypeOK, LockInv, Reading
  <2> PICK d \in Docs, r \in Revs : d = job[p].doc /\ r = job[p].rev
    BY <2>0
  <2>1. ~UpToDate(registry[d], r)
    BY <1>4 DEF Commit, Step, IInv, TypeOK, LockInv, RecordInv, Reading
  <2>2. content[d] = NoDoc \/ content[d].rev # r \/ content[d].sig # sig
    BY <1>1, <2>1 DEF View, UpToDate, Searchable, MatchesIndex, IInv, TypeOK
  <2>3. View(d)' = [rev |-> r, sig |-> sig, state |-> "whole"]
    BY <1>4, <2>1 DEF Commit, View, IInv, TypeOK
  <2>4. \A e \in Docs : e # d => Keeps(e)
    BY <1>4 DEF Commit, IInv, TypeOK
  <2>5. content' = [content EXCEPT ![d] = [rev |-> r, sig |-> sig, state |-> "whole"]]
    <3>1. content'[d] = [rev |-> r, sig |-> sig, state |-> "whole"]
      BY <1>1, <2>3
    <3>2. \A e \in Docs : e # d => content'[e] = content[e]
      BY ONLY <1>2, <2>4
    <3>3. content = [e \in Docs |-> content[e]] /\ content' = [e \in Docs |-> content'[e]]
      BY ONLY <1>1
    <3> QED BY ONLY <3>1, <3>2, <3>3
  <2> QED BY <1>4, <2>2, <2>5 DEF Promise!Put, content, Commit, startup
<1>5. ASSUME NEW d \in Docs, \A e \in Docs : e # d => Keeps(e),
             registry' = registry, d \in halfDeleted', sig' = sig
      PROVE  Promise!StartRemove(d) \/ UNCHANGED <<content, sig>>
  <2>1. CASE content[d] = NoDoc
    <3>1. registry[d] = NoDoc \/ registry[d].status = "stale"
      <4> SUFFICES ASSUME registry[d] # NoDoc, registry[d].status # "stale" PROVE FALSE
        OBVIOUS
      <4>1. registry[d].rev \in Revs /\ registry[d].sig \in Sigs
        BY DEF IInv, TypeOK
      <4>2. View(d) \in Holdings
        BY <4>1 DEF View
      <4> QED BY <1>1, <2>1, <4>2
    <3>2. content'[d] = content[d]
      BY <1>1, <1>5, <3>1 DEF View
    <3>3. \A e \in Docs : content'[e] = content[e]
      BY <1>2, <1>5, <3>2
    <3>4. content' = content
      BY <1>1, <3>3
    <3> QED BY <1>5, <3>4
  <2>2. CASE content[d] # NoDoc
    <3>1. View(d)' = [content[d] EXCEPT !.state = "removing"]
      BY <1>1, <1>5, <2>2 DEF View
    <3>2. content' = [content EXCEPT ![d] = [@ EXCEPT !.state = "removing"]]
      BY <1>1, <1>2, <1>5, <3>1
    <3> QED BY <1>5, <2>2, <3>2 DEF Promise!StartRemove, content
  <2> QED BY <2>1, <2>2
<1>6. ASSUME NEW d \in Docs, \A e \in Docs : e # d => Keeps(e),
             d \in halfDeleted, registry'[d] = NoDoc \/ registry'[d].status = "stale",
             sig' = sig
      PROVE  Promise!FinishRemove(d) \/ UNCHANGED <<content, sig>>
  <2>1. View(d)' = NoDoc
    BY <1>6 DEF View
  <2>2. content' = [content EXCEPT ![d] = NoDoc]
    BY <1>1, <1>2, <1>6, <2>1
  <2>3. CASE content[d] = NoDoc
    BY <1>1, <1>6, <2>2, <2>3
  <2>4. CASE content[d] # NoDoc
    <3>1. content[d].state = "removing"
      BY <1>1, <1>6, <2>4 DEF View
    <3> QED BY <1>6, <2>2, <2>4, <3>1 DEF Promise!FinishRemove, content
  <2> QED BY <2>3, <2>4
<1>7. ASSUME NEW p \in Procs, DropVec(p)
      PROVE  Promise!StartRemove(job[p].doc) \/ UNCHANGED <<content, sig>>
  <2>1. job[p].doc \in Docs
    BY <1>7 DEF DropVec, Step, IInv, TypeOK, LockInv
  <2> QED BY <1>5, <1>7, <2>1 DEF DropVec, IInv, TypeOK
<1>8. ASSUME NEW p \in Procs, DropRecord(p)
      PROVE  Promise!FinishRemove(job[p].doc) \/ UNCHANGED <<content, sig>>
  <2>1. job[p].doc \in Docs /\ job[p].doc \in halfDeleted
    BY <1>8 DEF DropRecord, Step, IInv, TypeOK, LockInv, RemovalInv
  <2> QED BY <1>6, <1>8, <2>1 DEF DropRecord, IInv, TypeOK
<1>9. ASSUME NEW d \in Docs, StaleVec(d)
      PROVE  Promise!StartRemove(d) \/ UNCHANGED <<content, sig>>
  BY <1>5, <1>9 DEF StaleVec, IInv, TypeOK
<1>10. ASSUME StaleRecord
       PROVE  Promise!FinishRemove(hand) \/ UNCHANGED <<content, sig>>
  <2>1. hand \in Docs /\ hand \in halfDeleted /\ registry[hand] \in Record
    BY <1>10 DEF StaleRecord, IInv, TypeOK, StartupInv, MatchesIndex
  <2>2. registry'[hand].status = "stale"
    BY <1>10, <2>1 DEF StaleRecord, IInv, TypeOK
  <2> QED BY <1>6, <1>10, <2>1, <2>2 DEF StaleRecord, IInv, TypeOK
<1>11. ASSUME Crash PROVE Promise!Reconfigure
  <2>1. content' = content
    BY <1>1, <1>2, <1>11 DEF Crash
  <2> QED BY <1>11, <2>1 DEF Crash, Promise!Reconfigure, content
<1>12. \A p \in Procs : Commit(p) \/ DropVec(p) \/ DropRecord(p) =>
          job[p].doc \in Docs /\ (Commit(p) => job[p].rev \in Revs)
  BY DEF Commit, DropVec, DropRecord, Step, IInv, TypeOK, LockInv, Reading, Job
<1>13. StaleRecord => hand \in Docs
  BY DEF StaleRecord, IInv, TypeOK, StartupInv
<1> QED
  BY <1>3, <1>4, <1>7, <1>8, <1>9, <1>10, <1>11, <1>12, <1>13, OtherStepsStutter
     DEF Promise!Next, content

\* Ingestion keeps the promise of DocumentStore: replacement in one step, one
\* generation at a time, and only removals seen half done.
THEOREM KeepsPromise == Spec => ImplementsDocumentStore
<1>1. Init => Promise!Init
  BY DEF Init, Promise!Init, Held
<1>2. IInv /\ IInv' /\ [Next]_vars =>
         [Promise!Next]_<<[d \in Docs |-> Held(d)], sig>>
  <2>1. CASE Next
    BY <2>1, StepImplements
  <2>2. CASE UNCHANGED vars
    <3>1. \A d \in Docs : Held(d)' = Held(d)
      BY <2>2 DEF vars, Held, Complete, Recorded, BatchOf
    <3> QED BY <2>2, <3>1 DEF vars
  <2> QED BY <2>1, <2>2
<1> QED BY InductiveInvariant, <1>1, <1>2, PTL
        DEF Spec, ImplementsDocumentStore, Promise!Spec

-----------------------------------------------------------------------------
\* A step that leaves a document's record and configuration alone, and of the
\* two indexes only chunks that are not of its recorded version, is not seen.
LEMMA Unseen ==
  ASSUME NEW d \in Docs, registry'[d] = registry[d], sig' = sig,
         Searchable(registry[d]) =>
             \A c : VersionOf(c) = Recorded(d) => (c \in vec <=> c \in vec')
                                               /\ (c \in lex <=> c \in lex')
  PROVE  Served(vec, d)' = Served(vec, d) /\ Served(lex, d)' = Served(lex, d)
  BY DEF Served, Searchable, MatchesIndex, Recorded, VersionOf

\* Writing and rolling back touch only the version the upload is writing,
\* which no search returns before its commit.
LEMMA TargetUnserved ==
  ASSUME IInv, NEW p \in Procs, pc[p] \in Reading, NEW d \in Docs, Searchable(registry[d])
  PROVE  Target(p) # Recorded(d)
  BY DEF IInv, RecordInv, Target, Recorded, UpToDate

\* Every step leaves what searches return of a document as it is, but for its
\* commit, a restart and its removal.
LEMMA StepAtomic ==
  ASSUME IInv, Next, NEW d \in Docs, registry'[d] = registry[d], restarts' = restarts,
         d \notin halfDeleted'
  PROVE  Served(vec, d)' = Served(vec, d) /\ Served(lex, d)' = Served(lex, d)
<1> DEFINE Same == /\ sig' = sig
                   /\ Searchable(registry[d]) =>
                         \A c : VersionOf(c) = Recorded(d) => (c \in vec <=> c \in vec')
                                                           /\ (c \in lex <=> c \in lex')
<1> SUFFICES Same
  BY Unseen
<1>1. CASE vec' = vec /\ lex' = lex /\ sig' = sig
  BY <1>1
<1>2. ASSUME NEW p \in Procs,
             AddVec(p) \/ AddLex(p) \/ UndoVec(p) \/ UndoLex(p)
      PROVE  Same
  <2>1. Searchable(registry[d]) => Target(p) # Recorded(d)
    BY <1>2, TargetUnserved DEF AddVec, AddLex, UndoVec, UndoLex, Step, Reading
  <2>2. \A i : VersionOf(BatchOf(Target(p), i)) = Target(p)
    BY DEF VersionOf, BatchOf, Target
  <2> QED BY <1>2, <2>1, <2>2
          DEF AddVec, AddLex, UndoVec, UndoLex, DropVersion, startup
<1>3. ASSUME NEW p \in Procs, PurgeVec(p) \/ PurgeLex(p) PROVE Same
  <2>1. pc[p] \in Purging
    BY <1>3 DEF PurgeVec, PurgeLex, Step, Purging
  <2>2. \A c : VersionOf(c) = Recorded(d) =>
                  (c \in vec => c \in Purged(p, vec)) /\ (c \in lex => c \in Purged(p, lex))
    BY <2>1, PurgeKeeps
  <2>3. Purged(p, vec) \subseteq vec /\ Purged(p, lex) \subseteq lex
    BY DEF Purged, DropRevision, DropSignature
  <2> QED BY <1>3, <2>2, <2>3 DEF PurgeVec, PurgeLex, startup
<1>4. ASSUME NEW p \in Procs, DropVec(p) \/ DropLex(p) PROVE Same
  <2>1. d # job[p].doc
    BY <1>4 DEF DropVec, DropLex, Step, IInv, RemovalInv
  <2> QED BY <1>4, <2>1
          DEF DropVec, DropLex, DropDoc, VersionOf, Recorded, startup
<1>5. ASSUME NEW e \in Docs, StaleVec(e) PROVE Same
  BY <1>5 DEF StaleVec, DropDoc, VersionOf, Recorded
<1>6. ASSUME StaleLex PROVE Same
  <2>1. d # hand
    BY <1>6 DEF StaleLex, IInv, StartupInv
  <2> QED BY <1>6, <2>1 DEF StaleLex, DropDoc, VersionOf, Recorded
<1>7. ASSUME NEW v \in Version, SweepVec(v) PROVE Same
  BY <1>7 DEF SweepVec, DropVersion, IInv, StartupInv, Searchable
<1>8. ASSUME SweepLex PROVE Same
  BY <1>8 DEF SweepLex, DropVersion, IInv, StartupInv, Searchable
<1>9. ~Crash
  BY DEF Crash, IInv, TypeOK
<1>10. ASSUME NEW p \in Procs, Arrive(p) \/ Lock(p) \/ EnterLimiter(p) PROVE Same
  BY <1>1, <1>10 DEF Arrive, Accept, Lock, EnterLimiter
<1>11. ASSUME NEW p \in Procs, Fails(p) PROVE Same
  BY <1>1, <1>11 DEF Fails, GetFails, AddVecFails, AddLexFails, CommitFails, UndoVecFails,
     UndoLexFails, PurgeVecFails, PurgeLexFails, DropVecFails, DropLexFails, DropRecordFails
<1>12. ASSUME NEW p \in Procs, Progress(p) PROVE Same
  <2>1. CASE \/ GetForIngest(p) \/ GetForDelete(p) \/ NothingToDo(p) \/ Extract(p)
             \/ ExtractFails(p) \/ Commit(p) \/ DropRecord(p) \/ ForgetDocAnswers(p)
             \/ Reply(p)
    BY <1>1, <2>1 DEF GetForIngest, GetForDelete, NothingToDo, Extract, ExtractFails,
       Commit, DropRecord, ForgetDocAnswers, Reply
  <2> QED BY <1>2, <1>3, <1>4, <1>12, <2>1 DEF Progress
<1>13. ASSUME List \/ StaleRecord \/ Reconciled \/ ReconcileFails PROVE Same
  BY <1>1, <1>13 DEF List, StaleRecord, Reconciled, ReconcileFails
<1> QED
  BY <1>5, <1>6, <1>7, <1>8, <1>9, <1>10, <1>11, <1>12, <1>13 DEF Next, Reconcile

\* Between a record's changes, restarts and removals, searches are returned the
\* same chunks of a document whatever uploads write, undo or purge.
THEOREM AtomicReplacement == Spec => ReplacementIsAtomic
<1> DEFINE A == \A d \in Docs :
          \/ Served(vec, d)' = Served(vec, d) /\ Served(lex, d)' = Served(lex, d)
          \/ registry'[d] # registry[d]
          \/ restarts' # restarts
          \/ d \in halfDeleted'
<1>1. IInv /\ [Next]_vars => [A]_vars
  BY StepAtomic
<1> QED BY InductiveInvariant, <1>1, PTL DEF Spec, ReplacementIsAtomic

-----------------------------------------------------------------------------
(* Residue.  ResidueInv is inductive relative to IInv.                     *)

\* Where a stored chunk comes from.
Origin(c) ==
    \/ registry[c.doc] # NoDoc /\ VersionOf(c) = Recorded(c.doc)
    \/ InHand(c)

\* A step of request p at work on document D leaves all other documents and
\* requests alone.
Frame(p, D) ==
    /\ \A d \in Docs : d # D => owner[d] # p
    /\ mode' = "up" /\ sig' = sig
    /\ \A q \in Procs :
          q # p => pc'[q] = pc[q] /\ job'[q] = job[q] /\ current'[q] = current[q]
    /\ \A d \in Docs :
          d # D => /\ registry'[d] = registry[d] /\ owner'[d] = owner[d]
                   /\ d \in leaky <=> d \in leaky'
    /\ \A c \in Chunk :
          c.doc # D => /\ c \in vec <=> c \in vec'
                       /\ c \in lex <=> c \in lex'
    /\ vec' \subseteq Chunk /\ lex' \subseteq Chunk

\* Such a step disturbs the origin of no other document's chunks.
LEMMA OriginFrame ==
  ASSUME IInv, ResidueInv, NEW p \in Procs, NEW D \in Docs, Frame(p, D),
         \A c \in vec' \cup lex' : c.doc = D /\ D \notin leaky' => Origin(c)'
  PROVE  ResidueInv'
<1> USE DEF Frame
<1> SUFFICES ASSUME NEW c \in vec' \cup lex', c.doc # D, c.doc \notin leaky'
             PROVE  Origin(c)'
  BY DEF ResidueInv, Origin
<1>1. c \in Chunk /\ c.doc \in Docs /\ c \in vec \cup lex /\ c.doc \notin leaky
  OBVIOUS
<1>2. Origin(c)
  BY <1>1 DEF ResidueInv, Origin
<1>3. CASE registry[c.doc] # NoDoc /\ VersionOf(c) = Recorded(c.doc)
  BY <1>1, <1>3 DEF Origin, VersionOf, Recorded
<1>4. CASE InHand(c)
  <2>1. owner[c.doc] \in Procs /\ owner[c.doc] # p /\ owner'[c.doc] = owner[c.doc]
    BY <1>1, <1>4 DEF InHand, IInv, TypeOK
  <2> PICK q \in Procs : q = owner[c.doc]
    BY <2>1
  <2>2. pc'[q] = pc[q] /\ job'[q] = job[q] /\ current'[q] = current[q] /\ q # Free
    BY <2>1
  <2>3. Target(q)' = Target(q)
    BY <2>2 DEF Target
  <2>4. InHand(c)'
    BY <1>1, <1>4, <2>1, <2>2, <2>3 DEF InHand, VersionOf
  <2> QED BY <2>4 DEF Origin
<1> QED BY <1>2, <1>3, <1>4 DEF Origin

\* What a request leaves of its own document has an origin, or it is leaky.
LEMMA OriginOwn ==
  ASSUME IInv, ResidueInv, NEW p \in Procs, pc[p] # "idle",
         Lock(p) \/ EnterLimiter(p) \/ Progress(p) \/ Fails(p),
         NEW c \in vec' \cup lex', c.doc = job[p].doc, c.doc \notin leaky'
  PROVE  Origin(c)'
<1> USE DEF IInv, TypeOK, LockInv, RecordInv, RemovalInv, Step, Steps, Modes, Holding,
            Reading, Writing, Purging, Removing, Target, BatchOf, VersionOf, Recorded,
            MatchesIndex, Searchable, UpToDate
<1>1. c \in vec \cup lex /\ c.doc \notin leaky => Origin(c)
  BY DEF ResidueInv, Origin
<1> USE DEF Origin, InHand
<1>2. CASE Lock(p)
  BY <1>1, <1>2 DEF Lock
<1>3. CASE GetForIngest(p)
  BY <1>1, <1>3 DEF GetForIngest
<1>4. CASE GetForDelete(p)
  BY <1>1, <1>4 DEF GetForDelete
<1>5. CASE NothingToDo(p)
  BY <1>1, <1>5 DEF NothingToDo, Release
<1>6. CASE GetFails(p)
  BY <1>1, <1>6 DEF GetFails, Fault, Release
<1>7. CASE EnterLimiter(p)
  BY <1>1, <1>7 DEF EnterLimiter
<1>8. CASE Extract(p)
  BY <1>1, <1>8 DEF Extract
<1>9. CASE ExtractFails(p)
  BY <1>1, <1>9 DEF ExtractFails, Release
<1>10. CASE AddVec(p)
  BY <1>1, <1>10 DEF AddVec
<1>11. CASE AddVecFails(p)
  BY <1>1, <1>11 DEF AddVecFails, Fault
<1>12. CASE AddLex(p)
  BY <1>1, <1>12 DEF AddLex
<1>13. CASE AddLexFails(p)
  BY <1>1, <1>13 DEF AddLexFails, Fault
<1>14. CASE Commit(p)
  BY <1>1, <1>14 DEF Commit, NeedsPurge
<1>15. CASE CommitFails(p)
  BY <1>1, <1>15 DEF CommitFails, Fault
<1>16. CASE UndoVec(p)
  BY <1>1, <1>16 DEF UndoVec, DropVersion
<1>17. CASE UndoVecFails(p)
  BY <1>1, <1>17 DEF UndoVecFails, Fault, Leak
<1>18. CASE UndoLex(p)
  BY <1>1, <1>18 DEF UndoLex, Release, DropVersion
<1>19. CASE UndoLexFails(p)
  BY <1>1, <1>19 DEF UndoLexFails, Fault, Release, Leak
<1>20. CASE PurgeVec(p)
  BY <1>1, <1>20 DEF PurgeVec, Purged, DropRevision, DropSignature, NeedsPurge
<1>21. CASE PurgeVecFails(p)
  BY <1>1, <1>21 DEF PurgeVecFails, Fault, Leak
<1>22. CASE PurgeLex(p)
  BY <1>1, <1>22 DEF PurgeLex, Purged, DropRevision, DropSignature, NeedsPurge
<1>23. CASE PurgeLexFails(p)
  BY <1>1, <1>23 DEF PurgeLexFails, Fault, Leak
<1>24. CASE DropVec(p)
  BY <1>1, <1>24 DEF DropVec, DropDoc
<1>25. CASE DropVecFails(p)
  BY <1>1, <1>25 DEF DropVecFails, Fault, Release
<1>26. CASE DropLex(p)
  BY <1>1, <1>26 DEF DropLex, DropDoc
<1>27. CASE DropLexFails(p)
  BY <1>1, <1>27 DEF DropLexFails, Fault, Release
<1>28. CASE DropRecord(p)
  BY <1>1, <1>28 DEF DropRecord
<1>29. CASE DropRecordFails(p)
  BY <1>1, <1>29 DEF DropRecordFails, Fault, Release
<1>30. CASE ForgetDocAnswers(p)
  BY <1>1, <1>30 DEF ForgetDocAnswers
<1>31. CASE Reply(p)
  BY <1>1, <1>31 DEF Reply, Release
<1> QED
  BY <1>2, <1>3, <1>4, <1>5, <1>6, <1>7, <1>8, <1>9, <1>10, <1>11, <1>12, <1>13,
     <1>14, <1>15, <1>16, <1>17, <1>18, <1>19, <1>20, <1>21, <1>22, <1>23,
     <1>24, <1>25, <1>26, <1>27, <1>28, <1>29, <1>30, <1>31 DEF Progress, Fails

\* Every step of a request keeps every chunk's origin.
LEMMA RequestResidue ==
  ASSUME IInv, ResidueInv, NEW p \in Procs, pc[p] # "idle",
         Lock(p) \/ EnterLimiter(p) \/ Progress(p) \/ Fails(p)
  PROVE  ResidueInv'
<1> USE DEF IInv, TypeOK, LockInv, Step, Steps, Modes, Holding, Purging, Removing
<1>0. job[p].doc \in Docs
  OBVIOUS
<1> PICK D \in Docs : D = job[p].doc
  BY <1>0
<1>1. \A d \in Docs : d # D => owner[d] # p
  OBVIOUS
<1>2. \A c \in vec' \cup lex' : c.doc = D /\ D \notin leaky' => Origin(c)'
  BY OriginOwn
<1>3. pc[p] \in {"addVec", "addLex"} =>
         LET c == BatchOf(Target(p), stored[p] + 1) IN c \in Chunk /\ c.doc = D
  <2>1. pc[p] \in {"addVec", "addLex"} => stored[p] < Batches
    BY DEF WrittenInv
  <2>2. stored[p] \in 0..Batches
    OBVIOUS
  <2>3. pc[p] \in {"addVec", "addLex"} => stored[p] + 1 \in 1..Batches
    BY ONLY <2>1, <2>2, BatchesAssumption
  <2> QED BY <2>3 DEF BatchOf, Target, Reading
<1>4. \A c : VersionOf(c) = Target(p) => c.doc = D
  BY DEF VersionOf, Target
<1>5. ASSUME Lock(p) PROVE Frame(p, D)
  BY <1>1, <1>5 DEF Frame, Lock
<1>6. ASSUME GetForIngest(p) PROVE Frame(p, D)
  BY <1>1, <1>6 DEF Frame, GetForIngest
<1>7. ASSUME GetForDelete(p) PROVE Frame(p, D)
  BY <1>1, <1>7 DEF Frame, GetForDelete
<1>8. ASSUME NothingToDo(p) PROVE Frame(p, D)
  BY <1>1, <1>8 DEF Frame, NothingToDo, Release
<1>9. ASSUME GetFails(p) PROVE Frame(p, D)
  BY <1>1, <1>9 DEF Frame, GetFails, Fault, Release
<1>10. ASSUME EnterLimiter(p) PROVE Frame(p, D)
  BY <1>1, <1>10 DEF Frame, EnterLimiter
<1>11. ASSUME Extract(p) PROVE Frame(p, D)
  BY <1>1, <1>11 DEF Frame, Extract
<1>12. ASSUME ExtractFails(p) PROVE Frame(p, D)
  BY <1>1, <1>12 DEF Frame, ExtractFails, Release
<1>13. ASSUME AddVec(p) PROVE Frame(p, D)
  BY <1>1, <1>3, <1>13 DEF Frame, AddVec
<1>14. ASSUME AddVecFails(p) PROVE Frame(p, D)
  BY <1>1, <1>14 DEF Frame, AddVecFails, Fault
<1>15. ASSUME AddLex(p) PROVE Frame(p, D)
  BY <1>1, <1>3, <1>15 DEF Frame, AddLex
<1>16. ASSUME AddLexFails(p) PROVE Frame(p, D)
  BY <1>1, <1>16 DEF Frame, AddLexFails, Fault
<1>17. ASSUME Commit(p) PROVE Frame(p, D)
  BY <1>1, <1>17 DEF Frame, Commit
<1>18. ASSUME CommitFails(p) PROVE Frame(p, D)
  BY <1>1, <1>18 DEF Frame, CommitFails, Fault
<1>19. ASSUME UndoVec(p) PROVE Frame(p, D)
  BY <1>1, <1>4, <1>19 DEF Frame, UndoVec, DropVersion
<1>20. ASSUME UndoVecFails(p) PROVE Frame(p, D)
  BY <1>1, <1>20 DEF Frame, UndoVecFails, Fault, Leak
<1>21. ASSUME UndoLex(p) PROVE Frame(p, D)
  BY <1>1, <1>4, <1>21 DEF Frame, UndoLex, Release, DropVersion
<1>22. ASSUME UndoLexFails(p) PROVE Frame(p, D)
  BY <1>1, <1>22 DEF Frame, UndoLexFails, Fault, Release, Leak
<1>23. ASSUME PurgeVec(p) PROVE Frame(p, D)
  BY <1>1, <1>23 DEF Frame, PurgeVec, Purged, DropRevision, DropSignature
<1>24. ASSUME PurgeVecFails(p) PROVE Frame(p, D)
  BY <1>1, <1>24 DEF Frame, PurgeVecFails, Fault, Leak
<1>25. ASSUME PurgeLex(p) PROVE Frame(p, D)
  BY <1>1, <1>25 DEF Frame, PurgeLex, Purged, DropRevision, DropSignature
<1>26. ASSUME PurgeLexFails(p) PROVE Frame(p, D)
  BY <1>1, <1>26 DEF Frame, PurgeLexFails, Fault, Leak
<1>27. ASSUME DropVec(p) PROVE Frame(p, D)
  BY <1>1, <1>27 DEF Frame, DropVec, DropDoc
<1>28. ASSUME DropVecFails(p) PROVE Frame(p, D)
  BY <1>1, <1>28 DEF Frame, DropVecFails, Fault, Release
<1>29. ASSUME DropLex(p) PROVE Frame(p, D)
  BY <1>1, <1>29 DEF Frame, DropLex, DropDoc
<1>30. ASSUME DropLexFails(p) PROVE Frame(p, D)
  BY <1>1, <1>30 DEF Frame, DropLexFails, Fault, Release
<1>31. ASSUME DropRecord(p) PROVE Frame(p, D)
  BY <1>1, <1>31 DEF Frame, DropRecord
<1>32. ASSUME DropRecordFails(p) PROVE Frame(p, D)
  BY <1>1, <1>32 DEF Frame, DropRecordFails, Fault, Release
<1>33. ASSUME ForgetDocAnswers(p) PROVE Frame(p, D)
  BY <1>1, <1>33 DEF Frame, ForgetDocAnswers
<1>34. ASSUME Reply(p) PROVE Frame(p, D)
  BY <1>1, <1>34 DEF Frame, Reply, Release
<1>35. Frame(p, D)
  BY <1>5, <1>6, <1>7, <1>8, <1>9, <1>10, <1>11, <1>12, <1>13, <1>14, <1>15,
     <1>16, <1>17, <1>18, <1>19, <1>20, <1>21, <1>22, <1>23, <1>24, <1>25,
     <1>26, <1>27, <1>28, <1>29, <1>30, <1>31, <1>32, <1>33, <1>34 DEF Progress,
     Fails
<1> QED BY <1>2, <1>35, OriginFrame

\* So does the arrival of a request, which holds no lock yet.
LEMMA AcceptResidue ==
  ASSUME IInv, ResidueInv, NEW p \in Procs, NEW j \in Job, Accept(p, j)
  PROVE  ResidueInv'
<1> USE DEF IInv, TypeOK, LockInv, Step, Holding, Accept
<1>1. j.doc \in Docs /\ (\A d \in Docs : owner[d] # p)
  OBVIOUS
<1>2. \A c \in vec' \cup lex' : c.doc = j.doc /\ j.doc \notin leaky' => Origin(c)'
  <2> SUFFICES ASSUME NEW c \in vec \cup lex, c.doc = j.doc, j.doc \notin leaky
               PROVE  Origin(c)'
    OBVIOUS
  <2>1. Origin(c)
    BY DEF ResidueInv, Origin
  <2>2. CASE InHand(c)
    <3>1. owner[c.doc] \in Procs /\ owner[c.doc] # p
      BY <1>1, <2>2 DEF InHand
    <3> PICK q \in Procs : q = owner[c.doc] /\ q # p
      BY <3>1
    <3> QED BY <2>2 DEF Origin, InHand, Target, VersionOf
  <2>3. CASE registry[c.doc] # NoDoc /\ VersionOf(c) = Recorded(c.doc)
    BY <2>3 DEF Origin, Recorded, VersionOf
  <2> QED BY <2>1, <2>2, <2>3 DEF Origin
<1>3. Frame(p, j.doc)
  BY <1>1 DEF Frame
<1> QED BY <1>1, <1>2, <1>3, OriginFrame

\* Where the residue of an interrupted request goes, and what the start-up
\* reconciliation has still to sweep.
LEMMA StartupResidue ==
  ASSUME IInv, ResidueInv, Crash \/ Reconcile \/ ReconcileFails
  PROVE  ResidueInv'
<1> DEFINE Listed(c) == \/ MatchesIndex(registry[c.doc]) /\ VersionOf(c) = Recorded(c.doc)
                        \/ VersionOf(c) \in toSweep
                        \/ mode = "sweepLex" /\ VersionOf(c) = hand /\ c \notin vec
           Tidying == {"tidying", "staleLex", "staleRecord", "sweepLex"}
<1> USE DEF IInv, TypeOK, StartupInv, Modes
<1>1. mode # "up" => \A d \in Docs : owner[d] = Free
  BY DEF LockInv, Holding
<1>2. \A c \in vec \cup lex : c \in Chunk /\ c.doc \in Docs
  OBVIOUS
<1>3. \A c \in vec \cup lex : c.doc \notin leaky /\ owner[c.doc] = Free =>
         registry[c.doc] # NoDoc /\ VersionOf(c) = Recorded(c.doc)
  BY DEF ResidueInv, InHand
<1>4. mode \in Tidying => \A c \in vec \cup lex : Listed(c)
  BY DEF ResidueInv
<1>5. ASSUME mode # "up", vec' \subseteq vec, lex' \subseteq lex, leaky' = leaky,
             \A d \in Docs : registry[d] # NoDoc => /\ registry'[d] # NoDoc
                                                     /\ registry'[d].rev = registry[d].rev
                                                     /\ registry'[d].sig = registry[d].sig
      PROVE  \A c \in vec' \cup lex' : c.doc \notin leaky' => Origin(c)'
  BY <1>1, <1>2, <1>3, <1>5 DEF Origin, Recorded
<1>6. CASE Crash
  <2>1. \A d \in Docs : d \notin leaky' => d \notin leaky /\ owner[d] = Free
    BY <1>6 DEF Crash
  <2>2. \A c \in vec' \cup lex' : c.doc \notin leaky' => Origin(c)'
    BY <1>2, <1>3, <1>6, <2>1 DEF Crash, Origin, Recorded
  <2> QED BY <1>6, <2>2 DEF Crash, ResidueInv, Origin
<1>7. CASE List
  <2>1. \A c \in vec \cup lex : VersionOf(c) \in toSweep'
            \/ \E d \in Docs : MatchesIndex(registry[d]) /\ VersionOf(c) = Recorded(d)
    BY <1>7 DEF List
  <2>2. \A c, d : VersionOf(c) = Recorded(d) => c.doc = d
    BY DEF VersionOf, Recorded
  <2>3. \A c \in vec' \cup lex' : Listed(c)'
    BY <1>7, <2>1, <2>2 DEF List, MatchesIndex, Recorded
  <2>4. \A c \in vec' \cup lex' : c.doc \notin leaky' => Origin(c)'
    BY <1>5, <1>7 DEF List
  <2> QED BY <2>3, <2>4 DEF ResidueInv, Origin
<1>8. CASE \E d \in Docs : StaleVec(d)
  <2> PICK d \in Docs : StaleVec(d)
    BY <1>8
  <2>1. \A c \in vec' \cup lex' : c.doc \notin leaky' => Origin(c)'
    BY <1>5 DEF StaleVec, DropDoc
  <2>2. \A c \in vec' \cup lex' : Listed(c)'
    BY <1>4 DEF StaleVec, DropDoc, MatchesIndex, Recorded
  <2> QED BY <2>1, <2>2 DEF ResidueInv, Origin
<1>9. CASE StaleLex
  <2>1. \A c \in vec' \cup lex' : c.doc \notin leaky' => Origin(c)'
    BY <1>5, <1>9 DEF StaleLex, DropDoc
  <2>2. \A c \in vec' \cup lex' : Listed(c)'
    BY <1>4, <1>9 DEF StaleLex, DropDoc, MatchesIndex, Recorded
  <2> QED BY <2>1, <2>2 DEF ResidueInv, Origin
<1>10. CASE StaleRecord
  <2>1. hand \in Docs /\ registry[hand] \in Record /\ registry[hand].sig # sig
    BY <1>10 DEF StaleRecord, MatchesIndex
  <2>2. /\ \A d \in Docs : d # hand => registry'[d] = registry[d]
        /\ registry'[hand] = [registry[hand] EXCEPT !.status = "stale", !.count = 0]
    BY <1>10, <2>1 DEF StaleRecord
  <2>3. /\ registry'[hand] # NoDoc /\ registry'[hand].rev = registry[hand].rev
        /\ registry'[hand].sig = registry[hand].sig
    <3>1. registry'[hand] \in Record
      BY <2>1, <2>2, EmptiedRecord
    <3> QED BY <2>1, <2>2, <3>1
  <2>4. \A c \in vec' \cup lex' : c.doc \notin leaky' => Origin(c)'
    BY <1>5, <1>10, <2>2, <2>3 DEF StaleRecord
  <2>5. \A c \in vec' \cup lex' : Listed(c)'
    BY <1>2, <1>4, <1>10, <2>1, <2>2, <2>3 DEF StaleRecord, MatchesIndex, Recorded
  <2> QED BY <2>4, <2>5 DEF ResidueInv, Origin
<1>11. CASE \E v \in Version : SweepVec(v)
  <2> PICK v \in Version : SweepVec(v)
    BY <1>11
  <2>1. \A c \in vec' \cup lex' : c.doc \notin leaky' => Origin(c)'
    BY <1>5 DEF SweepVec, DropVersion
  <2>2. \A c \in vec' \cup lex' : Listed(c)'
    BY <1>4 DEF SweepVec, DropVersion, MatchesIndex, Recorded
  <2> QED BY <2>1, <2>2 DEF ResidueInv, Origin
<1>12. CASE SweepLex
  <2>1. \A c \in vec' \cup lex' : c.doc \notin leaky' => Origin(c)'
    BY <1>5, <1>12 DEF SweepLex, DropVersion
  <2>2. \A c \in vec' \cup lex' : Listed(c)'
    BY <1>4, <1>12 DEF SweepLex, DropVersion, MatchesIndex, Recorded
  <2> QED BY <2>1, <2>2 DEF ResidueInv, Origin
<1>13. CASE Reconciled
  <2>1. \A c \in vec' \cup lex' : Origin(c)'
    BY <1>2, <1>4, <1>13 DEF Reconciled, Origin, MatchesIndex, Recorded
  <2> QED BY <1>13, <2>1 DEF Reconciled, ResidueInv, Origin
<1>14. CASE ReconcileFails
  <2>1. \A c \in vec' \cup lex' : c.doc \notin leaky' => Origin(c)'
    BY <1>5, <1>14 DEF ReconcileFails
  <2> QED BY <1>14, <2>1 DEF ReconcileFails, ResidueInv, Origin
<1> QED BY <1>6, <1>7, <1>8, <1>9, <1>10, <1>11, <1>12, <1>13, <1>14 DEF Reconcile

\* Every step keeps the origin of every chunk.
LEMMA StepResidue == IInv /\ ResidueInv /\ [Next]_vars => ResidueInv'
<1> SUFFICES ASSUME IInv, ResidueInv, [Next]_vars PROVE ResidueInv'
  OBVIOUS
<1>1. ASSUME NEW p \in Procs, Arrive(p) PROVE ResidueInv'
  BY <1>1, AcceptResidue DEF Arrive
<1>2. ASSUME NEW p \in Procs, Lock(p) \/ EnterLimiter(p) \/ Progress(p) \/ Fails(p)
      PROVE  ResidueInv'
  <2>1. pc[p] # "idle"
    BY <1>2 DEF Step, Lock, EnterLimiter, Progress, GetForIngest, GetForDelete, NothingToDo,
       Extract, ExtractFails, AddVec, AddLex, Commit, UndoVec, UndoLex, PurgeVec, PurgeLex,
       DropVec, DropLex, DropRecord, ForgetDocAnswers, Reply, Fails, GetFails, AddVecFails,
       AddLexFails, CommitFails, UndoVecFails, UndoLexFails, PurgeVecFails, PurgeLexFails,
       DropVecFails, DropLexFails, DropRecordFails
  <2> QED BY <1>2, <2>1, RequestResidue
<1>3. CASE UNCHANGED vars
  BY <1>3 DEF vars, ResidueInv, InHand, VersionOf, Recorded, Target, MatchesIndex
<1> QED BY <1>1, <1>2, <1>3, StartupResidue DEF Next

\* A stored chunk that is not of its document's recorded version has a cause: a
\* request at work on the document, or a clean-up that failed or was cut off
\* since the last complete start-up reconciliation.
THEOREM ResidueHasCause == Spec => []ResidueOnlyAfterLeak
<1>1. Init => ResidueInv
  BY DEF Init, ResidueInv
<1>2. IInv /\ ResidueInv => ResidueOnlyAfterLeak
  BY DEF IInv, TypeOK, ResidueInv, InHand, ResidueOnlyAfterLeak
<1>3. Spec => []ResidueInv
  BY InductiveInvariant, StepResidue, <1>1, PTL DEF Spec
<1> QED BY InductiveInvariant, <1>2, <1>3, PTL

=============================================================================
