-------------------------- MODULE AnswerCacheProofs --------------------------
(***************************************************************************)
(* Theorems about AnswerCache for every set of documents, revisions,       *)
(* questions and requests, and whatever searches find and answers need.    *)
(***************************************************************************)
EXTENDS AnswerCache, TLAPS

USE NearAssumption, FindsAssumption, NoRevAssumption, NoEntryAssumption, NoOneAssumption
USE DEF documents, redis, askers, writers, counters, history, Version, Entry, AskerSteps, WriterSteps

\* The first state, with any documents in the registry and an empty cache.
LEMMA InitInv == Init => IInv
  BY DEF Init, IInv, TypeOK, RequestInv, CurrentInv

\* Every step of a request keeps the shape of the state and its question.
LEMMA AskerType ==
  ASSUME TypeOK, RequestInv, NEW a \in Askers, AskerStep(a)
  PROVE  TypeOK' /\ RequestInv'
<1> USE DEF TypeOK, RequestInv, Go, Drop, Leave, Fault, CurrentVersions
<1>1. ASSUME NEW q \in Questions, Ask(a, q) PROVE TypeOK' /\ RequestInv'
  BY <1>1 DEF Ask, QuietWriters
<1>2. CASE ExactHit(a)
  BY <1>2 DEF ExactHit, TakeEntry
<1>3. CASE ExactMiss(a)
  BY <1>3 DEF ExactMiss
<1>4. CASE NearHit(a)
  BY <1>4 DEF NearHit, TakeEntry
<1>5. CASE NearMiss(a)
  BY <1>5 DEF NearMiss
<1>6. CASE LookupFails(a)
  BY <1>6 DEF LookupFails
<1>7. ASSUME NEW v \in Version, Verify(a, v) PROVE TypeOK' /\ RequestInv'
  BY <1>7 DEF Verify
<1>8. ASSUME NEW v \in Version, Check(a, v) PROVE TypeOK' /\ RequestInv'
  BY <1>8 DEF Check
<1>9. CASE VerifyFails(a)
  BY <1>9 DEF VerifyFails
<1>10. CASE Discard(a)
  BY <1>10 DEF Discard
<1>11. CASE DiscardFails(a)
  BY <1>11 DEF DiscardFails
<1>12. CASE Replay(a)
  BY <1>12 DEF Replay
<1>13. CASE List(a)
  BY <1>13 DEF List
<1>14. CASE Retrieve(a)
  BY <1>14 DEF Retrieve
<1>20. CASE RetrievePartly(a)
  BY <1>20 DEF RetrievePartly
<1>15. CASE SearchFails(a)
  BY <1>15 DEF SearchFails
<1>16. CASE Generate(a)
  BY <1>16 DEF Generate
<1>17. CASE GenerateFails(a)
  BY <1>17 DEF GenerateFails
<1>18. CASE Store(a)
  BY <1>18 DEF Store
<1>19. CASE NotStored(a)
  BY <1>19 DEF NotStored
<1> QED
  BY <1>1, <1>2, <1>3, <1>4, <1>5, <1>6, <1>7, <1>8, <1>9, <1>10, <1>11, <1>12, <1>13,
     <1>14, <1>15, <1>16, <1>17, <1>18, <1>19, <1>20 DEF AskerStep

\* So does every step of a change to a document.
LEMMA WriterType ==
  ASSUME TypeOK, RequestInv, NEW w \in Writers, WriterStep(w)
  PROVE  TypeOK' /\ RequestInv'
<1> USE DEF TypeOK, RequestInv, WGo, Finish, Fault, Begin
<1>1. ASSUME NEW d \in Docs, NEW r \in Revs, Commit(w, d, r) PROVE TypeOK' /\ RequestInv'
  BY <1>1 DEF Commit
<1>9. ASSUME NEW d \in Docs, Delete(w, d) PROVE TypeOK' /\ RequestInv'
  BY <1>9 DEF Delete
<1>10. CASE CommitDeletion(w)
  BY <1>10 DEF CommitDeletion
<1>11. CASE DeletionFails(w)
  BY <1>11 DEF DeletionFails
<1>2. CASE ReadDocTags(w)
  BY <1>2 DEF ReadDocTags
<1>3. CASE Forget(w)
  BY <1>3 DEF Forget
<1>4. CASE ClearDocTags(w)
  BY <1>4 DEF ClearDocTags
<1>5. CASE InvalidateDocFails(w)
  <2>1. CASE upload[w]
    BY <1>5, <2>1 DEF InvalidateDocFails
  <2>2. CASE ~upload[w]
    <3>1. TypeOK'
      <4>1. sound' \subseteq Questions
        BY <1>5 DEF InvalidateDocFails
      <4>2. /\ target' \in [Writers -> Docs \cup {NoOne}] /\ upload' \in [Writers -> BOOLEAN]
            /\ tagged' \in [Writers -> SUBSET Questions] /\ wpc' \in [Writers -> WriterSteps]
        BY <1>5, <2>2 DEF InvalidateDocFails
      <4>3. faults' \in Nat /\ UNCHANGED <<documents, redis, askers, asks, changes, seen, calm, partial>>
        BY <1>5 DEF InvalidateDocFails
      <4> QED BY <4>1, <4>2, <4>3
    <3>2. wpc' = [wpc EXCEPT ![w] = "idle"] /\ target' = [target EXCEPT ![w] = NoOne]
      BY <1>5, <2>2 DEF InvalidateDocFails
    <3>3. UNCHANGED <<apc, question>>
      BY <1>5 DEF InvalidateDocFails
    <3> QED BY <3>1, <3>2, <3>3
  <2> QED BY <2>1, <2>2
<1>6. CASE ReadNegTags(w)
  BY <1>6 DEF ReadNegTags
<1>7. CASE ClearNegTags(w)
  BY <1>7 DEF ClearNegTags
<1>8. CASE InvalidateNegFails(w)
  BY <1>8 DEF InvalidateNegFails
<1> QED
  BY <1>1, <1>2, <1>3, <1>4, <1>5, <1>6, <1>7, <1>8, <1>9, <1>10, <1>11 DEF WriterStep

\* A request takes its material in hand with everything current seen, and only
\* what it finds current is taken off the list of what is to be checked.
LEMMA AskerCurrent ==
  ASSUME IInv, NEW a \in Askers, AskerStep(a)
  PROVE  CurrentInv'
<1> USE DEF IInv, TypeOK, RequestInv, CurrentInv, Go, Drop, Leave, CurrentVersions, Current
<1>1. ASSUME NEW q \in Questions, Ask(a, q) PROVE CurrentInv'
  BY <1>1 DEF Ask
<1>2. ASSUME NEW f \in Questions, TakeEntry(a, f), Go(a, "exact", "verify") \/ Go(a, "near", "verify")
      PROVE  CurrentInv'
  BY <1>2 DEF TakeEntry
<1>3. CASE ExactHit(a)
  BY <1>3, <1>2 DEF ExactHit
<1>4. CASE ExactMiss(a)
  BY <1>4 DEF ExactMiss
<1>5. CASE NearHit(a)
  BY <1>5, <1>2 DEF NearHit
<1>6. CASE NearMiss(a)
  BY <1>6 DEF NearMiss
<1>7. CASE LookupFails(a)
  BY <1>7 DEF LookupFails
<1>8. ASSUME NEW v \in Version, Verify(a, v) PROVE CurrentInv'
  BY <1>8 DEF Verify
<1>9. ASSUME NEW v \in Version, Check(a, v) PROVE CurrentInv'
  BY <1>9 DEF Check
<1>10. CASE VerifyFails(a)
  BY <1>10 DEF VerifyFails
<1>11. CASE Discard(a)
  BY <1>11 DEF Discard
<1>12. CASE DiscardFails(a)
  BY <1>12 DEF DiscardFails
<1>13. CASE Replay(a)
  BY <1>13 DEF Replay
<1>14. CASE List(a)
  BY <1>14 DEF List
<1>15. CASE Retrieve(a) \/ RetrievePartly(a)
  BY <1>15 DEF Retrieve, RetrievePartly
<1>16. CASE SearchFails(a)
  BY <1>16 DEF SearchFails
<1>17. CASE Generate(a)
  BY <1>17 DEF Generate
<1>18. CASE GenerateFails(a)
  BY <1>18 DEF GenerateFails
<1>19. CASE Store(a)
  BY <1>19 DEF Store
<1>20. CASE NotStored(a)
  BY <1>20 DEF NotStored
<1> QED
  BY <1>1, <1>3, <1>4, <1>5, <1>6, <1>7, <1>8, <1>9, <1>10, <1>11, <1>12, <1>13,
     <1>14, <1>15, <1>16, <1>17, <1>18, <1>19, <1>20 DEF AskerStep

\* A commit shows its version to every request that has material in hand; the
\* invalidation that follows touches no request.
LEMMA WriterCurrent ==
  ASSUME IInv, NEW w \in Writers, WriterStep(w)
  PROVE  CurrentInv'
<1> USE DEF IInv, TypeOK, RequestInv, CurrentInv, CurrentVersions, Current
<1>1. ASSUME NEW d \in Docs, NEW r \in Revs, Commit(w, d, r) PROVE CurrentInv'
  <2> SUFFICES ASSUME NEW a \in Askers
               PROVE  /\ apc'[a] \in {"verify", "check", "store"} =>
                            CurrentVersions' \subseteq seen'[a]
                      /\ seen[a] \subseteq seen'[a]
    BY <1>1 DEF Commit
  <2>1. seen[a] \subseteq seen'[a]
    BY <1>1 DEF Commit
  <2>2. ASSUME apc'[a] \in {"verify", "check", "store"}, NEW v \in Version, content'[v.doc] = v.rev
        PROVE  v \in seen'[a]
    <3>1. CASE v.doc # d
      BY <1>1, <2>1, <2>2, <3>1 DEF Commit
    <3>2. CASE v.doc = d
      <4>1. v = [doc |-> d, rev |-> r]
        BY <1>1, <2>2, <3>2 DEF Commit
      <4> QED BY <1>1, <2>2, <4>1 DEF Commit
    <3> QED BY <3>1, <3>2
  <2> QED BY <2>1, <2>2
<1>2. ASSUME UNCHANGED <<content, askers, seen>> PROVE CurrentInv'
  BY <1>2
<1>3. CASE CommitDeletion(w)
  <2>1. UNCHANGED <<askers, seen>> /\ content' = [content EXCEPT ![target[w]] = NoRev]
    BY <1>3 DEF CommitDeletion
  <2>2. CurrentVersions' \subseteq CurrentVersions
    BY <2>1
  <2> QED BY <2>1, <2>2
<1> QED
  BY <1>1, <1>2, <1>3 DEF WriterStep, Delete, DeletionFails, ReadDocTags, Forget, ClearDocTags,
                    InvalidateDocFails, ReadNegTags, ClearNegTags, InvalidateNegFails

\* Every step keeps the invariant.
LEMMA StepInv == IInv /\ [Next]_vars => IInv'
<1> SUFFICES ASSUME IInv, [Next]_vars PROVE IInv'
  OBVIOUS
<1>1. ASSUME NEW a \in Askers, AskerStep(a) PROVE IInv'
  BY <1>1, AskerType, AskerCurrent DEF IInv
<1>2. ASSUME NEW w \in Writers, WriterStep(w) PROVE IInv'
  BY <1>2, WriterType, WriterCurrent DEF IInv
<1>3. ASSUME NEW q \in Questions, Expire(q) PROVE IInv'
  BY <1>3 DEF IInv, TypeOK, RequestInv, CurrentInv, CurrentVersions, Current, Expire
<1>4. CASE UNCHANGED vars
  BY <1>4 DEF vars, IInv, TypeOK, RequestInv, CurrentInv, CurrentVersions, Current
<1> QED BY <1>1, <1>2, <1>3, <1>4 DEF Next

-----------------------------------------------------------------------------
\* The state of requests, changes and cache keeps its shape.
THEOREM TypeCorrect == Spec => []TypeOK
<1>1. IInv => TypeOK
  BY DEF IInv
<1> QED BY <1>1, InitInv, StepInv, PTL DEF Spec

\* No answer, replayed or generated, rests on a version that was replaced before
\* the entry was read or the search had its results: whatever stores came late,
\* whatever invalidations failed and whatever entries expired.
THEOREM NothingOutdated == Spec => []AnswersAreCurrent
<1>1. IInv => AnswersAreCurrent
  BY DEF IInv, TypeOK, CurrentInv, AnswersAreCurrent
<1> QED BY <1>1, InitInv, StepInv, PTL DEF Spec

-----------------------------------------------------------------------------
(* Entries that are counted on.                                            *)

LEMMA SoundInit == Init => SoundInv
<1> SUFFICES ASSUME Init PROVE SoundInv
  OBVIOUS
<1>1. Trusted = {} /\ \A a \in Askers : ~calm[a]
  BY DEF Init, Trusted
<1> QED BY <1>1, InitInv DEF SoundInv, CalmInv, TagInv, RightInv

\* What a request that arrives while all is quiet has in hand, step by step.
LEMMA AskerCalm ==
  ASSUME IInv, CalmInv, NEW a \in Askers, AskerStep(a)
  PROVE  CalmInv'
<1> USE DEF IInv, TypeOK, RequestInv, CurrentInv, CalmInv, Go, Drop, Leave, CurrentVersions, Current,
            Searchable, Material, QuietWriters
<1>1. ASSUME NEW q \in Questions, Ask(a, q) PROVE CalmInv'
  BY <1>1 DEF Ask
<1>2. ASSUME NEW f \in Questions, TakeEntry(a, f), Go(a, "exact", "verify") \/ Go(a, "near", "verify")
      PROVE  CalmInv'
  BY <1>2 DEF TakeEntry
<1>3. CASE ExactHit(a)
  BY <1>3, <1>2 DEF ExactHit
<1>4. CASE ExactMiss(a)
  BY <1>4 DEF ExactMiss
<1>5. CASE NearHit(a)
  BY <1>5, <1>2 DEF NearHit
<1>6. CASE NearMiss(a)
  BY <1>6 DEF NearMiss
<1>7. CASE LookupFails(a)
  BY <1>7 DEF LookupFails
<1>8. ASSUME NEW v \in Version, Verify(a, v) PROVE CalmInv'
  BY <1>8 DEF Verify
<1>9. ASSUME NEW v \in Version, Check(a, v) PROVE CalmInv'
  <2>1. /\ todo' = [todo EXCEPT ![a] = @ \ {v}] /\ apc' = [apc EXCEPT ![a] = "check"] /\ v \in todo[a]
        /\ sources' = [sources EXCEPT ![a] = IF Current(v) THEN @ \cup {v} ELSE @]
        /\ UNCHANGED <<documents, question, negative, wpc, calm, partial>> /\ apc[a] = "check"
    BY <1>9 DEF Check
  <2>2. calm[a] => Current(v)
    BY <2>1
  <2>3. ASSUME calm[a] PROVE sources'[a] \cup todo'[a] = sources[a] \cup todo[a]
    <3>1. sources'[a] = sources[a] \cup {v} /\ todo'[a] = todo[a] \ {v}
      BY <2>1, <2>2, <2>3
    <3> QED BY <2>1, <3>1
  <2> QED BY <2>1, <2>3
<1>10. CASE VerifyFails(a)
  BY <1>10 DEF VerifyFails
<1>11. CASE Discard(a)
  BY <1>11 DEF Discard
<1>12. CASE DiscardFails(a)
  BY <1>12 DEF DiscardFails
<1>13. CASE Replay(a)
  BY <1>13 DEF Replay
<1>14. CASE List(a)
  BY <1>14 DEF List
<1>15. CASE Retrieve(a)
  <2>1. PICK found \in SUBSET todo[a] :
           /\ \A v \in todo[a] : Searchable(v) => v \in found
           /\ todo' = [todo EXCEPT ![a] = found]
    BY <1>15 DEF Retrieve
  <2>2. /\ apc[a] = "retrieve" /\ apc' = [apc EXCEPT ![a] = "check"]
        /\ UNCHANGED <<documents, question, sources, negative, wpc, calm, partial>>
    BY <1>15 DEF Retrieve
  <2>3. sources[a] = {}
    BY <2>2
  <2>4. ASSUME calm[a], ~partial[a] PROVE Material(question[a]) \subseteq found
    BY <2>1, <2>2, <2>3, <2>4
  <2> QED BY <2>1, <2>2, <2>3, <2>4
<1>21. CASE RetrievePartly(a)
  BY <1>21 DEF RetrievePartly
<1>16. CASE SearchFails(a)
  BY <1>16 DEF SearchFails
<1>17. CASE Generate(a)
  <2>1. /\ apc[a] = "check" /\ todo[a] = {} /\ apc' = [apc EXCEPT ![a] = "store"]
        /\ UNCHANGED <<documents, question, sources, todo, wpc, calm, partial>>
        /\ \A b \in Askers : b # a => negative'[b] = negative[b]
    BY <1>17 DEF Generate
  <2>2. /\ negative \in [Askers -> BOOLEAN]
        /\ negative' = [negative EXCEPT ![a] = (sources[a] \cap Answers[question[a]] = {})]
    BY <1>17 DEF Generate
  <2>4. ASSUME negative'[a] PROVE sources[a] \cap Answers[question[a]] = {}
    <3>1. CASE sources[a] \cap Answers[question[a]] # {}
      <4>1. (sources[a] \cap Answers[question[a]] = {}) = FALSE
        BY ONLY <3>1, SMT
      <4>2. negative' = [negative EXCEPT ![a] = FALSE]
        BY ONLY <2>2, <4>1, Zenon
      <4> QED BY ONLY <2>2, <2>4, <4>2
    <3> QED BY ONLY <3>1
  <2>5. \A b \in Askers : apc'[b] = IF b = a THEN "store" ELSE apc[b]
    BY <2>1
  <2>6. ASSUME calm[a]
        PROVE  negative'[a] => sources[a] \cap Answers[question[a]] = {}
    BY ONLY <2>4
  <2> QED BY <2>1, <2>5, <2>6
<1>18. CASE GenerateFails(a)
  BY <1>18 DEF GenerateFails
<1>19. CASE Store(a)
  BY <1>19 DEF Store
<1>20. CASE NotStored(a)
  BY <1>20 DEF NotStored
<1> QED
  BY <1>1, <1>3, <1>4, <1>5, <1>6, <1>7, <1>8, <1>9, <1>10, <1>11, <1>12, <1>13,
     <1>14, <1>15, <1>16, <1>17, <1>18, <1>19, <1>20, <1>21 DEF AskerStep

\* Entries that go, or are no longer counted on, break nothing.
LEMMA Fewer ==
  ASSUME TagInv, RightInv, UNCHANGED <<documents, docTags, negTags, writers>>,
         \A q \in Trusted' : q \in Trusted /\ entries'[q] = entries[q]
  PROVE  TagInv' /\ RightInv'
<1>1. TagInv'
  BY DEF TagInv, Cites
<1>2. RightInv'
  BY DEF RightInv, Current, Searchable, Unanswerable, ForgetsDoc, ForgetsNegatives
<1> QED BY <1>1, <1>2

\* Nor does a step after which all that was to be removed still is.
LEMMA StillRight ==
  ASSUME RightInv, UNCHANGED documents,
         \A q \in Trusted' : q \in Trusted /\ entries'[q] = entries[q] /\ entries[q] \in Entry,
         \A x \in Writers, d \in Docs : ForgetsDoc(x, d) => ForgetsDoc(x, d)',
         \A x \in Writers : ForgetsNegatives(x) => ForgetsNegatives(x)'
  PROVE  RightInv'
<1>1. \A q \in Trusted' : \A v \in entries'[q].sources : Current(v)' \/ \E x \in Writers : ForgetsDoc(x, v.doc)'
  BY DEF RightInv, Current
<1>2. \A q \in Trusted' : entries'[q].negative =>
         Unanswerable(q)' \/ \E x \in Writers : ForgetsNegatives(x)'
  BY DEF RightInv, Current, Searchable, Unanswerable
<1> QED BY <1>1, <1>2 DEF RightInv

\* An entry stored in calm is right, and has its tags.
LEMMA StoreTrusted ==
  ASSUME SoundInv, NEW a \in Askers, Store(a)
  PROVE  TagInv' /\ RightInv'
<1>0. PICK q0, e0 : q0 = question[a] /\ e0 = [sources |-> sources[a], negative |-> negative[a]]
  OBVIOUS
<1>1. /\ q0 \in Questions /\ apc[a] = "store" /\ sources[a] \subseteq Version /\ negative[a] \in BOOLEAN
      /\ entries' = [entries EXCEPT ![q0] = e0]
      /\ sound' = IF calm[a] /\ ~(partial[a] /\ negative[a]) THEN sound \cup {q0} ELSE sound \ {q0}
      /\ UNCHANGED <<documents, writers>>
  BY <1>0 DEF SoundInv, IInv, TypeOK, RequestInv, Store, Go
<1>2. /\ \A d \in Docs : docTags[d] \subseteq docTags'[d] /\ ((\E v \in sources[a] : v.doc = d) => q0 \in docTags'[d])
      /\ negTags \subseteq negTags' /\ (negative[a] => q0 \in negTags')
  BY <1>0 DEF Store, SoundInv, IInv, TypeOK
<1>3. \A q \in Trusted' : q # q0 => q \in Trusted /\ entries'[q] = entries[q]
  BY <1>1 DEF Trusted, SoundInv, IInv, TypeOK
<1>4. q0 \in Trusted' => calm[a] /\ ~(partial[a] /\ negative[a]) /\ entries'[q0] = e0
  BY <1>1 DEF Trusted, SoundInv, IInv, TypeOK
<1>5. calm[a] => /\ QuietWriters /\ \A v \in sources[a] : Current(v)
                 /\ negative[a] /\ ~partial[a] => Unanswerable(q0)
  BY <1>0, <1>1 DEF SoundInv, IInv, TypeOK, CalmInv, Material, CurrentVersions, Current, Searchable, Unanswerable
<1>7. ASSUME NEW q \in Trusted', q # q0
      PROVE  /\ \A v \in entries'[q].sources : q \in docTags'[v.doc]
             /\ entries'[q].negative => q \in negTags'
             /\ \A w \in Writers :
                   /\ wpc'[w] = "forgetDoc" /\ Cites(entries'[q], target'[w]) => q \in tagged'[w]
                   /\ wpc'[w] = "clearDoc" => ~Cites(entries'[q], target'[w])
                   /\ wpc'[w] = "forgetNeg" /\ entries'[q].negative => q \in tagged'[w]
                   /\ wpc'[w] = "clearNeg" => ~entries'[q].negative
             /\ \A v \in entries'[q].sources : Current(v)' \/ \E w \in Writers : ForgetsDoc(w, v.doc)'
             /\ entries'[q].negative => Unanswerable(q)' \/ \E w \in Writers : ForgetsNegatives(w)'
  <2>1. q \in Trusted /\ entries'[q] = entries[q] /\ entries[q] \in Entry
    BY <1>3, <1>7 DEF Trusted, SoundInv, IInv, TypeOK
  <2>2. \A v \in entries[q].sources : q \in docTags[v.doc] /\ v.doc \in Docs
    BY <2>1 DEF SoundInv, TagInv
  <2>3. \A v \in entries'[q].sources : q \in docTags'[v.doc]
    BY <1>2, <2>1, <2>2
  <2>4. entries'[q].negative => q \in negTags'
    BY <1>2, <2>1 DEF SoundInv, TagInv
  <2>5. \A w \in Writers :
           /\ wpc'[w] = "forgetDoc" /\ Cites(entries'[q], target'[w]) => q \in tagged'[w]
           /\ wpc'[w] = "clearDoc" => ~Cites(entries'[q], target'[w])
           /\ wpc'[w] = "forgetNeg" /\ entries'[q].negative => q \in tagged'[w]
           /\ wpc'[w] = "clearNeg" => ~entries'[q].negative
    BY <1>1, <2>1 DEF SoundInv, TagInv
  <2>6. \A v \in entries'[q].sources : Current(v)' \/ \E w \in Writers : ForgetsDoc(w, v.doc)'
    BY <1>1, <2>1 DEF SoundInv, RightInv, Current, ForgetsDoc
  <2>7. entries'[q].negative => Unanswerable(q)' \/ \E w \in Writers : ForgetsNegatives(w)'
    BY <1>1, <2>1 DEF SoundInv, RightInv, Current, Searchable, Unanswerable, ForgetsNegatives
  <2> QED BY <2>3, <2>4, <2>5, <2>6, <2>7
<1>8. ASSUME q0 \in Trusted'
      PROVE  /\ \A v \in entries'[q0].sources : q0 \in docTags'[v.doc] /\ Current(v)'
             /\ entries'[q0].negative => q0 \in negTags' /\ Unanswerable(q0)'
             /\ \A w \in Writers : wpc'[w] = "idle"
  <2>1. /\ calm[a] /\ ~(partial[a] /\ negative[a])
        /\ entries'[q0].sources = sources[a] /\ entries'[q0].negative = negative[a]
    BY <1>0, <1>4, <1>8
  <2>2. \A v \in sources[a] : v.doc \in Docs
    BY <1>1
  <2>3. \A w \in Writers : wpc'[w] = "idle"
    BY <1>1, <1>5, <2>1 DEF QuietWriters
  <2>4. \A v \in sources[a] : q0 \in docTags'[v.doc] /\ Current(v)'
    BY <1>1, <1>2, <1>5, <2>1, <2>2 DEF Current
  <2>5. negative[a] => q0 \in negTags'
    BY <1>2
  <2>6. Unanswerable(q0)' <=> Unanswerable(q0)
    BY <1>1 DEF Current, Searchable, Unanswerable
  <2> QED BY <1>5, <2>1, <2>3, <2>4, <2>5, <2>6
<1>9. TagInv'
  BY <1>7, <1>8 DEF TagInv
<1>10. RightInv'
  <2>1. \A q \in Trusted' : \A v \in entries'[q].sources : Current(v)' \/ \E w \in Writers : ForgetsDoc(w, v.doc)'
    BY <1>7, <1>8
  <2>2. \A q \in Trusted' : entries'[q].negative =>
           Unanswerable(q)' \/ \E w \in Writers : ForgetsNegatives(w)'
    BY <1>7, <1>8
  <2> QED BY <2>1, <2>2 DEF RightInv
<1> QED BY <1>9, <1>10

LEMMA AskerTrusted ==
  ASSUME SoundInv, NEW a \in Askers, AskerStep(a)
  PROVE  TagInv' /\ RightInv'
<1> USE DEF SoundInv
<1>1. ASSUME UNCHANGED <<documents, redis, writers, sound>> PROVE TagInv' /\ RightInv'
  BY <1>1, Fewer DEF Trusted
<1>2. CASE Discard(a)
  <2>1. UNCHANGED <<documents, docTags, negTags, writers, sound>> /\ entries' = [entries EXCEPT ![hit[a]] = NoEntry]
    BY <1>2 DEF Discard
  <2>2. \A q \in Trusted' : q \in Trusted /\ entries'[q] = entries[q]
    BY <2>1 DEF Trusted, IInv, TypeOK
  <2> QED BY <2>1, <2>2, Fewer
<1>3. CASE Store(a)
  BY <1>3, StoreTrusted
<1>4. CASE \/ \E q \in Questions : Ask(a, q)
           \/ ExactHit(a) \/ ExactMiss(a) \/ NearHit(a) \/ NearMiss(a) \/ LookupFails(a)
  BY <1>1, <1>4 DEF Ask, ExactHit, ExactMiss, NearHit, NearMiss, TakeEntry, LookupFails
<1>5. CASE \/ \E v \in Version : Verify(a, v) \/ Check(a, v)
           \/ VerifyFails(a) \/ DiscardFails(a) \/ Replay(a)
  BY <1>1, <1>5 DEF Verify, Check, VerifyFails, DiscardFails, Replay
<1>6. CASE \/ List(a) \/ Retrieve(a) \/ RetrievePartly(a) \/ SearchFails(a)
           \/ Generate(a) \/ GenerateFails(a) \/ NotStored(a)
  BY <1>1, <1>6 DEF List, Retrieve, RetrievePartly, SearchFails, Generate, GenerateFails, NotStored
<1> QED BY <1>2, <1>3, <1>4, <1>5, <1>6 DEF AskerStep

\* A change ends the calm of all requests; nothing else of it touches them.
LEMMA WriterCalm ==
  ASSUME IInv, CalmInv, NEW w \in Writers, WriterStep(w)
  PROVE  CalmInv'
<1> USE DEF IInv, TypeOK
<1>1. ASSUME NEW d \in Docs, Delete(w, d) \/ \E r \in Revs : Commit(w, d, r) PROVE CalmInv'
  BY <1>1 DEF Commit, Delete, Begin, CalmInv
<1>2. CASE ~ \E d \in Docs : Delete(w, d) \/ \E r \in Revs : Commit(w, d, r)
  <2>1. wpc[w] # "idle" /\ UNCHANGED <<askers, calm>>
    BY <1>2 DEF WriterStep, WGo, CommitDeletion, DeletionFails, ReadDocTags, Forget, ClearDocTags,
                InvalidateDocFails, ReadNegTags, ClearNegTags, InvalidateNegFails
  <2>2. \A a \in Askers : ~calm[a]
    BY <2>1 DEF CalmInv, QuietWriters
  <2> QED BY <2>1, <2>2 DEF CalmInv
<1> QED BY <1>1, <1>2

\* What it makes wrong it is about to remove.
LEMMA CommitTrusted ==
  ASSUME SoundInv, NEW w \in Writers, NEW d \in Docs, NEW r \in Revs, Commit(w, d, r)
  PROVE  TagInv' /\ RightInv'
<1> USE DEF SoundInv, IInv, TypeOK
<1>1. /\ wpc[w] = "idle" /\ wpc' = [wpc EXCEPT ![w] = "readDoc"]
      /\ content' = [content EXCEPT ![d] = r] /\ target' = [target EXCEPT ![w] = d]
      /\ upload' = [upload EXCEPT ![w] = TRUE]
      /\ UNCHANGED <<redis, tagged, sound>>
  BY DEF Commit, Begin, WGo
<1>2. Trusted' = Trusted
  BY <1>1 DEF Trusted
<1>3. TagInv'
  BY <1>1, <1>2 DEF TagInv
<1>4. ASSUME NEW q \in Trusted', NEW v \in entries'[q].sources
      PROVE  Current(v)' \/ \E x \in Writers : ForgetsDoc(x, v.doc)'
  <2>1. Current(v) \/ \E x \in Writers : ForgetsDoc(x, v.doc)
    BY <1>1, <1>2, <1>4 DEF RightInv
  <2>2. CASE v.doc = d
    BY <1>1, <2>2 DEF ForgetsDoc
  <2>3. CASE v.doc # d
    BY <1>1, <2>1, <2>3 DEF ForgetsDoc, Current
  <2> QED BY <2>2, <2>3
<1>5. ForgetsNegatives(w)'
  BY <1>1 DEF ForgetsNegatives
<1> QED BY <1>3, <1>4, <1>5 DEF RightInv

\* A deletion makes nothing wrong before its commit, which takes the document from what
\* can be found; one that fails makes nothing wrong at all.
LEMMA DeletionTrusted ==
  ASSUME SoundInv, NEW w \in Writers,
         (\E d \in Docs : Delete(w, d)) \/ CommitDeletion(w) \/ DeletionFails(w)
  PROVE  TagInv' /\ RightInv'
<1> USE DEF SoundInv, IInv, TypeOK, WGo, Begin, Finish
<1>1. /\ UNCHANGED <<redis, sound>>
      /\ wpc[w] \in {"idle", "delete"} /\ wpc'[w] \in {"idle", "delete", "readDoc"}
      /\ \A x \in Writers : x # w => /\ wpc'[x] = wpc[x] /\ target'[x] = target[x]
                                     /\ upload'[x] = upload[x] /\ tagged'[x] = tagged[x]
  <2>1. CASE \E d \in Docs : Delete(w, d)
    BY <2>1 DEF Delete
  <2>2. CASE CommitDeletion(w)
    BY <2>2 DEF CommitDeletion
  <2>3. CASE DeletionFails(w)
    BY <2>3 DEF DeletionFails
  <2> QED BY <2>1, <2>2, <2>3
<1>2. Trusted' = Trusted
  BY <1>1 DEF Trusted
<1>3. TagInv'
  BY <1>1, <1>2 DEF TagInv
<1>4. \A v \in Version : Searchable(v)' => Searchable(v)
  <2>1. CASE \E d \in Docs : Delete(w, d)
    BY <2>1 DEF Delete, Searchable, Current
  <2>2. CASE CommitDeletion(w)
    <3> SUFFICES ASSUME NEW v \in Version, Searchable(v)' PROVE Searchable(v)
      OBVIOUS
    <3>1. target[w] \in Docs /\ v.doc # target[w]
      BY <2>2 DEF CommitDeletion, RequestInv, Searchable, Current
    <3> QED BY <2>2, <3>1 DEF CommitDeletion, Searchable, Current
  <2>3. CASE DeletionFails(w)
    BY <2>3 DEF DeletionFails, Searchable, Current
  <2> QED BY <2>1, <2>2, <2>3
<1>5. ASSUME NEW q \in Trusted', NEW v \in entries'[q].sources
      PROVE  Current(v)' \/ \E x \in Writers : ForgetsDoc(x, v.doc)'
  <2>1. Current(v) \/ \E x \in Writers : x # w /\ ForgetsDoc(x, v.doc)
    BY <1>1, <1>2, <1>5 DEF RightInv, ForgetsDoc
  <2>2. CASE \E x \in Writers : x # w /\ ForgetsDoc(x, v.doc)
    BY <1>1, <2>2 DEF ForgetsDoc
  <2>3. CASE Current(v) /\ content'[v.doc] = content[v.doc]
    BY <2>3 DEF Current
  <2>4. CASE content'[v.doc] # content[v.doc]
    <3>1. CommitDeletion(w)
      BY <2>4 DEF Delete, DeletionFails
    <3>2. v \in Version
      BY <1>1, <1>2, <1>5 DEF Trusted
    <3>3. v.doc = target[w]
      BY <2>4, <3>1, <3>2 DEF CommitDeletion
    <3> QED BY <3>1, <3>3 DEF CommitDeletion, ForgetsDoc
  <2> QED BY <2>1, <2>2, <2>3, <2>4
<1>6. ASSUME NEW q \in Trusted', entries'[q].negative
      PROVE  Unanswerable(q)' \/ \E x \in Writers : ForgetsNegatives(x)'
  <2>1. q \in Questions /\ Answers[q] \subseteq Version
    BY <1>2, <1>6 DEF Trusted
  <2>2. Unanswerable(q) => Unanswerable(q)'
    BY <1>4, <2>1 DEF Unanswerable
  <2>3. Unanswerable(q) \/ \E x \in Writers : x # w /\ ForgetsNegatives(x)
    BY <1>1, <1>2, <1>6 DEF RightInv, ForgetsNegatives
  <2>4. \A x \in Writers : x # w /\ ForgetsNegatives(x) => ForgetsNegatives(x)'
    BY <1>1 DEF ForgetsNegatives
  <2> QED BY <2>2, <2>3, <2>4
<1> QED BY <1>3, <1>5, <1>6 DEF RightInv

\* The three calls of an invalidation, of a document or of the negative verdicts.
LEMMA InvalidationTrusted ==
  ASSUME SoundInv, NEW w \in Writers,
         ReadDocTags(w) \/ Forget(w) \/ ClearDocTags(w) \/ ReadNegTags(w) \/ ClearNegTags(w)
  PROVE  TagInv' /\ RightInv'
<1> USE DEF SoundInv, IInv, TypeOK, Finish, WGo
<1>1. ASSUME NEW q \in Trusted' PROVE q \in Trusted /\ entries'[q] = entries[q] /\ entries[q] \in Entry
  BY DEF Trusted, ReadDocTags, Forget, ClearDocTags, ReadNegTags, ClearNegTags
<1>2. UNCHANGED documents
  BY DEF ReadDocTags, Forget, ClearDocTags, ReadNegTags, ClearNegTags
<1>3. CASE ReadDocTags(w)
  <2>1. target[w] \in Docs
    BY <1>3 DEF ReadDocTags, RequestInv
  <2>2. TagInv'
    BY <1>1, <1>3, <2>1 DEF TagInv, ReadDocTags, Cites
  <2>3. RightInv'
    BY <1>1, <1>2, <1>3 DEF RightInv, ReadDocTags, Current, Searchable, Unanswerable, ForgetsDoc, ForgetsNegatives
  <2> QED BY <2>2, <2>3
<1>4. CASE Forget(w)
  <2>1. \/ wpc[w] = "forgetDoc" /\ wpc' = [wpc EXCEPT ![w] = "clearDoc"]
        \/ wpc[w] = "forgetNeg" /\ wpc' = [wpc EXCEPT ![w] = "clearNeg"]
    BY <1>4 DEF Forget
  <2>2. /\ entries' = [q \in Questions |-> IF q \in tagged[w] THEN NoEntry ELSE entries[q]]
        /\ UNCHANGED <<docTags, negTags, target, upload, tagged>>
    BY <1>4 DEF Forget
  <2>3. \A q \in Trusted' : q \notin tagged[w]
    BY <2>2 DEF Trusted, Forget
  <2>4. TagInv'
    <3> SUFFICES ASSUME NEW q \in Trusted'
                 PROVE  /\ \A v \in entries'[q].sources : q \in docTags'[v.doc]
                        /\ entries'[q].negative => q \in negTags'
                        /\ \A x \in Writers :
                              /\ wpc'[x] = "forgetDoc" /\ Cites(entries'[q], target'[x]) => q \in tagged'[x]
                              /\ wpc'[x] = "clearDoc" => ~Cites(entries'[q], target'[x])
                              /\ wpc'[x] = "forgetNeg" /\ entries'[q].negative => q \in tagged'[x]
                              /\ wpc'[x] = "clearNeg" => ~entries'[q].negative
      BY DEF TagInv
    <3>1. q \in Trusted /\ entries'[q] = entries[q] /\ q \notin tagged[w]
      BY <1>1, <2>3
    <3>2. \A x \in Writers : x # w => wpc'[x] = wpc[x]
      BY <2>1
    <3>3. wpc[w] = "forgetDoc" => ~Cites(entries[q], target[w])
      BY <3>1 DEF TagInv
    <3>4. wpc[w] = "forgetNeg" => ~entries[q].negative
      BY <3>1 DEF TagInv
    <3> QED BY <2>1, <2>2, <3>1, <3>2, <3>3, <3>4 DEF TagInv
  <2>5. ASSUME NEW q \in Trusted', NEW v \in entries'[q].sources
        PROVE  Current(v)' \/ \E x \in Writers : ForgetsDoc(x, v.doc)'
    <3>1. v.doc \in Docs /\ v \in entries[q].sources
      BY <1>1, <2>5
    <3>2. ASSUME NEW x \in Writers, ForgetsDoc(x, v.doc) PROVE ForgetsDoc(x, v.doc)'
      <4>1. x # w
        BY <1>1, <2>1, <2>3, <2>5, <3>1, <3>2 DEF TagInv, ForgetsDoc, Cites
      <4> QED BY <2>1, <2>2, <3>2, <4>1 DEF ForgetsDoc
    <3> QED BY <1>1, <1>2, <3>1, <3>2 DEF RightInv, Current
  <2>6. ASSUME NEW q \in Trusted', entries'[q].negative
        PROVE  Unanswerable(q)' \/ \E x \in Writers : ForgetsNegatives(x)'
    <3>1. ASSUME NEW x \in Writers, ForgetsNegatives(x) PROVE ForgetsNegatives(x)'
      <4>1. x = w => wpc[w] = "forgetDoc"
        BY <1>1, <2>1, <2>3, <2>6 DEF TagInv
      <4> QED BY <2>1, <2>2, <3>1, <4>1 DEF ForgetsNegatives
    <3> QED BY <1>1, <1>2, <2>6, <3>1 DEF RightInv, Current, Searchable, Unanswerable
  <2> QED BY <2>4, <2>5, <2>6 DEF RightInv
<1>5. CASE ClearDocTags(w)
  <2>1. /\ wpc[w] = "clearDoc" /\ wpc' = [wpc EXCEPT ![w] = IF upload[w] THEN "readNeg" ELSE "idle"]
        /\ docTags' = [docTags EXCEPT ![target[w]] = {}] /\ UNCHANGED negTags
        /\ \A x \in Writers : x # w => target'[x] = target[x] /\ upload'[x] = upload[x] /\ tagged'[x] = tagged[x]
    BY <1>5 DEF ClearDocTags
  <2>2. ASSUME NEW q \in Trusted' PROVE \A v \in entries'[q].sources : q \in docTags'[v.doc]
    BY <1>1, <2>1 DEF TagInv, Cites
  <2>3. TagInv'
    BY <1>1, <2>1, <2>2 DEF TagInv
  <2>4. \A x \in Writers, d \in Docs : ForgetsDoc(x, d) => ForgetsDoc(x, d)'
    BY <2>1 DEF ForgetsDoc
  <2>5. \A x \in Writers : ForgetsNegatives(x) => ForgetsNegatives(x)'
    BY <1>5, <2>1 DEF ForgetsNegatives
  <2> QED BY <1>1, <1>2, <2>3, <2>4, <2>5, StillRight
<1>6. CASE ReadNegTags(w)
  <2>1. TagInv'
    BY <1>1, <1>6 DEF TagInv, ReadNegTags
  <2>2. RightInv'
    BY <1>1, <1>2, <1>6 DEF RightInv, ReadNegTags, Current, Searchable, Unanswerable, ForgetsDoc, ForgetsNegatives
  <2> QED BY <2>1, <2>2
<1>7. CASE ClearNegTags(w)
  <2>1. /\ wpc[w] = "clearNeg" /\ wpc' = [wpc EXCEPT ![w] = "idle"] /\ negTags' = {} /\ UNCHANGED docTags
        /\ \A x \in Writers : x # w => target'[x] = target[x] /\ upload'[x] = upload[x] /\ tagged'[x] = tagged[x]
    BY <1>7 DEF ClearNegTags
  <2>2. TagInv'
    BY <1>1, <2>1 DEF TagInv
  <2>3. \A x \in Writers, d \in Docs : ForgetsDoc(x, d) => ForgetsDoc(x, d)'
    BY <2>1 DEF ForgetsDoc
  <2>4. ASSUME NEW q \in Trusted', entries'[q].negative, NEW x \in Writers, ForgetsNegatives(x)
        PROVE  ForgetsNegatives(x)'
    <3>1. x # w
      BY <1>1, <2>1, <2>4 DEF TagInv, ForgetsNegatives
    <3> QED BY <2>1, <2>4, <3>1 DEF ForgetsNegatives
  <2>5. RightInv'
    <3>1. \A q \in Trusted' : \A v \in entries'[q].sources : Current(v)' \/ \E x \in Writers : ForgetsDoc(x, v.doc)'
      BY <1>1, <1>2, <2>3 DEF RightInv, Current
    <3>2. \A q \in Trusted' : entries'[q].negative =>
             Unanswerable(q)' \/ \E x \in Writers : ForgetsNegatives(x)'
      BY <1>1, <1>2, <2>4 DEF RightInv, Current, Searchable, Unanswerable
    <3> QED BY <3>1, <3>2 DEF RightInv
  <2> QED BY <2>2, <2>5
<1> QED BY <1>3, <1>4, <1>5, <1>6, <1>7

\* A failed one leaves what is not counted on any more.
LEMMA FailureTrusted ==
  ASSUME SoundInv, NEW w \in Writers, InvalidateDocFails(w) \/ InvalidateNegFails(w)
  PROVE  TagInv' /\ RightInv'
<1> USE DEF SoundInv, IInv, TypeOK, Finish
<1>1. UNCHANGED <<documents, redis>>
      /\ \A x \in Writers : x # w => /\ wpc'[x] = wpc[x] /\ target'[x] = target[x]
                                     /\ upload'[x] = upload[x] /\ tagged'[x] = tagged[x]
  BY DEF InvalidateDocFails, InvalidateNegFails
<1>2. ASSUME NEW q \in Trusted' PROVE q \in Trusted /\ entries[q] \in Entry
  BY <1>1 DEF Trusted, InvalidateDocFails, InvalidateNegFails
<1>3. CASE InvalidateDocFails(w)
  <2>1. /\ wpc'[w] = (IF upload[w] THEN "readNeg" ELSE "idle") /\ wpc[w] \in {"readDoc", "forgetDoc", "clearDoc"}
        /\ upload[w] => upload'[w]
    BY <1>3 DEF InvalidateDocFails
  <2>2. \A q \in Trusted' : ~Cites(entries[q], target[w])
    BY <1>1, <1>3 DEF Trusted, InvalidateDocFails
  <2>3. TagInv'
    BY <1>1, <1>2, <2>1 DEF TagInv
  <2>4. \A x \in Writers, d \in Docs : ForgetsDoc(x, d) => ForgetsDoc(x, d)' \/ d = target[w]
    BY <1>1 DEF ForgetsDoc
  <2>5. \A x \in Writers : ForgetsNegatives(x) => ForgetsNegatives(x)'
    BY <1>1, <2>1 DEF ForgetsNegatives
  <2>6. ASSUME NEW q \in Trusted', NEW v \in entries[q].sources
        PROVE  Current(v)' \/ \E x \in Writers : ForgetsDoc(x, v.doc)'
    <3>1. v.doc # target[w] /\ v.doc \in Docs
      BY <1>2, <2>2, <2>6 DEF Cites
    <3> QED BY <1>1, <1>2, <2>4, <2>6, <3>1 DEF RightInv, Current
  <2>7. \A q \in Trusted' : entries[q].negative => Unanswerable(q)' \/ \E x \in Writers : ForgetsNegatives(x)'
    BY <1>1, <1>2, <2>5 DEF RightInv, Current, Searchable, Unanswerable
  <2> QED BY <1>1, <2>3, <2>6, <2>7 DEF RightInv
<1>4. CASE InvalidateNegFails(w)
  <2>1. wpc'[w] = "idle" /\ wpc[w] \in {"readNeg", "forgetNeg", "clearNeg"}
    BY <1>4 DEF InvalidateNegFails
  <2>2. \A q \in Trusted' : ~entries[q].negative
    BY <1>1, <1>4 DEF Trusted, InvalidateNegFails
  <2>3. TagInv'
    BY <1>1, <1>2, <2>1 DEF TagInv
  <2>4. RightInv'
    BY <1>1, <1>2, <2>1, <2>2 DEF RightInv, Current, ForgetsDoc
  <2> QED BY <2>3, <2>4
<1> QED BY <1>3, <1>4

\* Every step keeps the invariant of the entries that are counted on.
LEMMA SoundStep == SoundInv /\ [Next]_vars => SoundInv'
<1> SUFFICES ASSUME SoundInv, [Next]_vars PROVE SoundInv'
  OBVIOUS
<1>1. IInv /\ CalmInv /\ IInv'
  BY StepInv DEF SoundInv
<1>2. ASSUME NEW a \in Askers, AskerStep(a) PROVE SoundInv'
  BY <1>1, <1>2, AskerCalm, AskerTrusted DEF SoundInv
<1>3. ASSUME NEW w \in Writers, WriterStep(w) PROVE SoundInv'
  <2>1. CalmInv'
    BY <1>1, <1>3, WriterCalm
  <2>2. TagInv' /\ RightInv'
    BY <1>3, CommitTrusted, DeletionTrusted, InvalidationTrusted, FailureTrusted DEF WriterStep
  <2> QED BY <1>1, <2>1, <2>2 DEF SoundInv
<1>4. ASSUME NEW q \in Questions, Expire(q) PROVE SoundInv'
  <2>1. UNCHANGED <<documents, docTags, negTags, writers, askers, calm, partial, sound>>
        /\ entries' = [entries EXCEPT ![q] = NoEntry]
    BY <1>4 DEF Expire
  <2>2. \A p \in Trusted' : p \in Trusted /\ entries'[p] = entries[p]
    BY <1>1, <2>1 DEF Trusted, IInv, TypeOK
  <2>3. TagInv' /\ RightInv'
    BY <2>1, <2>2, Fewer DEF SoundInv
  <2>4. CalmInv'
    BY <1>1, <2>1 DEF CalmInv, QuietWriters, Material, CurrentVersions, Searchable, Current
  <2> QED BY <1>1, <2>3, <2>4 DEF SoundInv
<1>5. CASE UNCHANGED vars
  <2>1. TagInv' /\ RightInv'
    BY <1>5, Fewer DEF vars, SoundInv, Trusted
  <2>2. CalmInv'
    BY <1>1, <1>5 DEF vars, CalmInv, QuietWriters, Material, CurrentVersions, Searchable, Current
  <2> QED BY <1>1, <2>1, <2>2 DEF SoundInv
<1> QED BY <1>2, <1>3, <1>4, <1>5 DEF Next

\* What invalidation guarantees, although it is three calls that nothing orders with the stores:
\* while no change is under way, an entry whose request no change overlapped and which no
\* failed invalidation has missed cites what is current, and its negative verdict stands as far
\* as what can be found goes, unless a part of the search behind it had failed.
THEOREM InvalidationWorks == Spec => []SoundEntriesAreRight
<1>1. SoundInv => SoundEntriesAreRight
  BY DEF SoundInv, RightInv, Trusted, SoundEntriesAreRight, QuietWriters, ForgetsDoc, ForgetsNegatives
<1> QED BY <1>1, SoundInit, SoundStep, PTL DEF Spec

=============================================================================
