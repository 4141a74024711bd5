----------------------------- MODULE AnswerCache -----------------------------
(***************************************************************************)
(* Questions and the response cache while documents change.                *)
(*                                                                         *)
(* A question is looked up (exact match, then a near one), the hit is      *)
(* checked against the registry, and otherwise the question is searched,   *)
(* generated and its answer stored in Redis.  Meanwhile uploads and        *)
(* deletions commit and then invalidate: the entries tagged with the       *)
(* document and, for an upload, those tagged negative.  Nothing orders the *)
(* two sides, and an invalidation is three Redis calls, not one.           *)
(*                                                                         *)
(* Abstractions.  Documents are seen as DocumentStore promises them: one   *)
(* commit per change, serialised per document, but a deletion empties the  *)
(* indexes before its commit and may fail in between.  What a complete     *)
(* search surfaces and what can be answered from it are constants: the     *)
(* generator is taken at its best and the places suffice for what there    *)
(* is to find.  Expiry and the capacity bound may remove any entry at any  *)
(* time.  All questions share one prompt, model and index configuration:   *)
(* these are materials of the fingerprint.                                 *)
(***************************************************************************)
EXTENDS Integers, FiniteSets

CONSTANTS
    Docs, Revs,
    Questions,      \* normalised questions; also the fingerprints of their entries
    Near,           \* Near[q]: questions whose vectors are over the threshold
    Finds,          \* Finds[q]: versions that have chunks passing the gate for q
    Answers,        \* Answers[q]: those among them q can be answered from
    Askers,         \* /qa requests in progress
    Writers,        \* uploads and deletions in progress
    MaxAsks,        \* bound: questions ever asked
    MaxChanges,     \* bound: documents ever changed
    MaxFaults,      \* bound: store calls that fail or time out
    NoRev,          \* a document that is not there
    NoEntry,        \* a fingerprint with no entry
    NoOne           \* a request slot that is not in use

Version == [doc : Docs, rev : Revs]
Entry   == [sources : SUBSET Version, negative : BOOLEAN]

ASSUME NearAssumption == Near \in [Questions -> SUBSET Questions]
ASSUME FindsAssumption ==
    /\ Finds \in [Questions -> SUBSET Version] /\ Answers \in [Questions -> SUBSET Version]
    /\ \A q \in Questions : Answers[q] \subseteq Finds[q]
ASSUME NoRevAssumption == NoRev \notin Revs
ASSUME NoEntryAssumption == NoEntry \notin Entry
ASSUME NoOneAssumption == NoOne \notin Docs \cup Questions

VARIABLES
    content,        \* registry: the searchable revision of each document
    halfDeleted,    \* documents whose chunks may be gone although their record stands
    entries,        \* Redis: the payload stored under each fingerprint
    docTags,        \* Redis: fingerprints tagged with each document
    negTags,        \* Redis: fingerprints tagged negative
    apc, question, degraded,    \* where each asker stands
    hit,            \* fingerprint of the entry an asker was given
    sources,        \* versions the answer in hand rests on
    todo,           \* versions of it not yet checked against the registry
    negative,       \* the answer in hand says there is no answer
    wpc, target, upload,        \* where each writer stands
    tagged,         \* fingerprints a writer read from a tag set
    asks, changes, faults,      \* counters of the bounds
    seen,           \* history: versions current at some time since a request got
                    \* the entry or the search results it has in hand
    calm,           \* history: askers no change has overlapped since they arrived
    partial,        \* history: askers whose search went on without a part that failed
    sound           \* history: entries stored calmly, no invalidation missed since, except
                    \* negative ones of a partial search

documents == <<content, halfDeleted>>
redis    == <<entries, docTags, negTags>>
askers   == <<apc, question, degraded, hit, sources, todo, negative>>
writers  == <<wpc, target, upload, tagged>>
counters == <<asks, changes, faults>>
history  == <<seen, calm, partial, sound>>
vars == <<documents, redis, askers, writers, counters, history>>

-----------------------------------------------------------------------------
Current(v) == content[v.doc] = v.rev
CurrentVersions == {v \in Version : Current(v)}

\* Current, and with all its chunks: a complete search finds it.
Searchable(v) == Current(v) /\ v.doc \notin halfDeleted
Cites(e, d) == \E v \in e.sources : v.doc = d
QuietWriters == \A w \in Writers : wpc[w] = "idle"
Fault == faults < MaxFaults /\ faults' = faults + 1 /\ UNCHANGED <<asks, changes>>

Init ==
    /\ content \in [Docs -> Revs \cup {NoRev}]
    /\ halfDeleted \in SUBSET {d \in Docs : content[d] # NoRev}
    /\ entries = [q \in Questions |-> NoEntry]
    /\ docTags = [d \in Docs |-> {}] /\ negTags = {}
    /\ apc = [a \in Askers |-> "idle"]
    /\ question = [a \in Askers |-> NoOne] /\ hit = [a \in Askers |-> NoOne]
    /\ degraded = [a \in Askers |-> FALSE] /\ negative = [a \in Askers |-> FALSE]
    /\ sources = [a \in Askers |-> {}] /\ todo = [a \in Askers |-> {}]
    /\ wpc = [w \in Writers |-> "idle"]
    /\ target = [w \in Writers |-> NoOne] /\ upload = [w \in Writers |-> FALSE]
    /\ tagged = [w \in Writers |-> {}]
    /\ asks = 0 /\ changes = 0 /\ faults = 0
    /\ seen = [a \in Askers |-> {}]
    /\ calm = [a \in Askers |-> FALSE] /\ partial = [a \in Askers |-> FALSE]
    /\ sound = {}

-----------------------------------------------------------------------------
(* Asking: CacheService.lookup, RetrievalService.search, the generation    *)
(* and CacheService.store.                                                 *)

Go(a, from, to) == apc[a] = from /\ apc' = [apc EXCEPT ![a] = to]

\* The entry or the search results in hand are dropped.
Drop(a) ==
    /\ seen' = [seen EXCEPT ![a] = {}]
    /\ hit' = [hit EXCEPT ![a] = NoOne]
    /\ sources' = [sources EXCEPT ![a] = {}]
    /\ todo' = [todo EXCEPT ![a] = {}]
    /\ negative' = [negative EXCEPT ![a] = FALSE]

\* The request is over, answered or failed.
Leave(a) ==
    /\ Drop(a)
    /\ question' = [question EXCEPT ![a] = NoOne]
    /\ degraded' = [degraded EXCEPT ![a] = FALSE]
    /\ calm' = [calm EXCEPT ![a] = FALSE]
    /\ partial' = [partial EXCEPT ![a] = FALSE]

Ask(a, q) ==
    /\ Go(a, "idle", "exact")
    /\ asks < MaxAsks /\ asks' = asks + 1
    /\ question' = [question EXCEPT ![a] = q]
    /\ calm' = [calm EXCEPT ![a] = QuietWriters]
    /\ UNCHANGED <<documents, redis, degraded, hit, sources, todo, negative, writers,
                   changes, faults, seen, partial, sound>>

\* The asker is given the entry stored under f, which is yet to be verified.
TakeEntry(a, f) ==
    /\ entries[f] # NoEntry
    /\ hit' = [hit EXCEPT ![a] = f]
    /\ sources' = [sources EXCEPT ![a] = entries[f].sources]
    /\ todo' = [todo EXCEPT ![a] = entries[f].sources]
    /\ negative' = [negative EXCEPT ![a] = entries[f].negative]
    /\ seen' = [seen EXCEPT ![a] = CurrentVersions]
    /\ UNCHANGED <<documents, redis, question, degraded, writers, counters, calm, partial, sound>>

ExactHit(a) == Go(a, "exact", "verify") /\ TakeEntry(a, question[a])

ExactMiss(a) ==
    /\ Go(a, "exact", "near")
    /\ entries[question[a]] = NoEntry
    /\ UNCHANGED <<documents, redis, question, degraded, hit, sources, todo, negative,
                   writers, counters, history>>

NearHit(a) ==
    /\ Go(a, "near", "verify")
    /\ \E f \in Near[question[a]] : TakeEntry(a, f)

\* No candidate is near enough, or the nearest has expired since it was found.
NearMiss(a) ==
    /\ Go(a, "near", "list")
    /\ UNCHANGED <<documents, redis, question, degraded, hit, sources, todo, negative,
                   writers, counters, history>>

\* Any failure of the lookup, or an open circuit breaker: a miss that will not
\* be stored either.
LookupFails(a) ==
    /\ Go(a, "exact", "list") \/ Go(a, "near", "list")
    /\ Fault
    /\ degraded' = [degraded EXCEPT ![a] = TRUE]
    /\ UNCHANGED <<documents, redis, question, hit, sources, todo, negative,
                   writers, history>>

\* Mutant: the hit is believed once one of its sources has been found current.
VerifyFirst(a, v) ==
    /\ Go(a, "verify", IF Current(v) THEN "verify" ELSE "discard")
    /\ v \in todo[a]
    /\ todo' = [todo EXCEPT ![a] = {}]
    /\ UNCHANGED <<documents, redis, question, degraded, hit, sources, negative,
                   writers, counters, history>>

\* _verify reads the documents of the entry one by one.
Verify(a, v) ==
    /\ Go(a, "verify", IF Current(v) THEN "verify" ELSE "discard")
    /\ v \in todo[a]
    /\ todo' = [todo EXCEPT ![a] = IF Current(v) THEN @ \ {v} ELSE {}]
    /\ UNCHANGED <<documents, redis, question, degraded, hit, sources, negative,
                   writers, counters, history>>

\* The registry does not answer: a miss, but not a degraded one.
VerifyFails(a) ==
    /\ Go(a, "verify", "list") /\ todo[a] # {}
    /\ Fault
    /\ Drop(a)
    /\ UNCHANGED <<documents, redis, question, degraded, writers, calm, partial, sound>>

\* A stale entry is removed from the cache; its tags stay behind.
Discard(a) ==
    /\ Go(a, "discard", "list")
    /\ entries' = [entries EXCEPT ![hit[a]] = NoEntry]
    /\ Drop(a)
    /\ UNCHANGED <<documents, docTags, negTags, question, degraded, writers,
                   counters, calm, partial, sound>>

DiscardFails(a) ==
    /\ Go(a, "discard", "list")
    /\ Fault
    /\ Drop(a)
    /\ UNCHANGED <<documents, redis, question, degraded, writers, calm, partial, sound>>

\* The hit is replayed.
Replay(a) ==
    /\ Go(a, "verify", "idle") /\ todo[a] = {}
    /\ Leave(a)
    /\ UNCHANGED <<documents, redis, writers, counters, sound>>

\* One list of searchable documents is made and every retriever searches it.
List(a) ==
    /\ Go(a, "list", "retrieve")
    /\ todo' = [todo EXCEPT ![a] = CurrentVersions \cap Finds[question[a]]]
    /\ UNCHANGED <<documents, redis, question, degraded, hit, sources, negative,
                   writers, counters, history>>

\* All that is searched answers.  A version replaced since the list was made may have
\* been purged already, and one whose deletion failed may have lost its chunks.
Retrieve(a) ==
    /\ Go(a, "retrieve", "check")
    /\ \E found \in SUBSET todo[a] :
          /\ \A v \in todo[a] : Searchable(v) => v \in found
          /\ todo' = [todo EXCEPT ![a] = found]
    /\ seen' = [seen EXCEPT ![a] = CurrentVersions]
    /\ UNCHANGED <<documents, redis, question, degraded, hit, sources, negative,
                   writers, counters, calm, partial, sound>>

\* An optional retriever fails and is left out, or the reranker fails and other chunks
\* take the places: the search succeeds, and nothing marks what it finds as degraded.
RetrievePartly(a) ==
    /\ Go(a, "retrieve", "check")
    /\ Fault
    /\ \E found \in SUBSET todo[a] : todo' = [todo EXCEPT ![a] = found]
    /\ seen' = [seen EXCEPT ![a] = CurrentVersions]
    /\ partial' = [partial EXCEPT ![a] = TRUE]
    /\ UNCHANGED <<documents, redis, question, degraded, hit, sources, negative,
                   writers, calm, sound>>

\* _take_current: what was found is kept if its document has not changed.
Check(a, v) ==
    /\ Go(a, "check", "check")
    /\ v \in todo[a]
    /\ todo' = [todo EXCEPT ![a] = @ \ {v}]
    /\ sources' = [sources EXCEPT ![a] = IF Current(v) THEN @ \cup {v} ELSE @]
    /\ UNCHANGED <<documents, redis, question, degraded, hit, negative, writers,
                   counters, history>>

\* The search fails: 503, nothing is streamed.
SearchFails(a) ==
    /\ apc[a] \in {"list", "retrieve", "check"} /\ apc' = [apc EXCEPT ![a] = "idle"]
    /\ Fault
    /\ Leave(a)
    /\ UNCHANGED <<documents, redis, writers, sound>>

\* No source: "no_evidence" without generating.  Otherwise the generator answers
\* from the sources or finds them insufficient.
Generate(a) ==
    /\ Go(a, "check", "store") /\ todo[a] = {}
    /\ negative' = [negative EXCEPT ![a] = sources[a] \cap Answers[question[a]] = {}]
    /\ UNCHANGED <<documents, redis, question, degraded, hit, sources, todo, writers,
                   counters, history>>

\* The stream ends with "error"; there is no answer to store.
GenerateFails(a) ==
    /\ Go(a, "check", "idle") /\ todo[a] = {} /\ sources[a] # {}
    /\ Fault
    /\ Leave(a)
    /\ UNCHANGED <<documents, redis, writers, sound>>

\* Payload and tags are written in one transaction, just before "done".
Store(a) ==
    LET q == question[a] IN
    /\ Go(a, "store", "idle") /\ ~degraded[a]
    /\ entries' = [entries EXCEPT ![q] = [sources |-> sources[a], negative |-> negative[a]]]
    /\ docTags' = [d \in Docs |->
           IF \E v \in sources[a] : v.doc = d THEN docTags[d] \cup {q} ELSE docTags[d]]
    /\ negTags' = IF negative[a] THEN negTags \cup {q} ELSE negTags
    /\ sound' = IF calm[a] /\ ~(partial[a] /\ negative[a]) THEN sound \cup {q} ELSE sound \ {q}
    /\ Leave(a)
    /\ UNCHANGED <<documents, writers, counters>>

\* Not stored: the lookup was degraded, or the store fails or is cut off by the
\* breaker.  The answer goes out all the same.
NotStored(a) ==
    /\ Go(a, "store", "idle")
    /\ \/ degraded[a] /\ UNCHANGED counters
       \/ ~degraded[a] /\ Fault
    /\ Leave(a)
    /\ UNCHANGED <<documents, redis, writers, sound>>

-----------------------------------------------------------------------------
(* Changing documents: the commit, then the invalidation, with the lock of *)
(* the document held throughout.                                           *)

WGo(w, from, to) == wpc[w] = from /\ wpc' = [wpc EXCEPT ![w] = to]

\* A change to d begins: its lock is taken, and no request in progress is calm any more.
Begin(w, d) ==
    /\ changes < MaxChanges /\ changes' = changes + 1
    /\ \A x \in Writers : target[x] # d
    /\ target' = [target EXCEPT ![w] = d]
    /\ calm' = [a \in Askers |-> FALSE]
    /\ UNCHANGED <<asks, faults>>

\* An upload commits its record; every chunk of the new revision is in place by then.
Commit(w, d, r) ==
    /\ WGo(w, "idle", "readDoc")
    /\ Begin(w, d)
    /\ content[d] # r /\ content' = [content EXCEPT ![d] = r]
    /\ halfDeleted' = halfDeleted \ {d}
    /\ upload' = [upload EXCEPT ![w] = TRUE]
    /\ seen' = [a \in Askers |->
           IF apc[a] \notin {"verify", "check", "store"} THEN seen[a]
           ELSE seen[a] \cup {[doc |-> d, rev |-> r]}]
    /\ UNCHANGED <<redis, askers, tagged, partial, sound>>

\* A deletion empties the two indexes before it touches the record.
Delete(w, d) ==
    /\ WGo(w, "idle", "delete")
    /\ Begin(w, d)
    /\ content[d] # NoRev
    /\ halfDeleted' = halfDeleted \cup {d}
    /\ UNCHANGED <<content, redis, askers, upload, tagged, seen, partial, sound>>

CommitDeletion(w) ==
    /\ WGo(w, "delete", "readDoc")
    /\ content' = [content EXCEPT ![target[w]] = NoRev]
    /\ halfDeleted' = halfDeleted \ {target[w]}
    /\ UNCHANGED <<redis, askers, target, upload, tagged, counters, history>>

ReadDocTags(w) ==
    /\ WGo(w, "readDoc", "forgetDoc")
    /\ tagged' = [tagged EXCEPT ![w] = docTags[target[w]]]
    /\ UNCHANGED <<documents, redis, askers, target, upload, counters, history>>

\* _forget: one transaction removes the entries.
Forget(w) ==
    /\ WGo(w, "forgetDoc", "clearDoc") \/ WGo(w, "forgetNeg", "clearNeg")
    /\ entries' = [q \in Questions |-> IF q \in tagged[w] THEN NoEntry ELSE entries[q]]
    /\ UNCHANGED <<documents, docTags, negTags, askers, target, upload, tagged,
                   counters, history>>

\* The lock goes back and the change is answered.
Finish(w) ==
    /\ target' = [target EXCEPT ![w] = NoOne]
    /\ upload' = [upload EXCEPT ![w] = FALSE]
    /\ tagged' = [tagged EXCEPT ![w] = {}]

\* Mutant: an upload leaves the negative verdicts alone, as a deletion may.
ClearDocTagsOnly(w) ==
    /\ WGo(w, "clearDoc", "idle")
    /\ docTags' = [docTags EXCEPT ![target[w]] = {}]
    /\ Finish(w)
    /\ UNCHANGED <<documents, entries, negTags, askers, counters, history>>

\* A store fails: the record stands, chunks or not, and nothing is invalidated.
DeletionFails(w) ==
    /\ WGo(w, "delete", "idle")
    /\ Fault
    /\ Finish(w)
    /\ UNCHANGED <<documents, redis, askers, history>>

\* An upload goes on to the negative verdicts; a deletion is done.
ClearDocTags(w) ==
    /\ WGo(w, "clearDoc", IF upload[w] THEN "readNeg" ELSE "idle")
    /\ docTags' = [docTags EXCEPT ![target[w]] = {}]
    /\ IF upload[w] THEN UNCHANGED <<target, upload, tagged>> ELSE Finish(w)
    /\ UNCHANGED <<documents, entries, negTags, askers, counters, history>>

ReadNegTags(w) ==
    /\ WGo(w, "readNeg", "forgetNeg")
    /\ tagged' = [tagged EXCEPT ![w] = negTags]
    /\ UNCHANGED <<documents, redis, askers, target, upload, counters, history>>

ClearNegTags(w) ==
    /\ WGo(w, "clearNeg", "idle")
    /\ negTags' = {}
    /\ Finish(w)
    /\ UNCHANGED <<documents, entries, docTags, askers, counters, history>>

\* A failed or timed-out invalidation is logged and swallowed; the entries it
\* was to remove stay.
InvalidateDocFails(w) ==
    /\ wpc[w] \in {"readDoc", "forgetDoc", "clearDoc"}
    /\ wpc' = [wpc EXCEPT ![w] = IF upload[w] THEN "readNeg" ELSE "idle"]
    /\ Fault
    /\ sound' = {q \in sound : entries[q] # NoEntry /\ ~Cites(entries[q], target[w])}
    /\ IF upload[w] THEN UNCHANGED <<target, upload, tagged>> ELSE Finish(w)
    /\ UNCHANGED <<documents, redis, askers, seen, calm, partial>>

InvalidateNegFails(w) ==
    /\ wpc[w] \in {"readNeg", "forgetNeg", "clearNeg"} /\ wpc' = [wpc EXCEPT ![w] = "idle"]
    /\ Fault
    /\ sound' = {q \in sound : entries[q] # NoEntry /\ ~entries[q].negative}
    /\ Finish(w)
    /\ UNCHANGED <<documents, redis, askers, seen, calm, partial>>

\* An entry expires, or makes room for a newer one.  Tag sets outlive entries.
Expire(q) ==
    /\ entries[q] # NoEntry
    /\ entries' = [entries EXCEPT ![q] = NoEntry]
    /\ UNCHANGED <<documents, docTags, negTags, askers, writers, counters, history>>

-----------------------------------------------------------------------------
AskerStep(a) ==
    \/ \E q \in Questions : Ask(a, q)
    \/ ExactHit(a) \/ ExactMiss(a) \/ NearHit(a) \/ NearMiss(a) \/ LookupFails(a)
    \/ \E v \in Version : Verify(a, v) \/ Check(a, v)
    \/ VerifyFails(a) \/ Discard(a) \/ DiscardFails(a) \/ Replay(a)
    \/ List(a) \/ Retrieve(a) \/ RetrievePartly(a) \/ SearchFails(a)
    \/ Generate(a) \/ GenerateFails(a)
    \/ Store(a) \/ NotStored(a)

WriterStep(w) ==
    \/ \E d \in Docs : Delete(w, d) \/ \E r \in Revs : Commit(w, d, r)
    \/ CommitDeletion(w) \/ DeletionFails(w)
    \/ ReadDocTags(w) \/ Forget(w) \/ ClearDocTags(w) \/ InvalidateDocFails(w)
    \/ ReadNegTags(w) \/ ClearNegTags(w) \/ InvalidateNegFails(w)

Next ==
    \/ \E a \in Askers : AskerStep(a)
    \/ \E w \in Writers : WriterStep(w)
    \/ \E q \in Questions : Expire(q)

Spec == Init /\ [][Next]_vars

-----------------------------------------------------------------------------
(* Properties.                                                             *)

AskerSteps == {"idle", "exact", "near", "verify", "discard", "list", "retrieve",
               "check", "store"}
WriterSteps == {"idle", "delete", "readDoc", "forgetDoc", "clearDoc", "readNeg", "forgetNeg",
                "clearNeg"}

\* The shape of the state: cache keys, requests and the registry.
TypeOK ==
    /\ content \in [Docs -> Revs \cup {NoRev}] /\ halfDeleted \subseteq Docs
    /\ entries \in [Questions -> Entry \cup {NoEntry}]
    /\ docTags \in [Docs -> SUBSET Questions] /\ negTags \subseteq Questions
    /\ apc \in [Askers -> AskerSteps]
    /\ question \in [Askers -> Questions \cup {NoOne}]
    /\ hit \in [Askers -> Questions \cup {NoOne}]
    /\ degraded \in [Askers -> BOOLEAN] /\ negative \in [Askers -> BOOLEAN]
    /\ sources \in [Askers -> SUBSET Version] /\ todo \in [Askers -> SUBSET Version]
    /\ wpc \in [Writers -> WriterSteps]
    /\ target \in [Writers -> Docs \cup {NoOne}] /\ upload \in [Writers -> BOOLEAN]
    /\ tagged \in [Writers -> SUBSET Questions]
    /\ asks \in Nat /\ changes \in Nat /\ faults \in Nat
    /\ seen \in [Askers -> SUBSET Version]
    /\ calm \in [Askers -> BOOLEAN] /\ partial \in [Askers -> BOOLEAN]
    /\ sound \subseteq Questions

\* Whether replayed from the cache or generated, an answer rests only on versions
\* that were still current at some moment after the entry was read, or after the
\* search had its results: however late an entry was stored and whatever
\* invalidation failed, nothing older gets out.
AnswersAreCurrent ==
    \A a \in Askers :
        apc[a] = "store" \/ (apc[a] = "verify" /\ todo[a] = {}) => sources[a] \subseteq seen[a]

\* Why: from the moment the material is in hand, what is current has been seen, and
\* what was checked was current; before that, an answer rests on nothing.
CurrentInv ==
    \A a \in Askers :
        /\ apc[a] \in {"verify", "check", "store"} => CurrentVersions \subseteq seen[a]
        /\ apc[a] = "verify" => sources[a] \subseteq todo[a] \cup seen[a]
        /\ apc[a] \in {"check", "store"} => sources[a] \subseteq seen[a]
        /\ apc[a] \in {"idle", "exact", "near", "list", "retrieve"} => sources[a] = {}

\* A request in progress has its question, a change in progress its document.
RequestInv ==
    /\ \A a \in Askers : apc[a] # "idle" => question[a] \in Questions
    /\ \A w \in Writers : wpc[w] # "idle" => target[w] \in Docs

\* The inductive invariant behind AnswersAreCurrent.
IInv == TypeOK /\ RequestInv /\ CurrentInv

\* The negative verdicts of an entry still hold: nothing that can be found answers q.
Unanswerable(q) == \A v \in Answers[q] : ~Searchable(v)

\* What invalidation does guarantee.  While no change is under way, an entry whose
\* request no change overlapped, and which no failed invalidation has missed, is
\* right: its sources are current and its negative verdict, if it is one, stands, unless
\* the search behind it went on without a retriever or a reranker that failed.  The
\* verdict is about what is there to be found: of a document whose deletion failed the
\* chunks may be gone, although it is current.
SoundEntriesAreRight ==
    QuietWriters =>
        \A q \in sound :
            entries[q] # NoEntry =>
                /\ \A v \in entries[q].sources : Current(v)
                /\ entries[q].negative => Unanswerable(q)

\* Whoever searched in calm has only what is current and, if nothing of the search
\* failed, all there is to find; and no change is under way.
Material(q) == {v \in Finds[q] : Searchable(v)}
CalmInv ==
    \A a \in Askers : calm[a] =>
        /\ QuietWriters
        /\ apc[a] \in {"retrieve", "check", "store"} =>
              /\ sources[a] \cup todo[a] \subseteq CurrentVersions
              /\ ~partial[a] => Material(question[a]) \subseteq sources[a] \cup todo[a]
        /\ apc[a] = "store" => /\ todo[a] = {}
                               /\ negative[a] => sources[a] \cap Answers[question[a]] = {}

\* The entries that are counted on.
Trusted == {q \in sound : entries[q] # NoEntry}

\* They have their tags, so that an invalidation finds them and, at its third call, has
\* removed them.
TagInv ==
    \A q \in Trusted :
        /\ \A v \in entries[q].sources : q \in docTags[v.doc]
        /\ entries[q].negative => q \in negTags
        /\ \A w \in Writers :
              /\ wpc[w] = "forgetDoc" /\ Cites(entries[q], target[w]) => q \in tagged[w]
              /\ wpc[w] = "clearDoc" => ~Cites(entries[q], target[w])
              /\ wpc[w] = "forgetNeg" /\ entries[q].negative => q \in tagged[w]
              /\ wpc[w] = "clearNeg" => ~entries[q].negative

\* They are right, or the change that made them wrong has yet to remove them.
ForgetsDoc(w, d) == target[w] = d /\ wpc[w] \in {"readDoc", "forgetDoc"}
ForgetsNegatives(w) ==
    \/ wpc[w] \in {"readNeg", "forgetNeg"}
    \/ upload[w] /\ wpc[w] \in {"readDoc", "forgetDoc", "clearDoc"}
RightInv ==
    \A q \in Trusted :
        /\ \A v \in entries[q].sources : Current(v) \/ \E w \in Writers : ForgetsDoc(w, v.doc)
        /\ entries[q].negative => Unanswerable(q) \/ \E w \in Writers : ForgetsNegatives(w)

\* The inductive invariant behind SoundEntriesAreRight.
SoundInv == IInv /\ CalmInv /\ TagInv /\ RightInv

\* What the specification asks of negative verdicts: once a document has changed
\* and its invalidation is done, no entry claims there is no answer when there is.
NegativesAreRight ==
    QuietWriters =>
        \A q \in Questions :
            entries[q] # NoEntry /\ entries[q].negative => Unanswerable(q)

=============================================================================
