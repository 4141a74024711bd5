------------------------------ MODULE Ingestion ------------------------------
(***************************************************************************)
(* The ingestion service: uploads and deletions of documents over three    *)
(* stores that share no transaction -- the document registry (SQLite), the *)
(* vector store (Chroma) and the lexical index (SQLite FTS5) -- and the    *)
(* reconciliation of the two indexes with the registry at start-up.        *)
(*                                                                         *)
(* One action is one awaited store call of the code together with the code *)
(* that runs before the next await.  The service is one asyncio process:   *)
(* requests interleave at the awaits only.                                 *)
(*                                                                         *)
(* Abstractions.  A document's chunks are represented by the batches they  *)
(* are written in; the text, the vectors and the rendering of a chunk are  *)
(* not modelled, nor is the start-up repair of chunk metadata, which       *)
(* changes nothing else.  The parser's refusal of an unsupported file name *)
(* comes before any state is touched and is left out.                      *)
(***************************************************************************)
EXTENDS Integers, FiniteSets

CONSTANTS
    Docs,           \* document identifiers
    Revs,           \* revisions: digests of the uploaded bytes
    Sigs,           \* index signatures: digests of the index configuration
    Procs,          \* requests that may be in progress at the same time
    Batches,        \* embedding batches per document
    Concurrency,    \* ingest_concurrency: capacity of the limiter
    MaxRequests,    \* bound: requests ever accepted
    MaxFaults,      \* bound: store calls that fail
    MaxRestarts,    \* bound: crashes followed by a start
    NoDoc,          \* "no record" in the registry
    NoJob,          \* a request slot that is not in use
    Free            \* an unheld document lock

ASSUME BatchesAssumption == Batches \in Nat \ {0}
ASSUME BoundsAssumption ==
    Concurrency \in Nat /\ MaxRequests \in Nat /\ MaxFaults \in Nat /\ MaxRestarts \in Nat
ASSUME FreeAssumption == Free \notin Procs

Version == [doc : Docs, rev : Revs, sig : Sigs]
Chunk   == [doc : Docs, rev : Revs, sig : Sigs, batch : 1..Batches]
Record  == [rev : Revs, sig : Sigs, status : {"indexed", "stale"}, count : 0..Batches]
Job     == [op : {"ingest"}, doc : Docs, rev : Revs] \cup [op : {"delete"}, doc : Docs]

\* What is held of a document, as DocumentStore sees it (Held, below).
Holdings == [rev : Revs, sig : Sigs, state : {"whole", "removing", "torn"}]

ASSUME NoDocAssumption == NoDoc \notin Record \cup Holdings
ASSUME NoJobAssumption == NoJob \notin Job

VARIABLES
    registry,       \* the committed record of each document
    vec,            \* chunks in the vector store
    lex,            \* chunks in the lexical index
    sig,            \* signature of the running configuration
    mode,           \* "up", or the stage of the start-up reconciliation
    toStale,        \* reconciliation: documents rule 2 has yet to process
    toSweep,        \* reconciliation: stored versions rule 1 has yet to delete
    hand,           \* reconciliation: the document or version in hand
    owner,          \* holder of each document's lock
    slots,          \* requests inside the concurrency limiter
    pc,             \* where each request stands
    job,            \* what each request asks for
    current,        \* the record each request read under its lock
    stored,         \* batches each upload has written to both indexes
    requests, faults, restarts,   \* counters of the bounds
    halfDeleted,    \* history: documents whose removal began and did not finish
    leaky           \* history: documents a failed or cut-off clean-up concerns

stores   == <<registry, vec, lex>>
startup  == <<sig, mode, toStale, toSweep, hand>>
locks    == <<owner, slots>>
locals   == <<job, current, stored>>
counters == <<requests, faults, restarts>>
history  == <<halfDeleted, leaky>>
vars == <<stores, startup, locks, pc, locals, counters, history>>

-----------------------------------------------------------------------------
(* Documents and chunks.                                                   *)

\* Document.matches_index: the chunks were made under the running configuration.
MatchesIndex(r) == r # NoDoc /\ r.sig = sig

\* Document.is_searchable_under
Searchable(r) == MatchesIndex(r) /\ r.status = "indexed"

\* Document.is_up_to_date: this content is already indexed this way.
UpToDate(r, v) == Searchable(r) /\ r.rev = v

VersionOf(c) == [doc |-> c.doc, rev |-> c.rev, sig |-> c.sig]

\* The version an upload in progress writes.
Target(p) == [doc |-> job[p].doc, rev |-> job[p].rev, sig |-> sig]

BatchOf(v, i) == [doc |-> v.doc, rev |-> v.rev, sig |-> v.sig, batch |-> i]

\* The version a record stands for.
Recorded(d) == [doc |-> d, rev |-> registry[d].rev, sig |-> registry[d].sig]

\* delete_document of either index, with the selectors the callers use.
\* Mutant: only the recorded version goes, older residue stays.
DropDocCurrentOnly(s, d) == {c \in s : VersionOf(c) # Recorded(d)}
DropDoc(s, d) == {c \in s : c.doc # d}

DropVersion(s, v) == {c \in s : VersionOf(c) # v}
DropRevision(s, d, v) == {c \in s : ~(c.doc = d /\ c.rev = v)}
DropSignature(s, d, g) == {c \in s : ~(c.doc = d /\ c.sig = g)}

-----------------------------------------------------------------------------
Init ==
    /\ registry = [d \in Docs |-> NoDoc]
    /\ vec = {} /\ lex = {}
    /\ sig \in Sigs
    /\ mode = "up" /\ toStale = {} /\ toSweep = {} /\ hand = NoDoc
    /\ owner = [d \in Docs |-> Free]
    /\ slots = {}
    /\ pc = [p \in Procs |-> "idle"]
    /\ job = [p \in Procs |-> NoJob]
    /\ current = [p \in Procs |-> NoDoc]
    /\ stored = [p \in Procs |-> 0]
    /\ requests = 0 /\ faults = 0 /\ restarts = 0
    /\ halfDeleted = {} /\ leaky = {}

\* A request at step "from" moves on to step "to".
Step(p, from, to) ==
    /\ mode = "up"
    /\ pc[p] = from
    /\ pc' = [pc EXCEPT ![p] = to]

\* A store call that raises.
Fault == faults < MaxFaults /\ faults' = faults + 1 /\ UNCHANGED <<requests, restarts>>

\* The request ends: the limiter slot, if held, and the lock go back.
Release(p) ==
    /\ owner' = [owner EXCEPT ![job[p].doc] = Free]
    /\ slots' = slots \ {p}
    /\ job' = [job EXCEPT ![p] = NoJob]
    /\ current' = [current EXCEPT ![p] = NoDoc]
    /\ stored' = [stored EXCEPT ![p] = 0]

Leak(p) == leaky' = leaky \cup {job[p].doc}

-----------------------------------------------------------------------------
(* Every request: accept, lock the document, read its record.              *)

Accept(p, j) ==
    /\ requests < MaxRequests
    /\ Step(p, "idle", "lock")
    /\ job' = [job EXCEPT ![p] = j]
    /\ requests' = requests + 1
    /\ UNCHANGED <<stores, startup, locks, current, stored, faults, restarts, history>>

Lock(p) ==
    /\ Step(p, "lock", "get")
    /\ owner[job[p].doc] = Free
    /\ owner' = [owner EXCEPT ![job[p].doc] = p]
    /\ UNCHANGED <<stores, startup, slots, locals, counters, history>>

\* The upload is new to the index: on to the limiter.
GetForIngest(p) ==
    /\ Step(p, "get", "limit")
    /\ job[p].op = "ingest"
    /\ ~UpToDate(registry[job[p].doc], job[p].rev)
    /\ current' = [current EXCEPT ![p] = registry[job[p].doc]]
    /\ UNCHANGED <<stores, startup, locks, job, stored, counters, history>>

GetForDelete(p) ==
    /\ Step(p, "get", "dropVec")
    /\ job[p].op = "delete"
    /\ registry[job[p].doc] # NoDoc
    /\ current' = [current EXCEPT ![p] = registry[job[p].doc]]
    /\ UNCHANGED <<stores, startup, locks, job, stored, counters, history>>

\* "unchanged" for an upload, "not found" for a deletion.
NothingToDo(p) ==
    /\ Step(p, "get", "idle")
    /\ \/ job[p].op = "ingest" /\ UpToDate(registry[job[p].doc], job[p].rev)
       \/ job[p].op = "delete" /\ registry[job[p].doc] = NoDoc
    /\ Release(p)
    /\ UNCHANGED <<stores, startup, counters, history>>

GetFails(p) ==
    /\ Step(p, "get", "idle")
    /\ Fault
    /\ Release(p)
    /\ UNCHANGED <<stores, startup, history>>

-----------------------------------------------------------------------------
(* Upload.                                                                 *)

EnterLimiter(p) ==
    /\ Step(p, "limit", "extract")
    /\ Cardinality(slots) < Concurrency
    /\ slots' = slots \cup {p}
    /\ UNCHANGED <<stores, startup, owner, locals, counters, history>>

Extract(p) ==
    /\ Step(p, "extract", "addVec")
    /\ stored' = [stored EXCEPT ![p] = 0]
    /\ UNCHANGED <<stores, startup, locks, job, current, counters, history>>

\* Mutant: the limiter is not given back when parsing fails.
ExtractFailsKeepsSlot(p) ==
    /\ Step(p, "extract", "idle")
    /\ owner' = [owner EXCEPT ![job[p].doc] = Free]
    /\ job' = [job EXCEPT ![p] = NoJob]
    /\ current' = [current EXCEPT ![p] = NoDoc]
    /\ UNCHANGED <<stores, startup, slots, stored, counters, history>>

\* No text, an empty document or a parse error: nothing has been written yet.
ExtractFails(p) ==
    /\ Step(p, "extract", "idle")
    /\ Release(p)
    /\ UNCHANGED <<stores, startup, counters, history>>

AddVec(p) ==
    /\ Step(p, "addVec", "addLex")
    /\ vec' = vec \cup {BatchOf(Target(p), stored[p] + 1)}
    /\ UNCHANGED <<registry, lex, startup, locks, locals, counters, history>>

\* Embedding fails, or the store call does.  (A call that fails after taking
\* effect leaves what AddVec followed by AddLexFails leaves; likewise below.)
AddVecFails(p) ==
    /\ Step(p, "addVec", "undoVec")
    /\ Fault
    /\ UNCHANGED <<stores, startup, locks, locals, history>>

AddLex(p) ==
    /\ Step(p, "addLex", IF stored[p] + 1 < Batches THEN "addVec" ELSE "commit")
    /\ lex' = lex \cup {BatchOf(Target(p), stored[p] + 1)}
    /\ stored' = [stored EXCEPT ![p] = @ + 1]
    /\ UNCHANGED <<registry, vec, startup, locks, job, current, counters, history>>

\* The lexical index writes a batch in one transaction: a failure leaves nothing.
AddLexFails(p) ==
    /\ Step(p, "addLex", "undoVec")
    /\ Fault
    /\ UNCHANGED <<stores, startup, locks, locals, history>>

\* Mutant: a generation written again is purged like an older one.
NeedsPurgeAlways(p) == current[p] # NoDoc

\* _purge_previous has work: there was a record and it is of another generation.
NeedsPurge(p) ==
    current[p] # NoDoc /\ ~(current[p].rev = job[p].rev /\ current[p].sig = sig)

Commit(p) ==
    /\ Step(p, "commit", IF NeedsPurge(p) THEN "purgeVec" ELSE "forgetDoc")
    /\ registry' = [registry EXCEPT ![job[p].doc] =
           [rev |-> job[p].rev, sig |-> sig, status |-> "indexed", count |-> Batches]]
    /\ halfDeleted' = halfDeleted \ {job[p].doc}
    /\ slots' = IF NeedsPurge(p) THEN slots ELSE slots \ {p}
    /\ UNCHANGED <<vec, lex, startup, owner, locals, counters, leaky>>

CommitFails(p) ==
    /\ Step(p, "commit", "undoVec")
    /\ Fault
    /\ UNCHANGED <<stores, startup, locks, locals, history>>

\* _roll_back: each index on its own, a failure is logged and swallowed.
UndoVec(p) ==
    /\ Step(p, "undoVec", "undoLex")
    /\ vec' = DropVersion(vec, Target(p))
    /\ UNCHANGED <<registry, lex, startup, locks, locals, counters, history>>

UndoVecFails(p) ==
    /\ Step(p, "undoVec", "undoLex")
    /\ Fault
    /\ Leak(p)
    /\ UNCHANGED <<stores, startup, locks, locals, halfDeleted>>

UndoLex(p) ==
    /\ Step(p, "undoLex", "idle")
    /\ lex' = DropVersion(lex, Target(p))
    /\ Release(p)
    /\ UNCHANGED <<registry, vec, startup, counters, history>>

UndoLexFails(p) ==
    /\ Step(p, "undoLex", "idle")
    /\ Fault
    /\ Leak(p)
    /\ Release(p)
    /\ UNCHANGED <<stores, startup, halfDeleted>>

\* _purge_previous picks one axis: the revision if it changed, else the signature.
Purged(p, s) ==
    IF current[p].rev # job[p].rev THEN DropRevision(s, job[p].doc, current[p].rev)
    ELSE DropSignature(s, job[p].doc, current[p].sig)

PurgeVec(p) ==
    /\ Step(p, "purgeVec", "purgeLex")
    /\ vec' = Purged(p, vec)
    /\ UNCHANGED <<registry, lex, startup, locks, locals, counters, history>>

PurgeVecFails(p) ==
    /\ Step(p, "purgeVec", "purgeLex")
    /\ Fault
    /\ Leak(p)
    /\ UNCHANGED <<stores, startup, locks, locals, halfDeleted>>

PurgeLex(p) ==
    /\ Step(p, "purgeLex", "forgetDoc")
    /\ lex' = Purged(p, lex)
    /\ slots' = slots \ {p}
    /\ UNCHANGED <<registry, vec, startup, owner, locals, counters, history>>

PurgeLexFails(p) ==
    /\ Step(p, "purgeLex", "forgetDoc")
    /\ Fault
    /\ Leak(p)
    /\ slots' = slots \ {p}
    /\ UNCHANGED <<stores, startup, owner, locals, halfDeleted>>

-----------------------------------------------------------------------------
(* Deletion: vector store, then lexical index, then record.  Nothing is    *)
(* caught: a failure ends the request where it stands.                     *)

DropVec(p) ==
    /\ Step(p, "dropVec", "dropLex")
    /\ vec' = DropDoc(vec, job[p].doc)
    /\ halfDeleted' = halfDeleted \cup {job[p].doc}
    /\ UNCHANGED <<registry, lex, startup, locks, locals, counters, leaky>>

DropVecFails(p) ==
    /\ Step(p, "dropVec", "idle")
    /\ Fault
    /\ Release(p)
    /\ UNCHANGED <<stores, startup, history>>

DropLex(p) ==
    /\ Step(p, "dropLex", "dropRecord")
    /\ lex' = DropDoc(lex, job[p].doc)
    /\ UNCHANGED <<registry, vec, startup, locks, locals, counters, history>>

DropLexFails(p) ==
    /\ Step(p, "dropLex", "idle")
    /\ Fault
    /\ Release(p)
    /\ UNCHANGED <<stores, startup, history>>

DropRecord(p) ==
    /\ Step(p, "dropRecord", "forgetDoc")
    /\ registry' = [registry EXCEPT ![job[p].doc] = NoDoc]
    /\ halfDeleted' = halfDeleted \ {job[p].doc}
    /\ leaky' = leaky \ {job[p].doc}
    /\ UNCHANGED <<vec, lex, startup, locks, locals, counters>>

DropRecordFails(p) ==
    /\ Step(p, "dropRecord", "idle")
    /\ Fault
    /\ Release(p)
    /\ UNCHANGED <<stores, startup, history>>

-----------------------------------------------------------------------------
(* Invalidation of the response cache, inside the lock and after the       *)
(* outcome is committed.  Its failures are swallowed, so for the stores it *)
(* is a delay before the lock is released; AnswerCache models what it does *)
(* to the cache.                                                           *)

ForgetDocAnswers(p) ==
    /\ Step(p, "forgetDoc", "forgetNegative")
    /\ job[p].op = "ingest"
    /\ UNCHANGED <<stores, startup, locks, locals, counters, history>>

Reply(p) ==
    /\ \/ Step(p, "forgetNegative", "idle")
       \/ Step(p, "forgetDoc", "idle") /\ job[p].op = "delete"
    /\ Release(p)
    /\ UNCHANGED <<stores, startup, counters, history>>

-----------------------------------------------------------------------------
(* The process dies at any moment and is started again, possibly under     *)
(* another configuration; the stores survive.                              *)

Crash ==
    /\ restarts < MaxRestarts
    /\ restarts' = restarts + 1
    /\ mode' = "listing"
    /\ sig' \in Sigs
    /\ toStale' = {} /\ toSweep' = {} /\ hand' = NoDoc
    /\ pc' = [p \in Procs |-> "idle"]
    /\ owner' = [d \in Docs |-> Free]
    /\ slots' = {}
    /\ job' = [p \in Procs |-> NoJob]
    /\ current' = [p \in Procs |-> NoDoc]
    /\ stored' = [p \in Procs |-> 0]
    /\ leaky' = leaky \cup {d \in Docs : owner[d] # Free}
    /\ UNCHANGED <<stores, requests, faults, halfDeleted>>

(* Start-up reconciliation.  No request is served yet.                     *)

\* Mutant: only versions found in both indexes count as residue.
ListIntersection ==
    /\ mode = "listing"
    /\ mode' = "tidying"
    /\ toStale' = {d \in Docs :
           /\ registry[d] # NoDoc /\ ~MatchesIndex(registry[d])
           /\ ~(registry[d].status = "stale" /\ registry[d].count = 0)}
    /\ toSweep' = ({VersionOf(c) : c \in vec} \cap {VersionOf(c) : c \in lex})
                  \ {Recorded(d) : d \in {e \in Docs : MatchesIndex(registry[e])}}
    /\ UNCHANGED <<stores, sig, hand, locks, pc, locals, counters, history>>

\* Records and stored versions are read once, before anything is changed.
List ==
    /\ mode = "listing"
    /\ mode' = "tidying"
    /\ toStale' = {d \in Docs :
           /\ registry[d] # NoDoc /\ ~MatchesIndex(registry[d])
           /\ ~(registry[d].status = "stale" /\ registry[d].count = 0)}
    /\ toSweep' = {VersionOf(c) : c \in vec \cup lex}
                  \ {Recorded(d) : d \in {e \in Docs : MatchesIndex(registry[e])}}
    /\ UNCHANGED <<stores, sig, hand, locks, pc, locals, counters, history>>

\* Rule 2: a document of another configuration loses its chunks, one index
\* after the other, and is then recorded as stale under its old signature.
StaleVec(d) ==
    /\ mode = "tidying" /\ d \in toStale
    /\ mode' = "staleLex" /\ hand' = d
    /\ vec' = DropDoc(vec, d)
    /\ halfDeleted' = halfDeleted \cup {d}
    /\ UNCHANGED <<registry, lex, sig, toStale, toSweep, locks, pc, locals,
                   counters, leaky>>

StaleLex ==
    /\ mode = "staleLex"
    /\ mode' = "staleRecord"
    /\ lex' = DropDoc(lex, hand)
    /\ UNCHANGED <<registry, vec, sig, toStale, toSweep, hand, locks, pc, locals,
                   counters, history>>

\* Mutant: the record of an emptied document still says "indexed".
StaleRecordKeepsStatus ==
    /\ mode = "staleRecord"
    /\ mode' = "tidying" /\ hand' = NoDoc
    /\ toStale' = toStale \ {hand}
    /\ registry' = [registry EXCEPT ![hand].count = 0]
    /\ halfDeleted' = halfDeleted \ {hand}
    /\ UNCHANGED <<vec, lex, sig, toSweep, locks, pc, locals, counters, leaky>>

StaleRecord ==
    /\ mode = "staleRecord"
    /\ mode' = "tidying" /\ hand' = NoDoc
    /\ toStale' = toStale \ {hand}
    /\ registry' = [registry EXCEPT ![hand] = [@ EXCEPT !.status = "stale", !.count = 0]]
    /\ halfDeleted' = halfDeleted \ {hand}
    /\ UNCHANGED <<vec, lex, sig, toSweep, locks, pc, locals, counters, leaky>>

\* Rule 1: a version no record of this configuration stands for is deleted.
SweepVec(v) ==
    /\ mode = "tidying" /\ toStale = {} /\ v \in toSweep
    /\ mode' = "sweepLex"
    /\ toSweep' = toSweep \ {v} /\ hand' = v
    /\ vec' = DropVersion(vec, v)
    /\ UNCHANGED <<registry, lex, sig, toStale, locks, pc, locals,
                   counters, history>>

SweepLex ==
    /\ mode = "sweepLex"
    /\ mode' = "tidying" /\ hand' = NoDoc
    /\ lex' = DropVersion(lex, hand)
    /\ UNCHANGED <<registry, vec, sig, toStale, toSweep, locks, pc, locals,
                   counters, history>>

Reconciled ==
    /\ mode = "tidying" /\ toStale = {} /\ toSweep = {}
    /\ mode' = "up"
    /\ leaky' = {}
    /\ UNCHANGED <<stores, sig, toStale, toSweep, hand, locks, pc, locals,
                   counters, halfDeleted>>

\* Any failing call ends the reconciliation; the service starts regardless.
ReconcileFails ==
    /\ mode # "up" /\ mode' = "up"
    /\ Fault
    /\ toStale' = {} /\ toSweep' = {} /\ hand' = NoDoc
    /\ UNCHANGED <<stores, sig, locks, pc, locals, history>>

-----------------------------------------------------------------------------
Arrive(p) == \E j \in Job : Accept(p, j)

Progress(p) ==
    \/ GetForIngest(p) \/ GetForDelete(p) \/ NothingToDo(p)
    \/ Extract(p) \/ ExtractFails(p) \/ AddVec(p) \/ AddLex(p) \/ Commit(p)
    \/ UndoVec(p) \/ UndoLex(p) \/ PurgeVec(p) \/ PurgeLex(p)
    \/ DropVec(p) \/ DropLex(p) \/ DropRecord(p)
    \/ ForgetDocAnswers(p) \/ Reply(p)

Fails(p) ==
    \/ GetFails(p) \/ AddVecFails(p) \/ AddLexFails(p) \/ CommitFails(p)
    \/ UndoVecFails(p) \/ UndoLexFails(p) \/ PurgeVecFails(p) \/ PurgeLexFails(p)
    \/ DropVecFails(p) \/ DropLexFails(p) \/ DropRecordFails(p)

Reconcile ==
    \/ List \/ StaleLex \/ StaleRecord \/ SweepLex \/ Reconciled
    \/ \E d \in Docs : StaleVec(d)
    \/ \E v \in Version : SweepVec(v)

Next ==
    \/ \E p \in Procs :
          Arrive(p) \/ Lock(p) \/ EnterLimiter(p) \/ Progress(p) \/ Fails(p)
    \/ Crash \/ Reconcile \/ ReconcileFails

Spec == Init /\ [][Next]_vars

\* Store calls return; asyncio serves the waiters of a lock and of the limiter
\* in order of arrival, so none waits for ever while it keeps being released.
Fairness ==
    /\ \A p \in Procs :
          /\ WF_vars(Progress(p))
          /\ SF_vars(Lock(p))
          /\ SF_vars(EnterLimiter(p))
    /\ WF_vars(Reconcile)

FairSpec == Spec /\ Fairness

-----------------------------------------------------------------------------
(* Properties.                                                             *)

Steps == {"idle", "lock", "get", "limit", "extract", "addVec", "addLex", "commit",
          "undoVec", "undoLex", "purgeVec", "purgeLex", "dropVec", "dropLex",
          "dropRecord", "forgetDoc", "forgetNegative"}
Modes == {"up", "listing", "tidying", "staleLex", "staleRecord", "sweepLex"}

\* The shape of the state of the service and of its three stores.
TypeOK ==
    /\ registry \in [Docs -> Record \cup {NoDoc}]
    /\ vec \subseteq Chunk /\ lex \subseteq Chunk
    /\ sig \in Sigs /\ mode \in Modes
    /\ toStale \subseteq Docs /\ toSweep \subseteq Version
    /\ hand \in Docs \cup Version \cup {NoDoc}
    /\ owner \in [Docs -> Procs \cup {Free}] /\ slots \subseteq Procs
    /\ pc \in [Procs -> Steps]
    /\ job \in [Procs -> Job \cup {NoJob}]
    /\ current \in [Procs -> Record \cup {NoDoc}]
    /\ stored \in [Procs -> 0..Batches]
    /\ requests \in Nat /\ faults \in Nat /\ restarts \in Nat
    /\ halfDeleted \subseteq Docs /\ leaky \subseteq Docs

\* Every chunk of the recorded version of document d is in both indexes.
Complete(d) == \A i \in 1..Batches : BatchOf(Recorded(d), i) \in vec \cap lex

\* A document recorded as indexed has all its chunks in both indexes, unless
\* its removal has begun: no failed upload, roll-back, purge of an older
\* generation, crash or sweep of residue ever takes a chunk from it.
IndexedIsComplete ==
    \A d \in Docs :
        registry[d] # NoDoc /\ registry[d].status = "indexed" /\ d \notin halfDeleted
            => Complete(d)

\* What a search can return of document d from index s.
Served(s, d) ==
    {c \in s : c.doc = d /\ Searchable(registry[d]) /\ VersionOf(c) = Recorded(d)}

\* What searches can return of a document changes only with its record (the
\* commit that replaces it in one step), with a restart, or once its removal
\* has begun.  Writing, rolling back and purging other generations is invisible.
ReplacementIsAtomic ==
    [][\A d \in Docs :
          \/ Served(vec, d)' = Served(vec, d) /\ Served(lex, d)' = Served(lex, d)
          \/ registry'[d] # registry[d]
          \/ restarts' # restarts
          \/ d \in halfDeleted']_vars

\* A deletion that is about to be answered 204 has left no chunk of the document,
\* of whatever revision and signature, in either index.
DeletedLeavesNothing ==
    \A p \in Procs :
        pc[p] = "forgetDoc" /\ job[p].op = "delete"
            => \A c \in vec \cup lex : c.doc # job[p].doc

\* Residue has a cause: while nobody works on a document and no clean-up
\* concerning it failed or was cut off since the last successful start-up
\* reconciliation, every stored chunk of it belongs to its recorded version.
ResidueOnlyAfterLeak ==
    \A d \in Docs :
        owner[d] = Free /\ d \notin leaky =>
            \A c \in vec \cup lex :
                c.doc = d => registry[d] # NoDoc /\ VersionOf(c) = Recorded(d)

\* A request that has arrived is answered, or dies with the process: the
\* document lock, the limiter and the failure paths never strand one another.
RequestsFinish == \A p \in Procs : (pc[p] = "lock") ~> (pc[p] = "idle")

-----------------------------------------------------------------------------
(* Why it holds: the inductive invariant.                                  *)

Reading  == {"limit", "extract", "addVec", "addLex", "commit", "undoVec", "undoLex"}
Writing  == {"addVec", "addLex", "commit"}
Purging  == {"purgeVec", "purgeLex"}
Removing == {"dropVec", "dropLex", "dropRecord"}
Holding  == Steps \ {"idle", "lock"}

\* A document's lock is held by the one request that works on it.
LockInv ==
    /\ \A p \in Procs : pc[p] # "idle" => job[p] # NoJob
    /\ \A p \in Procs : pc[p] \in Holding => owner[job[p].doc] = p
    /\ \A d \in Docs :
          owner[d] # Free => pc[owner[d]] \in Holding /\ job[owner[d]].doc = d
    /\ \A p \in Procs :
          /\ pc[p] \in Reading \cup Purging => job[p].op = "ingest"
          /\ pc[p] \in Removing => job[p].op = "delete"
    /\ mode # "up" => pc = [p \in Procs |-> "idle"]

\* What an upload knows of the record, before and after its commit.
RecordInv ==
    \A p \in Procs :
        /\ pc[p] \in Reading =>
              /\ current[p] = registry[job[p].doc]
              /\ ~UpToDate(registry[job[p].doc], job[p].rev)
        /\ pc[p] \in Purging =>
              /\ NeedsPurge(p)
              /\ registry[job[p].doc] =
                    [rev |-> job[p].rev, sig |-> sig, status |-> "indexed", count |-> Batches]

\* Both indexes hold the batches an upload has counted.
WrittenInv ==
    \A p \in Procs :
        /\ pc[p] \in Writing =>
              \A i \in 1..stored[p] : BatchOf(Target(p), i) \in vec \cap lex
        /\ pc[p] = "addLex" => BatchOf(Target(p), stored[p] + 1) \in vec
        /\ pc[p] \in {"addVec", "addLex"} => stored[p] < Batches
        /\ pc[p] = "commit" => stored[p] = Batches

\* Start-up reconciliation deletes nothing a matching record stands for, and
\* sweeps only once every document of another configuration is recorded stale.
StartupInv ==
    /\ mode \in {"up", "listing"} => toStale = {} /\ toSweep = {}
    /\ mode \in {"staleLex", "staleRecord"} => hand \in toStale /\ hand \in halfDeleted
    /\ mode = "sweepLex" => toStale = {} /\ hand \in Version
    /\ mode \in {"tidying", "staleLex", "staleRecord", "sweepLex"} =>
          \A d \in Docs :
             registry[d] # NoDoc /\ registry[d].status = "indexed" /\ registry[d].sig # sig
                 => d \in toStale
    /\ \A d \in toStale : registry[d] # NoDoc /\ registry[d].sig # sig
    /\ \A d \in Docs :
          MatchesIndex(registry[d]) =>
             Recorded(d) \notin toSweep /\ (mode = "sweepLex" => Recorded(d) # hand)

\* How far a deletion has come.
RemovalInv ==
    \A p \in Procs :
        /\ pc[p] \in {"dropLex", "dropRecord"} => job[p].doc \in halfDeleted
        /\ pc[p] = "dropLex" => \A c \in vec : c.doc # job[p].doc
        /\ pc[p] = "dropRecord" => \A c \in vec \cup lex : c.doc # job[p].doc
        /\ pc[p] = "forgetDoc" /\ job[p].op = "delete" =>
              \A c \in vec \cup lex : c.doc # job[p].doc

\* Where a chunk that is not of the recorded version can come from: the upload
\* at work on the document, which wrote it or is about to purge it.
InHand(c) ==
    LET p == owner[c.doc] IN
    /\ p # Free
    /\ \/ pc[p] \in Writing \cup {"undoVec"} /\ VersionOf(c) = Target(p)
       \/ pc[p] = "undoLex" /\ VersionOf(c) = Target(p) /\ c \notin vec
       \/ /\ pc[p] \in Purging
          /\ c.rev = current[p].rev /\ c.sig = current[p].sig
          /\ pc[p] = "purgeLex" => c \notin vec

\* Chunks of the recorded version, chunks in hand, and nothing else, but for
\* leaky documents; and the reconciliation has listed whatever is residue.
ResidueInv ==
    /\ \A c \in vec \cup lex :
          c.doc \notin leaky =>
              \/ registry[c.doc] # NoDoc /\ VersionOf(c) = Recorded(c.doc)
              \/ InHand(c)
    /\ mode \in {"tidying", "staleLex", "staleRecord", "sweepLex"} =>
          \A c \in vec \cup lex :
              \/ MatchesIndex(registry[c.doc]) /\ VersionOf(c) = Recorded(c.doc)
              \/ VersionOf(c) \in toSweep
              \/ mode = "sweepLex" /\ VersionOf(c) = hand /\ c \notin vec

\* The inductive invariant: what every step of the service keeps, in order that
\* IndexedIsComplete and DeletedLeavesNothing be kept.
IInv ==
    /\ TypeOK /\ LockInv /\ RecordInv /\ WrittenInv /\ StartupInv /\ RemovalInv
    /\ IndexedIsComplete

-----------------------------------------------------------------------------
\* The implementation of the promise: a document recorded as indexed is held
\* whole; "torn" is no state of DocumentStore.
Held(d) ==
    IF registry[d] = NoDoc \/ registry[d].status = "stale" THEN NoDoc
    ELSE [rev |-> registry[d].rev, sig |-> registry[d].sig,
          state |-> IF d \in halfDeleted THEN "removing"
                    ELSE IF Complete(d) THEN "whole" ELSE "torn"]

Promise == INSTANCE DocumentStore WITH
    Absent <- NoDoc, content <- [d \in Docs |-> Held(d)], config <- sig

\* Ingestion, with its failures, crashes and restarts, keeps the promise.
ImplementsDocumentStore == Promise!Spec

\* What documents.py says is_up_to_date means -- this content has been indexed
\* under this configuration -- so that answering "unchanged" is justified.
UnchangedIsTrue ==
    \A d \in Docs, p \in Procs :
        pc[p] = "get" /\ job[p].op = "ingest" /\ job[p].doc = d
            /\ UpToDate(registry[d], job[p].rev) => Complete(d)

=============================================================================
