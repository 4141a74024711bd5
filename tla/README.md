# A verification project for the document question-answering service

The repository is a FastAPI service that ingests documents, indexes them in a
vector store and a lexical index, and answers questions from them over SSE with
a generator process, with a response cache in Redis. This directory holds TLA+
modules of the parts of it that keep state and can go wrong, TLC runs of small
instances for all of them, and TLAPS proofs for most. Paths below are relative to
`src/src/app/` unless they begin with `src/`.

## Inventory

| Part | State it keeps | Operations | Hard behaviour | What makes it correct |
|---|---|---|---|---|
| Ingestion service (`services/ingestion.py`, `core/documents.py`) | one lock per document, a limiter | ingest, delete, reconcile_storage | three stores without a transaction; failures and crashes between two calls; concurrent requests on one document | a record that says "indexed" stands for all chunks in both indexes; replacement is atomic for searches; residue has a cause; requests finish |
| Stores (`adapters/registry`, `adapters/vector_store`, `adapters/lexical`) | records; chunks by (document, revision, signature) | commit, get, delete, list; add, delete by selector | selectors that delete too much or too little | as above |
| Response cache service (`services/cache.py`, `core/cache.py`) | the circuit breaker | lookup, verify, store, invalidate | documents change between any two steps of a request; failures degrade | no outdated source is answered from; stored entries are right unless a race or failure excuses them |
| Circuit breaker (`services/cache.py:62-107`) | failure count, time of opening | allows, record_success, record_failure | late results of calls begun before it opened; several callers | opens on storage failures only, spaced probes, recovers |
| Redis adapter (`adapters/cache/store.py`) | payloads, vectors, order index, vector set, tag sets | lookup, store, sweep, evict, forget, invalidate | several round trips per operation, no lock | payload, index and vector set agree; names outlive entries; the bound is owed by a store at work |
| Retrieval service (`services/retrieval.py`) | none | search | failing retrievers, documents replaced between list, search and check | only current versions, at most K, best first |
| Fusion, reranking, chunking (`core/`) | none | pure functions | ties, empty lists, boundaries | equal to a reference definition |
| QA service (`services/qa.py`) | a limiter | prepare, stream | retries against pieces already sent, cancellation while holding the limiter | exactly one last event; nothing written twice; store before done |
| Prompting (`core/prompting.py`) | splitter buffer | feed, finish, parse_answer | verdict line cut anywhere by the stream | streamed text equals parsed text |
| SSE pump (`api/sse.py`) | a queue of one, a task | frames, _pump | a disconnect at any point with the queue full | both tasks end, nothing lost or reordered |
| Session pool (`adapters/llm/pool.py`, `codex.py`) | semaphore, idle list, live set, closed flag | acquire, release, discard, aclose; generate, settle, interrupt | sessions dying anywhere, cancellation, shutdown racing acquire | slots conserved, a session held once, none idle with a turn running |
| App-server session (`adapters/llm/session.py`) | pending futures, queues of turns, alive flag, reader tasks, the process | start, request, send, subscribe, dispatch, mark dead, close | death, late replies and time limits at any await; three tasks that may close it; lines given up | every waiter is told of its death; a turn hears its own notifications and all of them; what is given back is quiet; closing ends |
| TurnReader (`adapters/llm/codex.py:33-114`) | deltas per item, completed | feed | an item may come as deltas, whole, or with lines lost | the text of an item is written once |
| Health (`services/health.py`, `api/routes/health.py`, two probes) | none | check | probes that hang, also while they are cancelled; two limits in either order | answers in time, for every dependency, with what each found |
| Models and other expensive instances (`adapters/embedding`, `adapters/reranking`, `adapters/tokenizer`, collection and schemas of the stores) | the instance, a lock | warm_up, _ensure_model | worker threads that meet at the first use; loads that fail | one load at a time, one instance for all |
| Wiring (`main.py`, `config.py`) | life cycle | start, stop | restart under another configuration | reconciliation before serving |
| Parsers, inference of the models, HTTP schema, demo UI | none that matters here | | | not modelled, see below |

How they interact: the document routes call ingestion, which calls the parsers,
the embedder and the three stores, and then the cache service to invalidate. The
question route calls the QA service: cache lookup (verified against the
registry), retrieval (registry, both indexes, registry again), generation through
the pool, cache store, events through the pump. Registry and Redis are the state
the two sides share; no lock spans both.

## Modules and how they correspond to the code

**`Ingestion`** models `services/ingestion.py` with the three stores. One action is
one awaited store call with the code up to the next await: `Lock`, `GetForIngest`,
`EnterLimiter`, `Extract`, `AddVec`/`AddLex` per embedding batch, `Commit`,
`PurgeVec`/`PurgeLex` (`_purge_previous`), `UndoVec`/`UndoLex` (`_roll_back`),
`DropVec`/`DropLex`/`DropRecord` (`delete`), `ForgetDocAnswers`/`Reply`, and for
start-up `List`, `StaleVec`/`StaleLex`/`StaleRecord` (rule 2), `SweepVec`/`SweepLex`
(rule 1). Every store call has a failing twin. `Crash` may happen between any two
actions and restarts the service, perhaps with another index signature. State:
`registry`, `vec`, `lex` (the stores), `owner`, `slots` (locks and limiter), `pc`,
`job`, `current`, `stored` (the locals of the coroutines). `halfDeleted` and
`leaky` are history: what was begun and not finished.

**`DocumentStore`** is the promise to searches: a document is held whole in one
generation or not at all; only a removal may be seen half done.
`Ingestion` implements it (`ImplementsDocumentStore`, `Held` is the mapping).

**`AnswerCache`** models a question from lookup to store (`services/cache.py`,
`services/qa.py`, `services/retrieval.py`) against uploads and deletions that
commit and then invalidate (`adapters/cache/store.py`: read the tag set, remove the
entries, clear the tag set -- three round trips). It sees documents as
`DocumentStore` promises them: one commit per change. A deletion is two steps, `Delete`
(the indexes are emptied) and `CommitDeletion`; if it fails in between (`DeletionFails`)
the record stays current while its chunks may be gone (`halfDeleted`, also from before the
start). What a complete search finds and what answers need are constants, `Finds` and
`Answers`; every run chooses them so that a change can refute a verdict. `Retrieve` finds
whatever is `Searchable`; `RetrievePartly` is a search from which an optional retriever
that failed was dropped, or whose reranker failed, so that anything may be missing.
`seen`, `calm`, `partial` and `sound` are history.

**`CircuitBreaker`** models the class of that name and its callers: the lookup
(two storage calls around an embedding), the store, and the invalidation, which
does not ask. Time is a count of ticks since the breaker was armed.

**`RedisCache`** models `adapters/cache/store.py` round trip by round trip: `Incr`,
`Write`, `Oldest`, `Evict` (`store` and `_enforce_capacity`), `Nearest`, `Fetch`,
`Sweep` (`lookup_semantic`), `Names`, `Forget` (`_forget` for an invalidation or a
discard), with `Stop` for a failure or time-out between any two of them and `Tick` for
Redis's own expiry. State: payloads with their time left, order index, vector set,
the names of the candidate sets. `raced` and `cut` are history: fingerprints that two
calls changed across each other's steps, and sets whose last store was cut short.
`AnswerCache` looks at the same adapter from above: it has the tag sets, this module
the indexes.

**`SessionPool`** models `adapters/llm/pool.py` with the turn that
`CodexAnswerGenerator.generate` runs between `acquire` and `release` or `discard`:
`Ask`, `Take` (semaphore), `PickIdle`, `PickDead`/`Reaped`, `PickNew`/`Started`/`CannotRun`,
`StartFails`/`StartUndone` (`acquire` with `start`), `ThreadStarted`, `TurnStarted`,
`Completed`, `Fails` (the turn), `Interrupted`/`NotInterrupted` (`_interrupt`), `Release`,
`Discard`/`Discarded`, and `Close`/`Closed` (`aclose`). Each `close()` is a SIGTERM
(`Terminate`) and a wait of its own: a process is "closing" until `ProcessEnds`, and who
waits for it keeps the place meanwhile. In `acquire` nothing shields that wait: `CutClose`
is a cancellation there, which frees the place while the process may still run; `left`
remembers such processes. `discard` runs under `_shielded` and is not cut. `Die` may take any
session down at any time, its process with it or later ("mute");
`ServerStarts`/`ServerEnds` are the app-server.

**`QaStream`** composes `QaService.stream` with `frames` and `_pump` of `api/sse.py`.
The generator and the pump run in one task (`Pump`), the response in another
(`Respond`); an event is in the service's hands (`out`), in the queue of one
(`queue`), or with the client (`got`). Generations yield pieces, fail in each of the
ways `generate` has, are settled (`LeaveLimiter`), parsed, remembered, tried again
(`BackOff`, `Retry`). A client leaves while the response waits for an event
(`DisconnectReading`: the response is cancelled, and again until it ends) or while it
is suspended at its own `yield` (`DisconnectSending`: it is closed once). `Swallow` is
`_shielded` of `codex.py`, which suppresses a cancellation.

**`EventStream`** is what a client may receive: sources, then the text of one attempt,
then one last event. `QaStream` implements it (`ImplementsEventStream`).

**`VerdictSplitter`** models `core/prompting.py`: `HeadOf`, `RestOf`, `LStrip`,
`VerdictOf`, `BodyOf` are how `parse_answer` reads a whole output, the actions
are the class of that name, fed with any pieces. The one is checked against the other.

**`Fusion`** holds the pure operators of `core/fusion.py` (`Fuse`: reciprocal ranks over
the lists, a common denominator, ties by identity) and `core/reranking.py` (`Targets`,
`Reorder`), and `Admitted`, the gates of `services/retrieval.py`. Scores are exact
numbers brought to a common denominator (`Unit`, `Denominator`), where the code adds
floats.

**`Retrieval`** models one search of `services/retrieval.py` with `Fusion` as its
extension: `List` (the searchable versions), per retriever `Passes`, `VectorMade` or
`VectorFails`, then `Retrieved`, which may fail; `FanIn` disposes of the failing ones and
fuses; `Reranked`/`NotReranked`; then `Read` and `Take` judge the order window by window
against the registry until enough is held. `Change` is an ingestion or a deletion between
any two of these.

**`Chunking`** models `split_recursive` of `core/chunking.py` (`SplitUnits`, `MergeUnits`, `Cores`, `SplitSegment`), then the guard of
`services/ingestion.py` against the embedder's limit (`Shrink`, `Resplit`). The code
splits depth first; units without gaps are given by where they are cut, so that
`SplitUnits` is a set of cuts that each separator adds to where two of them are still too
far apart, and `MergeUnits` goes on to the last cut within the budget. `Shrink` takes the
first of the halved sizes whose pieces all fit, as the largest of them.

**`Session`** is one app-server session in the detail that `SessionPool` leaves out. The
tasks of `adapters/llm/session.py` and `generate` of `codex.py` interleave at every await:
the caller (`Start`, `HandshakeDone`; `BeginTurn`, `ThreadOpened`, `TurnBegun`, `Feed`;
`Interrupt`, `Listen`, `GiveBack`, `ThrowAway`), whose calls are written (`Written`,
`Broken`), refused or given up (`Refused`, `CallGivenUp`, `ReadingGivenUp`); the reader of
stdout (`ReadLine` with `Resolve` and `Deliver`, `SkipLine`, `ReadEnd`, `BreakOff`); up to
three runs of `close()` (`BeginClose`, `TermIgnored`, `Waited`, `StopReaders`, `CloseCut`);
and the process with its pipes (`TakeUp`, `AnswerTurn`, `Say`, `Exit`, `Reap`). A call stands for
its request id, a notification for its place in its turn. `MarkDead` is `_mark_dead`,
with all that it settles. `heard`, `said` and `skipped` are history of the turn.

**`TurnReader`** is the class of that name: per message of the agent the deltas and the
completion, each of which may be lost on the way (`LoseDelta`, `LoseCompletion`, which are
`SkipLine` seen from here), and the ends of a turn.

**`Health`** is one `check`: probes that end, are stopped at their limit and then clean
up for as long as they like, under the limit of the whole check; the limits are a
parameter, the longer first or last, since `config.py` does not ask.

**`LazyLoad`** is the look, lock and second look that six places of the adapters share,
by any number of worker threads, before and after the service has started.

`MCParts` instantiates `Retrieval`, `VerdictSplitter`, `Chunking`, `Session`, `TurnReader`,
`Health` and `LazyLoad` at once. They share no state; the variable `part` says of which of
them a behaviour is, and the others stay as they were. `MCSessions` does the same with
`SessionPool` and `Session` for what needs fairness: each part has its own.

`MC*` modules hold the constants and the symmetry of the runs; `*Proofs` modules
hold the theorems.

## Runs

| Run | Instance | Shows |
|---|---|---|
| `ingestion` | 1 document, 2 revisions, 2 signatures, 2 requests at a time, 4 in all, 2 batches, 2 faults, 2 restarts | `IndexedIsComplete`, `DeletedLeavesNothing`, `ResidueOnlyAfterLeak`, `ImplementsDocumentStore` |
| `ingestion_live` | 3 requests, 2 documents, limiter of 1, 1 fault, fair | `RequestsFinish` |
| `ingestion_stale_record` | 3 requests, 1 fault | violated: `UnchangedIsTrue` |
| `answer_cache` | 2 questions near each other, 2 requests at a time, 1 writer, 2 documents, 2 changes, 1 fault, deletions that had failed before | `AnswersAreCurrent`, `SoundEntriesAreRight` |
| `answer_cache_late` | 1 asking, 1 change, no fault | violated: `NegativesAreRight` |
| `circuit_breaker` | 3 requests, threshold 2, cooldown 2 ticks, fair | `OnlyStorageOpens`, `ProbesAreSpaced`, `Recovers`, `DeadStoreIsLeftAlone` |
| `redis_cache` | 2 callers, 3 fingerprints in 2 candidate sets, bound of 1 entry, 2 ticks of life, 4 stores | `NamesAreKnown`, `IndexesAgree`, `IndexIsBounded` |
| `sessions` | the pool: 2 requests, 1 place, 3 session names, 1 process left behind at a time, fair | `SlotsConserved`, `IdleIsQuiet`, `ProcessesBounded`, `NoOrphan`, `Served`, `Drained` |
| | a session: 1 turn, 2 notifications, 1 line given up, fair | `DeathEndsWaiting`, `CloseFinishes` |
| `qa_stream` | 2 requests, limiter of 1, attempts and pieces bounded | `LimiterConserved`, `EndsProperly`, `ImplementsEventStream` |
| `qa_stream_live` | 2 requests, limiter of 1, 1 may be left, fair | `LeavingStops`, `EveryStreamEnds` |
| `qa_stream_gone` | 1 request, 2 attempts, left by its client, fair | violated: `LeavingAlwaysStops` |
| `parts` | a search: 2 retrievers, 2 documents of 3 and 1 chunks, lists of up to 2, 1 change | `FusionIsFair`, `NothingIsStale`, `TakesFirstCurrent`, `FailsOnlyWhenItMust` |
| | an output: up to 6 of 5 tokens in pieces of up to 2 | `StreamMatchesParse`, `HoldsBackOnlyVerdicts` |
| | a text: up to 6 of 4 characters in 4 settings | `ChunksCover` |
| | a session: 2 turns, 2 notifications each, 1 line given up | `TurnHearsAll`, `DeathIsTold`, `ReadyIsQuiet` |
| | a turn: 2 messages of up to 2 deltas, any of them lost | `TextIsWhole` |
| | a health check: 2 probes, limits of 2 and 3 ticks in either order or equal | `ReportIsRight` |
| | 3 threads and up to 3 loads | `LoadedOnce` |

The type invariant of each module with proofs is the first part of its inductive
invariant, which TLC checked on these instances before it was proved; the theorem says
more than a run of it would, so no run goes on checking it. The same holds of
`ReplacementIsAtomic` and `LentOnce`, which are theorems.

**Bounds.** Two revisions and two signatures give every case of
`_purge_previous` (same revision, other revision, other signature only). Two
batches let an upload fail with one batch written. Two faults let a roll-back
fail after the failure that caused it; a second restart lets a start-up be cut
short and repeated. Four requests are needed for: upload, replacement, failed
deletion, upload again. In `AnswerCache` two questions of one meaning let a request be
given the other's entry; two changes are a change and the one that refutes its
verdict. In `RedisCache` a bound of one entry makes the second store evict; four stores
let two of them cross an eviction and a third use what is left; two ticks separate an
entry that was stored again from one that was not. A pool of one with two requests has
every contention there is between a waiter and a holder; two more session names than
places let processes be replaced while the last one is still reaped or is left behind with
its close cut, of which one at a time is enough (`MaxLeft`). Two streams on a
limiter of one: one holds the place while the other fails or leaves. `Leavers` says
which clients may leave; with `MaxPieces` of 0 (`qa_stream_live`) a generation has no
text and every stream is at its shortest, which is enough for who waits for whom. A
search of two lists of two has ties, common and single chunks, a chunk that is gone and
one that takes its place; a third list would add no case of the disposal, since each
retriever is required or not, dense or not, and fails or not. Two verdict lines with a
common beginning, the newline, a blank and text fit into six tokens, so every place of a
cut occurs. Six characters hold a paragraph break, a sentence and a word for each of the
separators; the settings are an overlap of half, of a third, of all but one and one with
room for a whole text. A second turn of a session is the first that could hear what is
left of another; a second notification is the first behind which an end can come, and one
line given up leaves the rest to be heard. Liveness of a session is checked for one turn:
who waits does so within one, and a second only repeats it. Three threads at a lock are a
holder and two who come to their second look, one of them after a failed load. All
`Max...` constants are bounds of the instance, except `MaxEntries` and `MaxAttempts`,
which are settings. Where the bounds stop a run, or the system may stop, deadlock is not
checked; in `CircuitBreaker`, which needs no bound, it is.

**Violated properties** are statements of the repository that the code does not
meet, each in a run of its own: `findings` in `PROJECT.json` quotes the statement.
In short: a deletion that fails half way makes the next upload of the same bytes
"unchanged"; a negative verdict stored after the invalidation that was to remove it
stays; a client that leaves while a failed generation is settled does not stop the
next attempt.

More differences between the code and what is written about it were met while
modelling and have no run. After the cooldown every request is a probe until the first
returns (`services/cache.py:85` speaks of one). Invalidations call the storage while the
breaker is open (`config.py:161`). A fingerprint left in a tag set lets one document's
change remove an entry on other documents (`adapters/cache/store.py:256`). A request past the
check for closed is lent a session after `aclose` has returned (`adapters/llm/pool.py:55`);
`Drained` says the process ends with that request. A generation that fails with an
exception other than the three of the domain cuts the stream without a last event
(`services/qa.py:351`); `EndsProperly` excuses that case by name. And the eviction of
`RedisCache` cuts the index by rank and the payloads by the fingerprints read before, so
that an entry may stay behind outside the index; `IndexIsBounded` is of the index.
Nothing shields the `close()` of `start` and of `acquire`: a request that is cancelled
there, be it a second time, leaves a process with the SIGTERM it was sent, whose exit code
nobody waits for (`adapters/llm/session.py:124`, against `:308`), and gives up its place, so
that the next request may start one process more than the size of the pool. In `Session`
this is `CloseCut`, which `CloseFinishes` excuses; in `SessionPool` it is `CutClose`:
`ProcessesBounded` counts such processes apart, `NoOrphan` says that they have their SIGTERM
and no more, and `Drained` says that no other process survives, since one that ignores the
SIGTERM stays for good. A search that had to do without an optional retriever or the
reranker may find nothing, and its "no answer" is stored like any other
(`services/retrieval.py:261`, `services/qa.py:388`); so is that of a search after a deletion
that failed half way. `SoundEntriesAreRight` excuses both. The write of an interrupt has no
time limit (`adapters/llm/codex.py:221`): a server that does not read keeps the settling
waiting.
Probes of the vector store that hang keep their threads of the executor that all
offloaded work shares (`adapters/vector_store/probe.py:33` speaks of the response time
only). And an item whose deltas have no text counts as streamed, so that its whole text would
not be used (`adapters/llm/codex.py:53`); `TurnReader` relies on the two being the same.

**Fairness.** `Ingestion`: every coroutine goes on when its call returns (weak
fairness of `Progress` and of start-up). A lock or limiter is a FIFO queue
in asyncio and anyio, so a waiter is served if it is released again and again:
strong fairness of `Lock` and `EnterLimiter`. Faults and crashes are never forced.
`CircuitBreaker`: calls end by their timeout and time passes. That questions keep
coming is an assumption of the two liveness properties themselves (`Traffic`), as is
that the services eventually stay as they are. `SessionPool`: a request goes on (weak fairness of
`Continue`), since its starts, threads, turns and waits for an interrupted turn have time
limits in the code. Two waits have none and are assumed to end: the yield of a piece of text
(`adapters/llm/codex.py:158`), whose consumer reads on or closes the generator, and the
write of the interrupt (`:221`). A close that is not cut ends with its process, by SIGKILL
if need be (weak fairness of `EndAwaited`); one that was cut promises nothing. The semaphore
is FIFO (strong fairness of `Take`). Nobody has to ask, die, be cancelled or close the pool. `Session`: the tasks run on (weak fairness of `Proceed`), the event loop
reads to the end of the output and collects the exit code (`ReadOn`, `Reap`), SIGKILL
works (`DieOfKill`), and a close goes on, by its grace if by nothing else (`Finish`).
Nothing is asked of the server, which may fall silent or ignore SIGTERM, and no other
time limit has to strike, so that `DeathEndsWaiting` rests on nobody's patience. `QaStream`: a generation has a time limit and the pump goes on (weak
fairness of `Pump`), the limiter is FIFO (strong fairness of `EnterLimiter`), a client
that stays reads (weak fairness of `Respond`), and a cancellation that is repeated
arrives again (weak fairness of `CancelAgain`). No client has to leave.

## Proofs

All theorems are proved by TLAPS for every value of the constants that meets the
named assumptions of the modules (positive numbers of batches, threshold and
cooldown, sizes and limits; positive weights of the retrievers, of which there is at least
one, as the constructor asks; a reranker's scores are numbers; there are probes, revisions and
lines of verdicts; finite sets of requests where they are counted; the markers such as
`NoDoc` are no member of the sets they mark absence from; `Answers[q]` is a part of
`Finds[q]`). Each inductive invariant was checked by TLC before it was proved.

`IngestionProofs`. `IndexedIsComplete` is not inductive: a step of an upload keeps it
only because nobody else works on the document and because what it deletes is not
what the record names. `IInv` adds `LockInv` (the lock names the one request at
work), `RecordInv` (an upload knows the record as it is, and what it is about to
purge is of another generation), `WrittenInv` (counted batches are in both
indexes), `StartupInv` (reconciliation deletes nothing a matching record stands
for) and `RemovalInv`. `StepInv` has one step per action. From it follow
`DeletionComplete`, `KeepsPromise` (each step maps to a step of `DocumentStore` or a
stutter; the mapping's state "torn" is never reached), `AtomicReplacement` and, with
`ResidueInv`, `ResidueHasCause`.

`AnswerCacheProofs`. `AnswersAreCurrent` needs `CurrentInv`: from the moment the entry
or the search results are in hand every current version has been `seen`, and what
has been checked was current when it was. `NothingOutdated` follows whatever
failed or raced, so it does not rest on the invalidation at all: verification alone
carries it. `InvalidationWorks` says what the invalidation does carry
(`SoundEntriesAreRight`): sources are current, and a negative verdict holds of all that can
be found, unless the search behind it was partial. It rests on `CalmInv` (a request no change
overlapped has only what is current and, its search being complete, all the material there is
to find), `TagInv` (an entry to be counted on stands under each of its tags, and an
invalidation past its reading holds it in hand) and `RightInv` (such an entry is right, or the
change that made it wrong has yet to come to it): the three calls of an invalidation need no
order with the stores but that.

`CircuitBreakerProofs`. `CountInv` (a healthy storage leaves no count) and `ArmedInv`
(an open breaker's age is the time since the last recorded failure) make
`OnlyStorageOpens` and `ProbesAreSpaced` inductive.

`SessionPoolProofs`. `SlotsConserved`, `LentOnce`, `IdleIsQuiet` and `NoOrphan` need each
other: that an idle session has no turn rests on what a request knows of the session in
its hand (`WorkInv`), and that on nobody else holding it. `PlaceInv` says where a process
can be: idle, in a request's hand, left behind by a cut close, or ending with `aclose`; the
last two are what `ProcessesBounded` does not count. `RoomInv` (idle sessions and sessions in hand fit into the size) is what makes
`ProcessesBounded` follow although idle sessions occupy no place.

`QaStreamProofs`. `Chained` and `Accounted` say that client, queue and pump hold one chain
of events, each fitting what comes before, which ends in what the service believes it has
sent; a cancellation may cut the chain anywhere. `KeepsGrammar` maps every step to a
step of `EventStream` or a stutter; `LimiterConservation` needs the same invariant only
for its types. `EndsAsPromised` adds what was `Told` and what has `Ended`: who is past the store
has an entry in the cache, and a stream may end without a last event only where the client
left or the generator failed in a way the service does not know.

`RedisCacheProofs`. `OutliveInv` (no payload outlives the names) gives `NamesAreKnown`;
`IndexesAgree` is kept because every step that treats the indexes differently is in
`raced`; `IndexIsBounded` needs the sizes of sets: an eviction that leaves too much leaves
another store that owes it, since what it removed itself was all it owed.

`SessionProofs`. `DeathIsTold` needs `ToldInv`: whoever waits for an answer has its call in
`_pending` while the session is alive, and whoever listens is subscribed, so that the one
`MarkDead` that counts reaches both; and nothing is fed once the end mark was.
`ReadyIsQuiet` needs `QuietInv`: the pipe to the server holds at most one call of a turn,
the end of a turn is the last notification behind whatever is still on its way, and so
whoever has found it may conclude that stdin, stdout and server are done with the turn.
The end of a turn is followed from the server through the pipe and the queue into
`completed`, one step of `QuietStep` per action. `TurnsHearAll` needs `HearInv`: the places of a
turn's notifications rise from what was heard over the queue to the pipe, and whatever the
server has said is in one of the three or was given up by the reader.

`PartsProofs` is about the parts that `MCParts` runs.
- *Recursive functions.* `Induct` is induction over a set of numbers, got from the theorems on
  finite sets, since the library's own theorem takes an operator. With it `Recursion` shows that
  a function given by its steps exists, and hence what `Only`, `Total` and `Unit` are: `OnlyIs`,
  `TotalIs`, `UnitIs`. `OnlyConcat` says that a comprehension of two parts is made of theirs.
- *Order.* `RankedIs`: sorting by score and key is an order in which each key has one place. The
  keys before a key are a proper part of those before any key behind it, so the places are
  one to one, and there are as many as keys.
- *Fusion.* `UnitDivides` makes a term exact, `TermFalls` makes it fall with the rank, and
  `TotalGrows` compares sums part by part, with equality only if all parts are equal. From these
  and `RankedIs` follows `FusionIsFairToLists`.
- *Retrieval.* `SearchTypeInv` says that all lists hold keys of the versions searched.
  `WindowsAreOnePass` rests on `TakeInv`: what is kept is what one pass keeps of the order up
  to the cursor, and only documents of that part or of the window ahead have been asked about;
  `OnlyConcat` carries it over a window. `AnswersAreCurrent` adds `HeldInv`: what is current
  after the order stands is in the history `held`, and so is what was judged current.
  `FailuresAreDisposedOf` follows from `FailInv`, who has taken part so far.
- *Chunking.* The slices make `SplitUnits` leave no gap over the budget (`SplitUnitsIs`); so
  the cores are a chain from the first character to the last with room for the overlap
  (`CoresAre`). `Cut` says of the chunks made so far that they hold all that is not blank up to
  the end of the core, and that starts and ends advance: `AddCoreIs` keeps it over one core, the
  overlap included, whose start may be moved but never past what the chunk before has.
  `ResplitIs` shifts this into a span, `ShrinkIs` and `GuardedIs` collect it.
- *VerdictSplitter.* `SplitInv` compares the splitter's state with the reading of the whole
  output so far; lemmas on `LStrip` and the beginnings of a line carry it over a chunk.
- *TurnReader.* `ReadingInv` says of each message what of it was fed, in which form and order.
- *Health.* `HealthInv`: what a probe found before the reply, nothing changes.
- *LazyLoad.* Whoever is past the lock holds it; whoever returns has seen the instance.

Only model-checked: liveness (`RequestsFinish`, `Recovers`, `DeadStoreIsLeftAlone`, `Served`,
`Drained`, `LeavingStops`, `EveryStreamEnds`, `DeathEndsWaiting`, `CloseFinishes`; the prover
does not do fairness) and the violated properties. Every invariant and every other action
property of the passing runs is a theorem.

## Plan

1. Done: `Ingestion` over `DocumentStore`, `AnswerCache`, `CircuitBreaker`, `SessionPool`,
   `Session`, `QaStream` over `EventStream`, `RedisCache`, `LazyLoad`, `VerdictSplitter`,
   `Fusion`, `Retrieval`, `Chunking`, `TurnReader` and `Health`, all with proofs. Every safety
   property of the runs is a theorem.
2. `Session` as an implementation of what `SessionPool` says of one of its sessions.

## Not modelled, and why

Parsers and the inference of the embedding model, the tokenizer and the reranker are
library calls: the callers' models take their results and failures as they come; only the
loading is modelled. `_validate_markers` of `core/prompting.py` is straight lines
that a unit test reaches. stderr of a session is read and forgotten. Queries of the
two indexes, schemas, validation, logging and error translation hold no state the
properties could relate. The demo UI is a client outside the service. The Redis and
embedding services appear as the environment (`StoreChanges`, `EmbedderChanges`).
The repair of chunk metadata at start-up is for chunks that an earlier release wrote
without a version key; here there are none, so it changes nothing.
A call that fails after it took effect is not a case of its own where the next
action's failure leaves the same state (`AddVecFails` says which).
