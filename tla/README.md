# Verification of AstraStudio

AstraStudio is a self-hosted assistant: a React client, a Python backend that speaks Socket.IO and REST, and services for models, retrieval, speech and OCR around it. The modules in this directory model the concurrent core of the backend and of the retrieval service in TLA+. TLC checks them on small instances; TLAPS proves every safety property the passing runs check for every value of the constants, within the assumptions named in section 4. Liveness is model-checked only.

Everything is translated from the source at the lines `PROJECT.json` names under `map`. Paths below are relative to `src/`.

## 1. Inventory

### Parts, their state and how they interact

| Part | State | Operations | Talks to |
|---|---|---|---|
| **Chat handlers** (`backend/realtime/handlers.py`) | per socket: `_generation_seq`, `_stopped_upto`, `_user_rooms`; per task: `_my_generation` | `connect`, `disconnect`, `stop_generation`, `chat_message`; branches direct, agent, coding, chain, media, multi-model | everything below; worker threads call back into the stream |
| **Agent chain** (`backend/agents/chain/runner.py`) | steps answered | head, one call of the direct handler per agent, end | chat handlers |
| **Streamed answer** (`handlers.py` 100-232, `SocketContext.tsx`) | `state` under a thread lock; in the client `lastStreamSeqRef` and the message | callback, pump, flush, completion; receive | model client thread, event loop, socket |
| **Model client** (`llm_client.py`, `agent_llm_svc.py`, `llm_providers/`) | provider registry, health cache | `ask_agent` and its streams; every failure becomes a text | model service |
| **Multi-model answers** (`handlers.py` 1654-2334) | a slot per model | one task per model, `_emit_complete`, gather, save | chat handlers, tool loop |
| **Tool loop, sub-agents, coding agent** (`mcp/agent_loop.py`, `mcp/prompt_fc_handler.py`, `agents/subagents/`, `coding_agent/`) | messages, steps left, cards of running calls | model call, tool calls of a step in parallel, stop between them | MCP sessions, model client |
| **MCP sessions** (`mcp/session_pool.py`, `mcp/session_manager.py`) | idle sessions and a lock per server, `_active` per request | acquire, release, discard, eviction, shutdown | MCP servers |
| **Conversation store** (`database/memory_service.py`, MongoDB) | messages with alternatives | save a question, save or replace an answer | chat handlers |
| **Reindex queue** (`SVC-RAG/app/services/reindex_queue.py`) | generation per key, `_active`, a semaphore, the cluster lock | `bump`, `run`, status | endpoints of knowledge bases and projects |
| **Knowledge base** (`SVC-RAG/app/services/kb_service.py`, `index_batching.py`, `text_duplicate.py`, repositories) | document rows, one vector table per embedding dimension, cache of text fingerprints | upload, delete, reindex one or all | queue, model service, PostgreSQL |
| **Keyword index** (`bm25_index.py`, `bm25_store.py`) | index in memory, `needs_rebuild`, claim, timer, lock; stored copy | search, load, build, save, release, `mark_dirty` | knowledge base, PostgreSQL |
| **Retrieval** (`retrieval_pipeline.py` ...) | none that is shared | vector, keyword, graph and fused search | keyword index, rerankers |
| **Backend flags** (`backend/routes/rag.py`) | `_active_reindex`, `_cluster_reindex_active` | raise on request, lower on a poll | SVC-RAG, client |
| **Model service** (`llm-svc/`) | replicas per model, a lock per replica, LRU, the lock of a switch | load, restore, chat, stream, trim | threads of the executor, GPU |
| **Embedding and reranking service** (`SVC-RAG-MODELS/`) | LRU cache of models, a lock per key | load, embed, rerank, evict | knowledge base |
| **Speech, OCR, image services** | none | one call each | backend |
| **Auth, settings, plugins, routes** | tokens, lockout counters, settings file | CRUD | backend |

### What is hard

* **Concurrency.** Each Socket.IO event and each HTTP request is an asyncio task: atomic between awaits, interleaved at them. Model calls run in worker threads that call back into the loop.
* **Stop.** A press must reach exactly what already runs on that socket, at any of some twenty awaits, and must leave behind what the user saw.
* **Failure.** Every save, query and model call may fail; several of them must not be half done.
* **Ordering.** Stream packets, slots of the semaphore, ids drawn before their rows are visible, a fingerprint read before the texts it stands for.
* **Restart.** The queue and its generations are in memory, the vectors are not.
* **Staleness.** Generations, fingerprints, `needs_rebuild` and the stop are all read before an await and used after it.

### What makes each part correct

* Chat: a stop reaches what runs and nothing else and is not taken back; each request ends unless a tool never answers, with one announcement; no answer without its question; shown text survives a stop.
* Stream: versions in order, none twice, completion after the newest, the answer on the screen never goes back.
* Queue: no slot lost or doubled; a cluster run is alone; nobody waits for ever.
* Passes: a document that passes did not have at once has the vectors of exactly one pass or none; what an outdated pass gave up, somebody else takes over.
* Uploads: one document per text, however many copies arrive at once, and not none; who was told "indexed" keeps the vectors.
* Keyword index: a stored index taken for fresh is complete; a search finds what was announced before it began; every search ends; memory comes back.
* Several models: each slot is closed once, stored as what it was announced as, and not announced with an answer after a stop.
* Tool loop: no card spins for ever, no model call and no step is begun after a stop, the calls of a step end with it, only a tool that does not return keeps the loop.
* MCP sessions: a session serves its own user only and one request at a time; none leaks but by a shutdown or a cancelled subagent; no lock is kept.
* Model service: the bookkeeping of the pool fits what is in memory, the bound of loaded models holds, one thread per Llama, nobody waits for ever for a lock that somebody will give back.

The list of hazards, each at its line and with the properties aimed at it, is in `PROJECT.json`. Those without a property have a note.

## 2. Modules

| Module | Models | Composes |
|---|---|---|
| `StopPromise` | abstract: what the Stop button promises, without numbers | |
| `GenerationNumbers` | numbers of generations per socket, the recorded stop | implements `StopPromise` |
| `ChatGeneration` | one `chat_message` from event to saved answer, in five branches | extends `GenerationNumbers` |
| `LatestWins` | abstract: a channel that may skip versions but ends with the newest | |
| `StreamPump` | throttled stream of answer and reasoning, flush, stop, and the client | implements `LatestWins` |
| `ReindexQueue` | slots, cluster lock, generations, cancellation | |
| `KbReindex` | passes over documents in waves, rollback, tables, restart | extends `ReindexQueue` |
| `KbUpload` | concurrent uploads, deletions, failures | |
| `KeywordIndex` | shared index, its stored copy, and writers of the corpus | |
| `MultiLlm` | several models on one question, from the gate to the stored slots | extends `ChatGeneration` |
| `ToolLoop` | native and JSON tool loop, the calls of a step, subagents side by side | |
| `McpSessions` | pool of sessions, requests with a manager each, cancelled subagents, evictor, shutdown | |
| `LlamaPool` | loads, chats, trims and restored defaults over replicas | |
| `ChatProofs` | theorems about `GenerationNumbers`, `ChatGeneration` and `MultiLlm` | extends `MultiLlm` |
| `ReindexProofs` | theorems about `ReindexQueue` and `KbReindex` | extends `KbReindex` |
| other `*Proofs` | theorems about the module they are named after | |
| `MC*` | constants for TLC | |

A history variable says so in its comment (`stopHit`, `afterStop`, `asked`, `outcome`, `mixed`, `deleted`, `faulty`, the status of a document, `excused`, `told`, `lost`, `dropped`, `left`, `late`, `live`). An operator named as a mutant is not part of any specification; it states a plausible bug that the property listed with it in `PROJECT.json` finds.

### How the modules correspond to the code

**`ChatGeneration`.** `pc[g]` is the await at which the task of request `g` is suspended, one value for each await after which the code looks at shared state or leaves the handler. An action is the code between two awaits. `ChatStop` and `ChatDisconnect` are the socket handlers. The model call is two steps: `Produce` (the stream shows content) and `LlmReturns`; a failing model returns a text, since `ask_agent` turns exceptions into one (`resp = "outage"`). `Fail` is the handler's outer `except`. `Modes` chooses the branches an instance has. The awaits after which the code looks at the stop no more are `PastLastLook`.

**`StreamPump`.** Each section under `state`'s lock is a step of the worker, of the pump or of the handler's flush. A version is the number of a callback. `role` says whether it is a text of the answer or of the reasoning: both go through the one slot `pending` and one counter of packets, but the client filters answer packets (`ReceiveChunk`) only and takes reasoning as it comes (`ReceiveThinking`, `thought`). The connection keeps its order, and the client may see packets in any order, which is more than Socket.IO does and what the client's filter is there for.

**`ReindexQueue`.** `value`, `waiters` and `granted` are the fields of `asyncio.Semaphore` (Python 3.11): a released slot goes to the first waiter that has none, who holds it before it is resumed. `Take` is `run()` from one await to the next.

**`KbReindex`.** `rows[d]` holds vectors as pairs of the run that wrote them and the wave. The insert has a UNIQUE key per table, so a wave that another pass has stored makes the insert fail. `Restart` empties the queue. `mixed` is the history of documents two passes had in hand at once, or one that a restart cut off; a pass that is alone with such a document and deletes its vectors takes it out. `BaseDocs` are the document lists of requests for one base, which come under the cluster key.

**`KbUpload`.** Ids are drawn (`DrawId`) before rows are visible (`CommitRow`). `InOrder` assumes that ids become visible in order.

**`KeywordIndex`.** A query is two steps: the database answers, the coroutine resumes. A chunk is its id; a document has one chunk. A reindex pass draws a new one. A document is announced when its upload has returned; it is *overtaken* if its `mark_dirty` fell between the reading of a corpus or a stored index and the end of that build or load, when the code loses the mark. The module is about the index without a white list of documents; the index of a project has the same code.

**`MultiLlm`** adds to `ChatGeneration` a task per model of one request. `at[g][m]` is its await: the tool loop, the plain call, the grounding of either, or the emit. `told` is what the client was sent for a slot, `kept` what the history got. The other branches stay as they are, so that a stop and a disconnect meet them all.

**`ToolLoop`** is one run. `mode` is the loop it is in; a failed native call, or calls spelled as text, lead to the JSON loop, which begins its steps anew. The calls of a step are a batch: MCP and other tools run one by one, subagents up to `Parallel` at once. `card[i]` is what the interface shows for a call. `late` records what is begun after a stop: model calls, steps, single calls and the closing answer. The native loop asks `should_stop` at its head and after the model's answer, not between the calls of a step; the JSON loop is not given it. A call comes back in `EndCall` or `BreakCall`, or never. What a subagent does inside its call is a loop of the same kind and not modelled.

**`McpSessions`.** A session is a record: the request that opened it (whose headers it carries), its position in that request's list, and its server. `Keys` is `_pools` as the evictor and the shutdown walk it: the servers with idle sessions, in any order, and some whose deque is empty. The evictor and the shutdown are tasks like the requests; each has the await of a lock and of a close. `old` is which idle sessions are past their TTL; time passes in `Expire`. `Subagent` are the requests a broken step may cancel (`Cancel`), at the awaits where `request_sessions` does not catch that; `dropped` is the history of the sessions lost by it.

**`LlamaPool`.** A replica is named by the request that built it; a reload of a model gives other replicas. `switch` is `_model_switch_lock`, with its queue. The sections under `_registry_lock` have no await inside and are part of a step. `thread[t]` is the executor's thread that computes for `t`; nobody can stop it, and the failure of a load, the memory for fewer replicas than asked and the client's disconnect may come at any time. `Disconnect` reaches the generator at an await, whose `finally` gives the replica back; `DisconnectAtChunk` closes it at the yield of a chunk, and the replica stays locked.

## 3. Runs

| Run | Instance | Shows |
|---|---|---|
| `chat` | 1 socket, 2 generations, all single-model branches, chains of 2 | stops, ends, kept text, the promise of Stop |
| `multi` | 2 sockets, 1 generation, 3 models, every branch | slots, their storage, no answer after a stop, every request ends unless a tool hangs |
| `stream` | 4 versions of either role | stop, screen, promise, end |
| `queue` | 4 runs, 2 entities and the cluster key, 2 slots | slots, exclusion, flag, every run ends |
| `reindex_redone` | 3 runs, own documents, restarts | abandoned work is taken over |
| `reindex_whole` | 2 runs, 2 slots, 2 waves, 2 dimensions, a document two entities share, one base, restarts | whole or nothing; counted is indexed; every request ends |
| `upload` | 3 uploads, 2 files of one text and 1 of another | twins, kept documents, copies |
| `keyword` | 2 searches, 2 documents, 2 ids | completeness, answers, end, memory |
| `llama` | 3 requests of any kind, 3 models, room for 2, 1 replica each | pool, bound, every request ends or is starved |
| `llama_shared` | 2 requests, 2 replicas each | *violation*: two threads on one Llama |
| `mcp` | 3 requests of 2 users, 2 of them subagents, 2 servers, pools of 2 | owners, leaks, size, every request ends |
| `tools` | 3 steps, 2 in the JSON loop, 3 calls a step, 2 subagents at once | cards, stop, containment, the loop ends unless a call hangs |

**Why these bounds are enough.** Interference between generations is pairwise (they share two counters of a socket), so two on one socket show it; a second socket only matters for `Disconnect` and liveness. A chain of two has a first, a last and an in-between. Models of one request share nothing but the stop, so with three one is done, one is at its await and one falls back. Four versions fill the pump (one being sent, one pending, one past its check) and leave one to come. Four runs on two slots give a holder, a granted waiter, a cluster run that has some and waits for more, and one behind the lock. Two waves have a first and a last, and a rollback between them. Three uploads have the older, the younger and the one in the middle that yields to the first while the third yields to it. Two searches share a build and each can be the one that waits; two ids let a corpus change while it is read. Three requests on two models in memory have one that loads, one whose model is evicted for it and one that waits for the lock; the third model is the one there is no room for. Three MCP requests have one that holds a session, one of the same user that would take it and one of another user that must not; one of them uses two servers, as locks are per server. Three calls a step have two beside each other and one that waits; three steps have a first, a last and one between for the reminder. `keyword` was also run with three documents, four ids and one search. `Chunks`, `MaxId`, `MaxWaves` and `MaxCalls` bound counters that grow without end in the code; `ChainLen`, `Limit`, `PromptLimit`, `MaxLoaded`, `Replicas` and `MaxSize` are settings of the code with small values.

Deadlock is not checked: in every instance the requests are finitely many, and when all are answered the system rests. That nobody waits for ever is stated as a liveness property instead.

**Symmetry** is used in `chat`, `reindex_redone` and `upload` only, over requests, runs and uploads that no constant tells apart: runs that check a liveness property have none. In `llama` requests differ by what they ask for only, so `MCInit` begins with one order of them; as it restricts the initial states alone, liveness is not affected.

### Fairness

* `ChatGeneration`: weak fairness of each task that is not in a tool loop (`AwaitsTool`). The event loop resumes a task whose await is over. A call of an MCP tool carries no timeout (`mcp/client.py:115`; `platform.py:189` and `agent_loop.py:567` add none), so nothing is assumed of the awaits that contain one: required subagents, the tool loop, the coding agent. It is an assumption that the others end: the HTTP calls of models, plugins and media carry timeouts; the database is taken to answer.
* `StreamPump`: weak fairness of worker, pump and handler; the pump's sleep and the flush's poll are timers of the loop.
* `ReindexQueue`, `KbReindex`: weak fairness per run. asyncio's locks and semaphore are first in, first out; embedding calls and queries have timeouts, so a job ends.
* `KeywordIndex`: weak fairness of each search after it was begun (queries have `QUERY_TIMEOUT`), of the end of a claim and of the timer. Nothing makes requests come.
* `MultiLlm`: the same, for a request with all its models, while neither it nor one of its models is in a tool loop. `GenerationSettles` says that a request ends or is in a tool loop for ever.
* `ToolLoop`: weak fairness of the loop's own steps (`Progress`), whose model calls have timeouts. The return of a tool's call is not fair. `LoopEnds` is about the loop's own bounds (steps, the one reminder, the change of modes): it ends, or one call never returns.
* `McpSessions`: weak fairness of each request, of the evictor and of the shutdown once it has begun; connecting and closing have timeouts.
* `LlamaPool`: weak fairness of each request. Its `_acquire_replica` polls with a sleep and takes whichever replica is free, so that a request may be passed over by others; in an instance the others are finitely many.
* `KbUpload` states safety only.

No property needs strong fairness. No user action (stop, request, deletion, disconnect) is fair.

## 4. Proofs

All theorems hold for any sets of sockets, requests, models, uploads, searches, documents, runs and servers, any number of versions, slots, replicas and calls, and any value of the settings. The assumptions on constants are the named `ASSUME`s of the modules; what goes beyond them stands in the theorem: `InOrder` (uploads and the keyword index), `BaseDocs = {}` (`AbandonedIsTakenOver`).

Each proof has the same plan: an invariant that steps keep, a lemma for each of its parts or each group of actions, the property from the invariant. What the invariants had to say beyond the properties:

**Generations.** `NumbersCorrect`: nothing is recorded as stopped and nobody holds a number that the socket has not handed out (`NumbersHandedOut`). `NumbersUnique` and the refinement of `StopPromise` follow: a new number is above the recorded stop, so no request is born stopped and none is released. Disconnect is the one step that maps to `Drop`.

**Chat.** Each step of a chat is a step of the numbering or leaves it alone (`NumStep`), which carries the promise over to the whole chat. `Control` says what a task's position tells about the rest of its state (has it a number, has it spoken, is its question stored); `OneTerminalEvent` and `AnswerAfterQuestion` follow. `StopMarks` relates the history of presses to the recorded stop, `EarlyStops` says that a task hit before its last look does not pass it with an answer; `HonoursStop` needs both; it is about requests that are not for media, whose handlers never look. `LastWord` says which ends come without an event: only that of a chain that finds itself stopped back in its runner (`ChatNeverSilent`). `ShownInHand` says that a request with text on the screen keeps it until it is saved (`ChatStopKeepsShownText`).

**Several models.** `MultiLlm` shares the gate, the question and the end with the other branches, so its invariant first says that a request for several models is in none of the others (`OwnBranch`), and what the shared steps do to it (`Moves`). `Row` then says, for each stage of the request, what the interface and the history know of its models: nothing; one end for each that returned; what was stored is what was told; only a stop leaves a model untold. `SlotsClosedOnce`, `KeptAsTold` and `StopSilencesModels` follow (the last: after a stop no slot is announced with an answer; an error or a common text may still be), and the promise of Stop holds for this branch too (`MultiKeepsStopPromise`, `MultiStopScope`).

**Stream.** `Flow`: a version is pending or being sent only while the flag `in_flight` is set. `Ahead`: what is pending is newer than what was taken, and that newer than what is on the wire. With them each packet continues the wire, and completion finds the newest version handed over (`StreamKeepsPromise`). `Cut` counts what may still come after a stop: the pending version and the one whose callback is past the check (`StreamStopCuts`). `Numbered` and `Shown` tie the number the client remembers to the text of the answer it shows, whatever the order of arrival and whatever reasoning packets come between (`StreamNewestShown`).

**Queue.** `Balanced` is the account of the slots: held, granted and free make `Limit`. It needs the sum over an unknown set of runs, stated by the cardinality of the pairs of a run and a slot. `TakenByStage` says how many slots a run has at each await, `FlagIsRun` whom the cluster flag is about. `QueueNeverStuck` adds who waits (`Waiting`), that a free slot is granted to somebody if anybody waits (`Handed`), and whose the cluster lock is (`LockHeld`).

**Passes.** `StageFits` and `DocsByKey` say what the position of a pass tells of its documents. `Answered`: each request is answered for by itself or by a later one that covers its documents, or it was cut off by a restart, failed or did everything; `AbandonedIsTakenOver` follows by going to the latest one. It excludes requests for one base, which come under the cluster key and answer for their own documents only (section 5). `RowsFit` is about one document at a time, as long as no two passes have had it at once and no restart has cut one off (`mixed`): at most one pass has it (`One`), and what is stored of it is what that pass, or the last one, has written (`Fit`). A document comes into it again when a pass that is alone with it deletes its vectors. So `PassesAreWhole` and `CountedPassesAreIndexed` need no assumption on the slots or on restarts; what they except is what the code does break (section 5).

**Uploads.** For `UploadNoTwins` the invariant has four parts: ids order the rows (`Numbered`), a row is visible before any later one looks (`Settled`, from `InOrder`), what was listed is what an upload has to compare with (`Listed`), and an upload past its comparison has no older twin left (`NoOlderTwin`). `UploadCopiesKeepOne` walks to the oldest copy: an upload yields only to an older one, and a chain of smaller ids ends.

**Keyword index.** The code tells corpora apart by their number of chunks and their highest id. That suffices because a fingerprint, once read, is *sound* for good (`SoundPrints`): no chunk it did not count is, or will be, at or below its highest id, and it counted at least as many as are left there. If the corpus has that fingerprint again, none of the counted chunks is gone, so the texts read later had them all (`SoundBlobs`). It needs ids to be visible in order (`InOrder`); with one out of order TLC finds an upload that replaces a deleted chunk below the highest id and leaves the fingerprint as it was. `IndexFindsAnnounced` goes on from there to what a search answers: each chunk is one document's (`Owned`), an id that was announced before a search is not drawn again (`Known`), and whatever an index is made from, in memory, on its way from the store or from the texts, has every indexed document (`AtHand`).

**Tool loop.** `CardFits` says which cards are open at each position of a call, `InTurn` that the calls which do not run side by side are one at a time, `StepInv` that a loop between steps has no call at hand. `CallsNeverStuck` and `LoopDescends` are the two halves of `LoopEnds` that need no fairness: inside a step a call runs, may start, or all are back, and each step of the loop lowers, in this order, the press of Stop to come, the change of modes, the steps left, the place in the step, the calls that wait, the calls that run.

**MCP sessions.** A subagent that is cancelled in a lock's queue leaves it, and one that holds a lock lets go of it, whatever it had in hand (`Cancel`). `Hands`: the evictor has sessions in hand only of the server whose lock it holds, so that `Idle`, the deque with what it will put back, is changed by nobody else. `Opened` makes a new session different from every other; `BorrowedOnce`, `Deques` and the two properties say where each one is.

**Model pool.** Five parts: who queues for the switch lock and that builds under it are its holder's (`SwitchInv`), what a request asks for (`JobInv`), keys and replicas (`KeysInv`), whose the replicas are (`ReplicaInv`: before a load has published, nothing in the pool is its work), the primary (`PrimaryInv`). `PoolBounded` is inductive with them.

**Nobody is stuck.** `QueueNeverStuck`, `IndexNeverStuck`, `PoolNeverStuck` and `RequestsNeverStuck` are the safety core of `RunsEnd`, `SearchesEnd` and the two `RequestsEnd`: in the first two somebody can go on while anybody waits, in the others whoever cannot waits for one who can; the one exception is a request of the model service all of whose model's replicas were left locked by closed streams (`Starved`). "Can go on" is spelled out as the guards of the actions (`GoesOn`), since the prover knows no ENABLED. All need that the queue of a lock has exactly those who ask for it, each once, also after a cancellation, a failure under the lock, or the cancellation that takes a subagent or the evictor out of a queue. That each wait also ends, under fairness, is left to TLC.

Proved and not run any more, since a theorem says more than an instance: `NumbersUnique`, `StopHolds`, `StopScope`, `AnswerAfterQuestion`, `WireInOrder`, and typing except where a property contains it.

**Only model-checked**: the properties with fairness (`GenerationSettles`, `AnswerFinishes`, `RunsEnd`, `RequestsEnd`, `SearchesEnd`, `MemoryReturned`, `LoopEnds`), which are out of the prover's reach, and the one that the code violates (`OneThreadPerLlama`). The part of `StopPromise` and `LatestWins` that is proved is their safety; neither states fairness of its own.

## 5. What the checks found

One run shows where the code does not do what a text of the repository says of it (`findings`): in `llama_shared` the client of a stream goes away, the generator's `finally` gives the replica's lock back, and the next chat starts a second thread on a Llama whose first one is still at work (`llama_handler.py:494` against 452).

Further divergences met while modelling, without a run of their own. The properties that pass say in their definition, or by the constants of their run, what they except.

* Image and video generation never look at the stop and announce a picture after it (`handlers.py:791` against the comment at 1041). `HonoursStop` excepts media requests.
* The client does not look at `stream_seq` of reasoning packets (`case 'thinking'`, `SocketContext.tsx:1283-1290`, and `applyToPendingSession`, 1003-1007), although `chat_thinking` carries it (`handlers.py:149-161`, and the comment at 135): a shorter reasoning text that arrives late replaces a longer one. And as both roles share `pending`, the last reasoning version may be replaced by one of the answer and never sent. `NewestShown` is about the answer only.
* A request for one base reaches the queue under the cluster key (`kb.py:344`, `rag_client.py:1229`, `reindex_queue.py:85`): it outdates every pass and redoes only its own documents. `AbandonedIsRedone` fails with it; its run has no such requests.
* An outdated pass looks at its generation between documents only (`kb_service.py:643`) and, with the default of two slots, mixes its chunks with those of the new one (against `index_batching.py:57`); so do passes of two agents that share a base, which are both current. `WholeOrNothing` and `CountedIsIndexed` except a document that two passes had at once, until a pass deletes its vectors and is alone with it.
* `mark_dirty` during a build or a load is overwritten by `needs_rebuild = False` (`bm25_index.py:322`, 245; `test_bm25_index.py:112` expects a search to see the change). `FindsAnnounced` excepts documents overtaken like that.
* A model of a multi-model request that is stopped in its tool loop returns `None`; gather's loop tells the client of an error with the text "None" (`handlers.py:2187`, 2266) and the history gets an empty text (2280). `KeptAsTold` compares kinds, not texts.
* The JSON loop cannot be stopped: `run_prompt_json_fc` has no `should_stop`, and `_run_prompt_json_fc` drops the argument (`agent_loop.py:60`). `StopEndsNative` is about the native loop. There the calls of a step that has begun go on being started after a stop: `_run_call` (`agent_loop.py:478-516`) and `run_tool_calls` (`parallel.py:53`, 70-72) do not ask. The fallback after a failed model call also loses `max_iterations`.
* A call of an MCP tool has no timeout (`mcp/client.py:115`), the stdio transport only one for its start, and a stop is not asked for while a call runs: a server that does not answer keeps the loop and the request above it for ever, and with them the card of the call. `LoopEnds` and `GenerationSettles` except exactly that wait.
* The native card of a call whose server gave no session is opened and never closed. `CardsClosed` names it.
* `connect_server` discards a pooled session with other headers (`session_manager.py:170`) where it could leave it to its owner: two users take turns in closing each other's.
* A shutdown of the session pool cancels the evictor together with the sessions it holds, and a `release` that waits for the lock at that time puts its session into the closed pool (`session_pool.py:159`). `NothingLeaks` allows for both (`lost`), at shutdown only.
* A step that breaks cancels its subagents (`parallel.py:79-85`). `connect_servers` is outside the `try` of `request_sessions` (`platform.py:417`), and it and `disconnect_all` catch `Exception` only (`session_manager.py:197`, 212): a subagent cancelled there leaves the sessions it has tracked, or still has to give back, open for ever, with the pool up. `NothingLeaks` allows for those (`dropped`) and no others.
* `discard_session` has no caller: a session whose call failed goes back to the pool.
* A stream whose client goes away while the generator is suspended at the yield of a chunk (`llama_handler.py:479`) is closed there: the inner `finally` yields `[DONE]` (492), Python raises "generator ignored GeneratorExit", and the outer `finally` (494) does not run. The replica's lock stays taken until the model is evicted and loaded again, against the docstring of `_acquire_replica` (65), which waits for a replica to become free. `RequestsEnd` and `NobodyStuck` of the model pool except a request that finds all replicas of its model abandoned (`Starved`).
* `_acquire_replica` asks `locked()` before it acquires, so that the acquire never waits: its queue is the poll, without order.
* With an empty pool a chat is refused with 503 before the load on demand is reached (`api/endpoints/chat.py`), although the log of `initialize` (`llama_handler.py:333`) promises a load "from chat".
* The default restored after a failed load is put in without a look at `LLM_MAX_LOADED_MODELS`: for that time the pool may be one above it. `PoolBounded` says so.
* An evicted model keeps its memory until its generation ends; the room made for the next one is on paper.
* `disconnect` forgets the recorded stop (`handlers.py:1026`) while the stopped task still runs; the comment at 416 says that everything up to the recorded number counts as stopped.
* A stop before the first token: `ask_agent` turns the blank answer into its outage text (`agent_llm_svc.py:550`), which the stopped branch stores as the text that was shown (`handlers.py:3480`).
* A model that dies in mid stream: the handler for it (`handlers.py:3439`) is not reached, since `ask_agent` returns a text; that text replaces what was shown.
* The queue has one entry per key: when two runs of one key overlap, the first to end removes the entry of the other (`reindex_queue.py:149`), and the status says idle while a slot is busy (against `kb.py:434`).
* A rollback deletes all vectors of the document (`index_batching.py:140`), also those of another pass; a cancellation between waves rolls nothing back, since `except Exception` (137) does not see it.
* An upload whose embedding fails deletes its document (`kb_service.py:447`) after later copies were told that they are duplicates of it. `CopiesKeepOne` allows for that.
* An upload whose second look for a twin fails leaves a row without vectors, which turns later uploads of the text away. `NoEmptyDocument` allows for failing queries.
* The client emits `resume_generations` (`SocketContext.tsx:738`, 985), which the backend does not handle.
* `flush`'s own emit of a tail never has one: while a version is pending, the pump is on its way (`Flow`).
* A search with vectors only voids the timer of the search before and starts none; the index stays until another key is searched. The comment at `bm25_index.py:56` speaks of a minute. `MemoryReturned` excepts it.
* `mark_dirty` while the index is being saved takes it from the search that saves, which answers nothing; the comment at 394 says that an index is never released while it is searched. `FindsAnnounced` allows for it (`excused`).
* A stored index may hold chunks that were rolled back after their texts were read; nothing compares them. Only completeness is claimed.
* One search that ends clears the claim of another request (`bm25_index.py:344`).

## 6. What is not modelled

`PROJECT.json` lists each part with its reason. In short: file formats, prompts, scores and other numerics, HTTP adapters, CRUD, rendering and configuration have no interleaving to check; hierarchical chunking and the document graph follow the passes they belong to; the vLLM handler only forwards; start-up and clean-up of the model service happen before and after all requests; the death of the process is modelled only where durable work is taken over after it (`reindex_redone`). Real time (grace periods, the length of a timeout) is abstracted to "may happen at any time".

## 7. Plan

1. Done: numbers and stop, chat, several models, stream, queue, passes, uploads, keyword index, model pool, MCP sessions, tool loop; each safety property that a passing run checks is a theorem, and nobody is stuck in the queue, the index, the sessions and the model pool.
2. Proofs that are left: measures like that of `LoopDescends` for a stream and for a pass, the part of their liveness the prover can do.
3. Compose an upload with a cluster pass (`KbUpload` with `KbReindex`), which share the UNIQUE key and the rollback.
4. `RagModelsCache`: cache, key locks, eviction. `EmbedBatches`: the bounded fan-out and the order of its results.
5. `ReindexFlags`: what the backend shows while polls and requests cross.
6. `ConversationStore`: regenerations of one message at once.

Each of them brings its own instance.
