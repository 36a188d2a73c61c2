# Verification of mini-minion

TLA+ models, TLC runs and TLAPS proofs for `minion_assist`, an assistant that
keeps its memory in JSONL transcripts, Markdown files and a PostgreSQL
database, and works on it from several threads: the threads that run turns,
four queue workers, five timers, a file watcher, the Matrix sync loop, the
terminal interface, MCP and Codex connections, voice, and command-line
processes beside it. Paths below are relative to `src/minion_assist/` unless
they start with `README` or `docs`.

## 1. Inventory

### The parts, their state and their operations

| Part | State | Operations that change it |
|---|---|---|
| Capture lane (`session/db.py`, `memory/capture_worker.py`) | `memory_capture_jobs`, `memory_proposals`; the worker's locals | enqueue, claim, extract, complete, index, fail, reclaim, prune |
| Coverage (`session/db.py`, `memory/reconciliation_scheduler.py`, `memory/consolidation.py`) | `session_job_coverage_ranges` | enqueue by a turn, by the reconciler, by the backfill command |
| Mirror (`session/db.py`, `memory/short_term.py`, `agents/session.py`) | the JSONL file, `messages`, `message_mirrors`, the list in memory | save, load, mirror a message, reconcile all sessions |
| Deletion (`commands.py`, `memory/cli.py`, `session/db.py`) | `deletion_tombstones` and all that belongs to a session | `/delete-session`, `verify-deletions --retry` |
| Agent turn (`agents/session.py`, `agents/runner.py`, `context.py`) | the history, the rounds of a turn | send, compaction, tool rounds, retries, rollback, Ctrl+C, `/new`, reload, `/compact` |
| Media lanes (`session/db.py`, two workers) | `image_captions`, `message_embedding_jobs`, `message_embeddings`, `messages.content` | caption, fold, embed, reconcile, prune |
| Commitments (`memory/commitment_worker.py`, `heartbeat.py`, `tools/commitment_response.py`) | `memory_commitment_jobs`, `commitments` | extract and merge, expire, list, deliver, mark, dismiss |
| Startup and shutdown (`minion.py`) | which parts run and which have been told to stop | start in order, finally clause, SIGTERM handler, joins |
| Daily schedules (`dreaming.py`, three more) | a timer and a flag each | fire, pass, rearm, stop |
| Session registry and sub-agents (`session/store.py`, `tools/spawn_subagent.py`) | `sessions.json`, its cache, children's records | create, touch, switch, spawn, join |
| Topic notes (`memory/files.py`, `service.py`, `consolidation.py`, `import_review.py`, `forgetting.py`) | Markdown files, revisions, proposals, drafts | remember, delete, draft, approve, reject, roll back, forget |
| Memory index (`memory/postgres_index.py`, `watcher.py`) | chunks, ledger of hashes, claims, pins, a debounce table | reconcile, sync, force, pin, watch |
| Search (`memory/postgres_index.py`, `service.py`) | locals of one search | lanes, pins, boundaries, fallback |
| Claims (`memory/knowledge.py`, `forgetting.py`) | markers in pages, `kb_claims` and its relations | index a page, forget a source |
| Schema and note migrations (`schema_migrations.py`, `memory/migration.py`) | ledger and advisory lock; manifests and backups | migrate, apply, roll back |
| Matrix (`matrix/`) | events seen, room sessions, the registry | sync, bind, turn on an executor thread, `/new`, `/session` |
| MCP client (`mcp/client.py`) | one session and lock per server, an event loop | connect, call, retry, reload, enable, disable |
| Providers (`providers/`, `auth/`) | the Codex process, its thread and tokens; a stream's accumulators | chat, turn, stream, refresh |
| Tools' gate (`tools/policy.py`, `bash.py`, `edit.py`, ...) | plan mode, remembered answers, audit log, files | check, ask, record, run; read, put |
| Voice (`voice/`) | flags, a queue of utterances, an audio queue | listen, transcribe, answer, speak, interrupt |
| Terminal (`tui/app.py`) | composer, active agent, the one streaming widget, the agents' locks | submit, stream, ask, spawn, switch agent or session |
| Configuration, prompts, skills, plugins, logs | read once, or written only | none that the others could race with |

### How they interact

* A turn holds `AgentSession._lock`, saves the user message to JSONL, mirrors
  it to the database, runs the tool loop, saves again and mirrors the rest,
  then enqueues a capture, a commitment and an embedding job. All database
  steps are best effort: an error is swallowed, and a timer heals it later.
* Every connection of `SessionDB` is in autocommit mode, one per thread: each
  statement is atomic, a method of several statements is not, except the
  few that open a transaction. The models therefore step by statement.
* The workers share nothing with the turn but tables. They claim with one
  `UPDATE ... RETURNING`, so a row is handed to one claimer; afterwards they
  update by id, without checking that the row is still theirs.
* The reconciler and the backfill command read the same file and tables as a
  turn and take no lock. Commands (`/new`, `/compact`, `/delete-session`) run in
  the channel's own thread, and `minion-memory` in a process of its own.
* Files (`sessions.json`, `codex-auth.json`, the notes) are read, changed and
  written without a lock. Calls that cross threads (MCP's loop, Matrix'
  executor, Codex' reader, the terminal's `call_from_thread`) wait with a
  timeout, or without, and what they wait for goes on after the timeout.

### What is hard, and what correctness means

Everything hard follows from four choices: autocommitted statements, best
effort with later healing, several actors without a common lock, and timeouts
that abandon what they waited for. For each part the property that matters is
that the healing works: nothing is lost beyond what a named fault costs, nothing
is done twice unless a fault paid for it, and what is marked finished really
is. `PROJECT.json` lists the hazards, each at its line with the properties that
would catch it going wrong, and a note where a property has to exempt a part of it.

## 2. Modules

A component has a module; eight `MC` modules check the components, and each of
their runs has a module of proofs, with a section per component it proves about.

| Module | Models | Correspondence |
|---|---|---|
| `JobLane` | what a durable queue promises | abstract: `state` and `attempts` per idempotency key |
| `CaptureLane` | the capture lane, statement by statement | `state`, `attempts`, `due`, `age`, `id` are columns; `pc`, `cur`, `snap`, `left` the worker's place and locals; `try`, `facts` history |
| `BackfillWindows` | `compute_backfill_windows` | a fold over the message ids, its accumulator the loop's locals; the ids come as `ORDER BY id` returns them (`Ascending`) |
| `CaptureCoverage` | the three producers of capture jobs | jobs and coverage rows are ranges tagged with their producer; `gaps` and `batch` are the windows a producer holds between scan and enqueue |
| `MediaLanes` | one message, its images, two queues | `content` counts how often each caption was folded in; `vector` is the content it was computed from; `outrun` and `cut` are history, the vectors no deletion caught and the images whose fold was cut off |
| `Supervision` | `main`'s start order, its finally clause, the signal handler | `next` is the next part to start or stop, `have` and `told` the parts; a worker's job left running is `stranded` |
| `Commitments` | the commitment lane and the heartbeat | `rows` is the table with, as history, how often a row was told and on which day; beat and worker have program counters |
| `SessionMirror` | mirroring and reconciliation | `file` and `copy` hold a message and its event id, `rows` and `mirrors` are the tables |
| `SessionDeletion` | deletion of one session | `done` is the set of tombstone phases; both deleters, the worker and the reconciler have a program counter |
| `AgentTurn` | one agent's turn | `lists` are the Python list objects, so that a compaction or `/new` that binds a new list while a turn holds the old one is visible |
| `MemoryIndex` | the index of one agent's files and the threads that keep it up to date | tables by column; `work` is each thread's place; `spoilt`, `missed`, `stray` history |
| `SchemaLedger` | `run_migrations` by processes of several releases | statements of three representative migrations, the advisory lock, the ledger, each process' place |
| `DailyScheduler` | the timer that four schedules share | hours of the wall clock against hours the timer counts |
| `TerminalApp` | the interface's thread, the turns', which may overlap, and their sub-agents' | `ui` is the agent whose lock the interface waits for; `stream` is whose answer the one widget shows |
| `ProviderWire` | assembling a streamed reply, translating a history | `acc` is `tool_accumulators`; one message holds one round's results |
| `CodexAuth` | the token file and its refresh | pairs of a login family; the server takes a refresh token once |
| `SessionRegistry` | `sessions.json`, its shared temporary file, sub-agents | a save is dump, open, write, close, replace; the handle stays on the inode |
| `CodexProvider` | one Codex process used by the agent and by workers | pipes as sequences; the reader's handler is `heard` |
| `VoiceSession` | capture, main and synthesis threads | flags and queues under their names |
| `VersionedNote` | what the undo history of a note promises | abstract: a value and a stack of the values that tracked writes replaced; a stopped operation may lose an entry |
| `TopicNotes` | one topic note and its writers | `file` is the Markdown file, `revs`, `previews`, `status`, `chunks` its rows in other tables; `work` is each writer's place and locals; `overlap` lasts until the last operation in it has ended |
| `ToolGate` | what stands between a call and its effect | the policy's sets, the audit log, a file as the set of marks written to it |
| `ClaimBook` | claims in pages and tables, `forget_source` | a page is its sequence of markers |
| `Recall` | one search beside reindexing | a page is one chunk; a lane returns a set of rows, a cut keeps any of them |
| `NotesMigration` | the notes' migration and its rollback | files by note, backups and manifests by run |
| `McpClient` | one server's connection | coroutines on the loop and callers that may have left them |
| `MatrixChannel` | events and the rooms' sessions | a callback's place per event; `seen` and `rows` are tables |

The components that run together share one table, file or list, and the module
is drawn around that: turn, reconciler and backfill in `CaptureCoverage`;
turn and reconciler in `SessionMirror`; command, retry, worker and reconciler in
`SessionDeletion`; both lanes in `MediaLanes`; worker, heartbeat and command
line in `Commitments`; the agent, two reviews, forgetting and an editor in
`TopicNotes`; startup, watcher, agent and commands in `MemoryIndex`; rooms and
command line in `MatrixChannel`; agent and workers in `CodexProvider`.

**The `MC` modules.** Each `EXTENDS` the component whose theorems or constants
it needs by name, and takes the others of its subject with `INSTANCE`. These
components share no state, so a product of their spaces would show nothing: a
variable `part`, chosen initially and never changed, says which of them moves
while the others stay where they begin. Every behaviour of every part is thus a
behaviour of the run. A property of a part is restated under its name; related
ones are conjoined (`CapsHold == QuotaHolds /\ OneCheckInPerExchange`), and
fairness is that of each part, restricted to where it moves.

### Abstractions

* Text is a model value or a counter. A message is its number, role and how
  many calls it makes; a fact is its index; a commitment is its dedupe key.
* A model call answers, calls tools, returns nothing, is cut off, or raises.
* Time is a step: a backoff elapses, a job grows old, a due time comes, an hour
  passes. Only the order of such steps and the statements can matter here.
* A path the policy denies (`PermissionPolicy.check_path`) is an outcome of the check.
* A database error is a statement that raises, taken before its effect; where
  the error is caught is the code's. A crash drops all locals and, in the
  models that have one, is followed by the startup sequence of `minion.py`.
* Code outside the repository (PostgreSQL, model APIs, the Codex process,
  Matrix servers, MCP servers) appears as the outcomes the calls distinguish.
* History variables are named as such where they are declared. Where a
  property holds only if some overlap did not happen, the overlap is such a
  variable, and section 5 says what the code does when it happens.

## 3. Runs

Every run sets `CHECK_DEADLOCK FALSE`: an assistant with no messages left and all
bounds used up has stopped, and may. The `violation` runs show the
disagreements of section 6.

| Run | Bounds | What it shows |
|---|---|---|
| `lanes` | 2 jobs, 2 attempts, 2 facts, 2 row ids, 1 error, 1 crash; 2 images, 2 faults; 2 of the workers, 1 signal, 2 starts | The row under the worker is never moved; a done job has all its facts; the lane implements `JobLane`; proposals survive pruning and the queue drains. A done caption is in the message, a stale vector was outrun by a fold or its deletion was cut off, text is embedded. No worker starts before a dead process' jobs are reclaimed, every part is told to stop, stopping ends |
| `commitments` | 2 exchanges, 2 rooms, 1 key, 1 a day, 2 a beat, 2 attempts, 1 fault or crash, 1 provider failure, 1 command | One pending row per key; the day's cap and the one check-in per exchange hold up to what faults cost; only pending rows are told and every row is settled |
| `sessions` | deletion: 2 proposals, 2 faults, 1 pass, 2 claims; mirror: 4 messages, 1 fault, timer on and off; turn: 2 turns, 2 rounds, 2 calls, 1 retry, windows 0 and 2, 1 disturbance, 2 sessions | The tombstone is ahead of what is gone, what is deleted stays so, the retry finishes. Copies agree on ids, the mirror follows the file. Requests pair calls with results, answers are on file, failures are rolled back, turns end |
| `memory` | 4 messages, windows of 2, scan limit 3, 1 fault, 1 backfill; histories over 6 ids with 2 ranges; 1 file, 2 texts, 2 writes, 1 command, 1 fault | Coverage is backed by jobs, no producer repeats itself, the windows equal a declarative reference, every message in the scan's sight is captured. The ledger of hashes vouches for the chunks, a claim is marked on its page, the index catches up |
| `operation` | 2 processes, 2 crashes, 3 starts; days of 5 hours, 1 clock change, 1 stop; 2 agents, one with a route prefix, 2 threads for turns and sub-agents; 2 calls of 2 pieces, 3 broken streams, 5 messages; 2 spawning turns, 2 children, a limit of 1, 2 sessions | The schema ledger never claims an uncommitted version. One pass a day, none after a stop. The composer comes back, a final answer is on the screen. Streamed calls arrive whole. The registry's file follows its cache |
| `threads` | 1 worker beside the session, 4 messages, 2 turns, 2 tries; 2 utterances, 3 chunks of 2 blocks; 2 writers, 1 proposal, 1 draft, 2 revisions, 1 stopped operation; 3 callers, 2 logins, 3 refreshes | What is said reaches the model and an answer is not missed. Barge-in is prompt and only overlaps are dropped. The note implements `VersionedNote`, again after an overlap or a stop, and a pending proposal stays where review finds it. Nobody has to log in again because two refreshed at once |
| `knowledge` | 2 agents, 2 commands, an audit log of 1; 2 pages, 2 markers a page; 3 pages, answers of 1; 2 notes, 2 runs, 2 edits | What runs was approved; an edit keeps the rest. Forgotten is forgotten, nothing in doubt is hidden. A search shows what is reviewed and in force. A rollback restores what the run replaced |
| `connections` | 2 callers, 2 commands, 2 coroutines; 2 rooms, 2 events, 4 sessions, 1 stop, 1 replay | One request at a time per session, a hung call holds up its own session only, shown as connected means callable. Rooms keep to their own sessions, an event is answered once |
| `mirror_stale_save`, `deletion_evidence_lost`, `turn_interrupted`, `media_never_reembedded` | the same modules, smaller | section 6 |

### Why the bounds are enough

Two jobs give the overtaking that one cannot; two attempts separate a first
failure, a last one and a success after a failure; two facts give a crash
between two inserts of one job. Windows of two, a scan of three and four
messages reach a full window, a partial one, a hole and a message out of sight;
one backfill is one producer that holds windows computed before the others'
jobs. One fault is what each promise of the form "healed later" allows for;
deletion has two, so that the retry is interrupted as well. Two rounds of two
calls distinguish serial from parallel tools, a refused call and the round
limit. Two commitments with one key are what a merge needs, and a cap of one a day
with two a beat makes the daily limit the one that binds. Two writers give
every overlap of two operations, two revisions a stack that can lose its order.
Two processes and two crashes give a migration replayed after one that was half
done; a third process adds a third waiter for the same lock. Days of five hours
with the configured hour inside have hours before and after it. Three callers of
the token file let a third refresh fall between the two halves of another's.
One file is all that a page's chunks, hash and claims can disagree about: pages
do not interact but through the claim, of which there is one. An audit log of
one entry reaches its limit at once. Two threads of the terminal are two turns, of
one agent or of two, of which the palette lets the second be started while the
first is in flight, or a turn and a sub-agent that outlasts it; the run leaves none
of these out. Two agents, one of which is asked, give an
edit overtaken by the other. Two rooms suffice for one to end up in the
other's session. Callers and commands of `McpClient` are interchangeable, and
the configuration's symmetry says so; `connections` has no liveness property,
where symmetry would be unsound.

### Fairness

Only of what the code keeps scheduling, weak unless said otherwise:

* `lanes`: the workers' loops poll, backoffs elapse, the embedding reconciler
  fires, a turn goes on; `main` goes on stopping and a Matrix turn ends. Nothing
  is assumed of enqueuing, retention, signals or restarts.
* `commitments`: the beat re-arms itself and due times come. Nothing is
  assumed of the extraction.
* `sessions`: `DeletionsFinish` assumes that the operator repeats
  `verify-deletions --retry`, for which the command is documented; no timer
  does it. The mirror's timer fires and a crashed program is started again. The
  thread that runs `send` goes on: calls to models have timeouts, tools return.
* `memory`: a turn goes on, the timer re-arms itself in `finally`, quiet time
  passes once users pause. Each thread of the index goes on, the watcher's
  thread polls its debounce table. Nothing is assumed of the backfill command.
* `operation`: the daily timer's thread and the clock go on; a thread of the
  terminal goes on and ends in the end, as a turn has a bounded number of rounds
  (strong fairness: between two events it could end); and the interface's thread, which serves what the turns'
  threads ask for in any order, serves each in the end, as the user answers
  each dialog: strong fairness, since other callbacks disable it meanwhile. A
  save goes on and a join times out.
* `threads`, `knowledge` and `connections` have safety properties only.

## 4. Proofs

Eight modules hold theorems, for every value of the constants. Each proof is
an inductive invariant: `Init => IInv`, `IInv /\ [Next]_vars => IInv'` with one
step per action, and the property from `IInv`. Those about a part of a
composite (`MCSpec`) add one lemma: a step of the composite is a step of the part
or leaves it alone.

| Module | Theorems | Property of a run |
|---|---|---|
| `Lanes_proofs` | `TypeCorrect`, `HeldJobIsUntouched`, `RetriesAreBounded`, `DoneJobsAreComplete`, `CaptureImplementsJobLane` | `HeldJobUntouched`, `DoneRecordsAllFacts`, `ImplementsJobLane` |
| | `CaptionsSearchable` | `CaptionsAreSearchable` |
| | `OnlyFinishedIsIndexed`, `WorkersSupervised` | the safety halves of `CapturesArrive`, `WorkersAreSupervised` |
| `Memory_proofs` | `CoverageIsBacked`, `NothingTwice` | `CoverageIsBackedByJobs`, `NothingTwiceNothingMissed` |
| | `IndexSound` | `IndexIsSound` |
| `Sessions_proofs` | `TypeCorrect`, `RecordDurable`, `DeletedForGood` | `RecordIsDurable`, `DeletedStaysDeleted` |
| | `RequestPaired`, `FailureRolledBack`, `AnswerOnFile` | `RequestIsPaired`, `FailedTurnIsRolledBack`; the last is the safety half of `TurnsAreAnswered` |
| | `MirrorKept` | the safety half of `MirrorFollowsFile` |
| `Commitments_proofs` | `TypeCorrect`, `OnePending`, `OnlyPendingTold`, `Quota`, `CapsAreKept` | `OnePendingPerKey`, `CapsHold`; the others are about their parts |
| `Operation_proofs` | `TypeCorrect`, `LedgerIsTrue`, `NoSecondAttempt`, `UpOnOwnSchema` | `LedgerVouchesForSchema`; the last two are stated there only |
| | `CallsMatchResults` | `CallsAndResultsMatch` |
| | `OnePassEachDay`, `AnswersReachTheScreen`, `RegistryKept` | the safety halves of `PassesAreDaily`, `ScreenFollowsTurns`, `RegistryIsKept` |
| `Knowledge_proofs` | `ApprovedRuns`, `EditsKeep` | `RunsAreApproved`, `EditsKeepTheRest` |
| | `RollbackRestores` | `RollbackIsExact` |
| | `ClaimsAccountedFor`, `SearchSound` | `ClaimsAreAccountedFor`, `SearchIsSound` |
| `Connections_proofs` | `ConnectionsSound`, `RoomsApart` | `ConnectionsAreSound`, `RoomsAreAnsweredApart` |
| `Threads_proofs` | `Heard` | `ConversationIsHeard` |
| | `PendingFound`, `NoteIsVersioned` | `PendingIsSearchable`, `ImplementsVersionedNote` |
| | `SpeechIsHeard`, `RefreshesDoNotCollide` | `VoiceIsHeard`, `FileCanBeRefreshed` |

The assumptions are those the modules name: bounds are natural numbers,
placeholders (`NoKey`, `Nobody`, ...) are none of the values they stand beside,
attempts are allowed at least once. TLC evaluates each in a run. Faults,
crashes and disturbances are counted against such a bound, so a theorem is
about any number of them.

**The arguments.** Each invariant was checked by TLC on the run's instance
before it was proved.

*Lanes.*
* *Capture lane.* Neither `HeldJobUntouched` nor `RetryLimit` is inductive: a
  claim may only be believed to own its row because reclaiming happens at startup,
  when no worker holds one, and because retention removes only finished rows.
  The invariant relates the worker's place to its row, the row's state to its
  attempts and `left` to the facts not recorded yet, from which `MarkDone` may
  conclude that all are. In the refinement a claim, a completion, a failure, a
  reclaim and a prune are the abstract steps of the same name; all else stutters.
* *Captions.* A caption is marked done before it is folded in, so "done is
  folded" has to except the image in the captioner's hand (`DoneIsFolded`), and
  the images it held when its thread ended there (`cut`), which are those and no
  others. The vector, and the text the embedder read, are current
  (`VectorFollowsContent`) unless a fold is between its two statements, or they
  are of a text in `outrun`: one that was being embedded when a fold began, or
  whose deletion raised or died. A fault or crash elsewhere excuses nothing.
* *Process.* A worker runs only where the database was opened, which is before
  any worker is started and reclaims what a dead process left (`DatabaseFirst`).
  The parts before the next one to stop have been told (`ToldInOrder`), and the
  handler of a signal works between two steps of that (`HandlerInterrupts`).

*Memory.*
* *Coverage.* Between the two statements of `enqueue_capture_job` the job is in
  the table, for whichever of three producers runs them; no step removes a key;
  and a key that is taken leads past the coverage statement.
* *Windows.* That `compute_backfill_windows` returns exactly the gaps is an
  induction over the loop, made as a walk along the ids (`Accumulated`): after
  so many of them the run in hand is the uncovered ones since the last covered
  one, and the windows so far are those of the closed runs (`AreWindows`). Each
  is one chunk of one run (`IsWindow`), whose place the reference counts by
  rank: the rank of an id is its position in its run (`RankIs`), so that the two
  cut at the same ids (`GapIs`, `SameRunIs`, `ChunkIs`).
* *Producers.* No two ranges that one producer covered share a message
  (`CoveredOnce`) because what it has in hand is new when it is found and stays
  so: the windows of the reconciler and the backfill are apart from each other
  and from what they covered (`AreNew`), also as messages are added, which come
  after every range (`CoveredIsPast`); a live turn's exchange is later than
  everything captured live (`ExchangeIsNew`). The scan limit keeps the latest
  messages, so that a window hides none between its ends (`RecentIsLast`).
* *Index.* While a file is not `spoilt`, no two threads are at it
  (`TogetherIsSpoilt`), and the one that is has done the steps before its place
  (`IndexedSoFar`); a forced rebuild fills a shadow that follows what it has
  listed (`ShadowFollows`), and nobody else indexes what it will swap in, or the
  page is `stray` (`RebuildIsAlone`).

*Sessions.*
* *Deletion.* `DeletedForGood` needs that rows exist only while the session's row
  does (`RowsNeedSession`), that phases are recorded in order
  (`GoneInOrder`), that two deleters are never in the row phase of the same
  session (`OneRowPhase`), and that the ids kept for the retry cover all chunks
  that are left (`IdsAreKept`).
* *Turn.* `TurnIInv` is about all lists at once, because a command may bind
  another one in the middle of a turn. In every list, kept tail and transcript
  a result has its call before it or lost it to a cut, which leaves only
  summaries and results before it (`ListsAreTranscripts`, from lemmas on what
  appending, cutting and prefixing do to a transcript). While tools run, the
  list they run for ends in their call and the results that are there
  (`ToolsFollowTheirCall`); all other calls are answered, also within the
  prefix a rollback keeps (`ListsAreAnswered`); what a windowed run added has
  its calls within what it added, so that copying it behind a longer history
  pairs nothing wrongly (`RunIsLinked`). `FailureRolledBack` and `AnswerOnFile`
  follow the turn's own message from the save to the end of the turn
  (`TurnKeepsItsMessage`).
* *Mirror.* Ids descend: a pass knows whatever id the file has and both know
  those of the turn, though the turn overwrites what a pass saved
  (`IdsDescend`). That holds because the turn gives an id only to its last
  message while no other list has it (`TurnMirrors`). Before its place a pass
  has mirrored everything (`PassMirrors`), so that a startup's pass ends with
  all of the file. A second row is paid for in advance: an id with a row, no
  mirror and nobody about to make it is loose, a fault makes at most one so, and
  only a loose id gets another row (`RowsCost`), which needs that one side at a
  time is within `mirror_message` (`OneSideAtATime`) and that ids are new
  (`IdsGiven`).

*Commitments.* `OnePendingPerKey` has no unique index to lean on: it holds
because there is one worker, its lookup stays true until it writes
(`LookupHolds`, `TargetIsPending`), and everybody else only takes rows out of
the pending state. That a job in hand is running and has an attempt left
(`HeldIsRunning`) makes the types inductive. `Quota` follows from
`QuotaIsKept`: what was sent today, together with what the beat still lists,
is within the cap, which takes cardinalities of finite sets (`UnionBound`,
`QuotaShrinks`) since a row may be in both. For one check-in per exchange the
invariant keeps accounts per exchange and follow-up (`TellingsAreCovered`):
tellings done, plus rows that still owe one, plus one while the job may insert a
row, never exceed one plus the statements that raised plus twice the crashes.
A telling only turns a row that owes into one that was told, and an insert
uses up the job's one; `LookedUpOnce` says it cannot do so twice.

*Operation.*
* *Schema.* The lock has one holder (`LockIsHeld`), whose view of the ledger is
  current (`SeenIsCurrent`) and whose line counts the statements it has really
  executed (`LineIsTrue`); a failed or dead holder leaves a count that a
  replay starts over.
* *Wire.* The accumulator of a call has the pieces that arrived, in their order
  (`PiecesAreGathered`). For the request, a lemma says what one more message of
  the history makes of the translated ones (`SentAppend`); with it, in the
  translation each call of a reply has its result in the message after it or
  among those still to come (`Paired`).
* *Timer.* An armed timer rings at the hour (`ArmedRight`: where it and the clock
  meet), so that what became of it says whether the day has had its pass
  (`PassOfTheDay`, `WholeDay`).
* *Terminal.* Turns may overlap, so the argument is about an answer that no other
  turn's answer crossed. While it streams it is the only one, and it is in the
  widget and whole, or its widget is gone, ended by a sub-agent's event; while a
  sub-agent works there is no widget (`WidgetIsIts`), since the event of the call
  that made it ended it. Only turns stream and an answer is final once
  (`TurnInOrder`). So a final answer finds its own stream complete, or nothing,
  and is then printed.
* *Registry.* A save that is alone wrote what the process knows, at each of its
  places (`AloneIsExact`), and without overlaps every save is (`SavesAlone`): so
  the file follows. A sub-agent being made is on record before it runs
  (`ChildInMaking`), so those that ran are on record, and on file but for mixed
  saves (`WhoRanIsKnown`); whoever was admitted is alone in that, below the limit
  (`NoneTooMany`).

*Knowledge.*
* *Tools' gate.* Past each stage, what the stage looked for is so: `PastCheck`,
  `PastPrompt`, `PastRecord`; the remembered sets are exactly the user's last
  words (`SetsAreAnswers`). An edit about to write has seen all that the file
  holds, or has been overtaken (`ReadIsCurrent`).
* *Migration.* An entry is made only after its backup and a manifest after the
  last copy (`RunBegins`), so that what an entry says was there is what the run
  found (`BackupsAreExact`); a rollback that has come to a note has restored all
  before it that nobody edited (`UndoneIsBefore`).
* *Claims.* What is about to be written or indexed is the page without the
  source, or the page was edited (`TextIsCurrent`); a claim that was listed cites
  the source until its page has been written and not afterwards, and its row
  follows its marker but for the time between the two (`ListIsFollowed`).
  Lemmas say what removing a source makes of the markers and what a reindex
  makes of the rows.
* *Search.* What a lane found may be shown, and says what the page's boundary
  says unless the page was rewritten since (`RowsAreAdmitted`); a page that was
  asked about is in force (`AskedAreOpen`), and all that was found was asked
  about (`FoundIsAsked`). Pins are in the result once they are taken
  (`PinsAreTaken`) and no cut drops them while they fit (`PinsAreKept`).

*Connections.*
* *MCP.* Whoever waits for a lock captured the session it belongs to
  (`QueuesAreSessions`), and session and lock are assigned together
  (`LockFollowsSession`): hence one call at a time, and a hung one holds up only
  its own session. That the state tells the truth needs that every coroutine of
  a command has a thread waiting for it (`Attended`), which a timeout ends
  (`overran`); `ToolsFollow` carries the registered tools through a command.
* *Matrix.* Every id a room can come to by its row, its live session or a
  callback's local belongs to it (`IdsAreTheRooms`), unless it chose another's.
  An entry of `seen_events` pays for one run (`RunIsPaidFor`), and pruning
  takes it away at most once per start (`PrunedPerStart`). That a room talks to
  the session it is bound to follows the rebinds still queued for the writing
  thread (`WritesAreRebinds`, `LastWriteWins`).

*Threads.*
* *Codex.* While the conversation has the provider to itself, `_sent_count` is
  behind the conversation until the slice, where it takes all but the messages
  before the last; between turns no summary is open (`Settled`), so that `/new`
  finds the provider as a fresh one.
* *Topic note.* `PendingIsSearchable` holds for overlapping writers as well: each
  proposal that reads pending has its chunk, or a writer at one of the places
  between the two statements. The refinement is where overlaps are excepted:
  one writer at a time (`OneAtATime`), row ids distinct (`RowsHaveIds`), and what
  a writer read is still so (`ReadHolds`). All three hold again when the last
  operation of an overlap has ended, because nobody is then in one (`EndsOverlap`).
  An operation that stops takes its row out of the stack or leaves it with the
  text the note holds (`EntryIsLost`). The mapping takes an undo row into
  the stack when its write is done, be the row inserted before or after it, and
  out of it when its restore is (`StackOf`), so the steps that write the file are `Write`, `Overwrite` and
  `Undo` of the abstract note and all else stutters.
* *Tokens.* The file or somebody about to save has the pair the server takes
  (`FileOrSaver`); whoever is about to save is the only one of its family to
  have it (`SaverIsAlone`), since the server takes a token once and everybody
  else asked with an older one (`PairsAreIssued`).
* *Voice.* The flag is up only while the main thread speaks (`TagsAreTrue`), so
  what is tagged with it overlapped an answer; once a block has been played into
  speech, the signal is seen before another is written (`BlockIsSeen`).

**Induction over data.** The library's induction theorems take an operator,
which the provers cannot instantiate. Where a proof needs induction, over the
ids of `compute_backfill_windows` or the messages of a history, it takes the
least counterexample instead, by a first-order fact about the naturals
(`LeastNatural`): `FoldLeft` is shown to be the end of a walk that begins with
its base and makes one step per element (`IsFold`, `FoldExists`), and a walk
that leaves the invariant has a first step that does. What `SelectSeq` and
`SortSeq` compute stays out of reach, as their definitions are recursive; the
ids are therefore listed by `Ascending`, each at the position that counts the
ids up to it, which is what `ORDER BY id` returns.

**What the attempts found.** Three definitions branched with a `CASE` whose
guards overlap (`SessionRegistry!After`, `SessionRegistry!Stop`,
`NotesMigration!Classify`), which TLC resolves in favour of the first and the
prover leaves open; they now say in which order the code tests.

**Only model-checked.** Every property of a run that is an invariant is proved,
and so are the action properties that stand alone and the safety halves of those
that conjoin safety with liveness. Liveness is not (its proofs need ENABLED), nor
is `NoAnswerMissed`, whose argument follows requests through filtered queues
(`SelectSeq`).

## 5. What is not promised

Properties are stated with the exceptions the code has; each exception is a
variable or a condition the reader can see.

*Sessions and lanes.*
* `RequestIsPaired` exempts histories that a Ctrl+C or an unlocked command went
  through (`tainted`), and lets results lose their calls at a cut:
  `Compactor._select` (`context.py:393`) and the voice window
  (`agents/session.py:1048`) may split an exchange.
* `StaleVectorIsARace` names what leaves a vector of old content: a caption folded
  in while the embedder holds the text it read, or the deletion after a fold that
  raised or died. `DoneCaptionIsInContent` exempts an image whose fold was cut off
  in the same way, and no other image.
* `DeletedStaysDeleted` exempts a reconciler that loaded the file before it was
  unlinked and a database phase that was interrupted.
* `NoProducerRepeatsItself` compares jobs of one producer. A turn, the
  reconciler and the backfill command may capture the same message, each with a
  key of its own; `reconciliation_scheduler.py:43` calls that "redundant, not
  harmful". The backfill does not wait for a quiet session.
* `OneCheckInPerExchange` counts what a fault can cost: one check-in more for a
  statement that raises, two for a crash between delivery and
  `mark_commitment_sent`. `QuotaHolds` is about a model that answers only what
  the beat listed: the tools take any pending id.
* `EveryPartIsTold` and `StoppingEnds` exempt what `cut` records: a
  `MatrixChannel.stop` that raises on a closed loop skips the rest of the
  finally clause; SIGTERM's handler leaves Matrix to the finally clause that
  its `SystemExit` runs. Executor threads are waited for at exit.

*Notes, index, claims.*
* `ImplementsVersionedNote` promises nothing while two operations on the note
  overlap, as no lock joins a write and its row: `approve` writes the row first,
  `remember` and `delete` last. When the last of them has ended the note is a
  register again, from whatever text and rows the overlap left. An operation that
  stops between the two loses its entry or leaves one that undoes nothing.
  Forgetting and promoted imports change the note without a row.
* `LedgerVouchesForChunks` exempts files that two threads indexed at a time or
  one stopped in (`spoilt`); `ClaimIsMarkedOnItsPage` also the claims of pages
  that a forced rebuild left out (`stray`); `EventuallyIndexed` changes nobody
  was told of (`missed`).
* `ReviewedAndInForce` exempts text whose page was rewritten during the search,
  whose reindex is half way or whose boundary could not be read: a failed
  lookup lets it through. `PinsAreShown` holds while the pins fit the answer.
* `ForgottenIsForgotten` is about pages not edited meanwhile: an edit saved
  between load and write is overwritten, with no revision row.
* `RollbackIsExact` is about runs that were not stopped: a stopped apply has no
  manifest, and an edit made after the run is overwritten by its rollback
  unless `since` excuses it.

*Around them.*
* `RunsAreApproved` says that what runs was approved and audited, not that plan
  mode is still off when it does: the read-only check precedes the prompt.
  `EditsKeepTheRest` exempts an edit overtaken between its read and its write.
* `FileFollowsCache` and `ChildLimitHolds` exempt overlapping saves (one
  shared `sessions.tmp`) and two spawns checked at once.
* `AnswersAreShown` exempts an answer that streams while another turn's does, or
  whose sub-agent works while one does (`crossed`): there is one widget.
  `ComposerComesBack` exempts a click on a session that waits for a turn that waits
  for the interface (`Embraced`).
* `OnePassADay` excuses the day after a change of the clock: with an hour set
  back in the night the schedule runs twice (`dreaming.py:134`).
* `ConversationIsHeard` is about a conversation that has the provider to itself
  and answered turns: `_sent_count` advances before the turn succeeds, is shared
  with the workers and with the summary of a compaction, and after a failure a
  message may not be sent.
* `ConnectedHasSession` exempts a command whose coroutine outlived its timeout;
  `RunsOncePerMemory` counts the prunings of `seen_events`; `LiveIsBound` exempts
  rooms that gave `/new`, which does not rewrite their binding.
* `FileCanBeRefreshed` exempts a login whose refresh lost an answer or a caller
  after the server had rotated the token.
* `BargeInIsPrompt` counts blocks from the moment the detector signals speech; an
  utterance that begins and ends between two polls does not interrupt.

## 6. Where code and comments disagree

Shown by a run, each with the quoted line in `PROJECT.json`:

1. `mirror_stale_save`: a reconciler's save removes the user message that the
   turn has just made "safe on disk".
2. `deletion_evidence_lost`: the snapshot of proposal ids is taken after the
   proposals are deleted; a fault between leaves their chunks searchable under
   a completed tombstone.
3. `turn_interrupted`: Ctrl+C passes by the rollback and leaves calls without
   results in the saved history.
4. `media_never_reembedded`: the finished job's key stops the re-embedding the
   docstring relies on.

Met while modelling, without a run of their own:

* A database error at the claim ends the capture worker's thread, said to run
  "continuously from startup to shutdown" (`capture_worker.py:161`; `pc =
  "dead"` in `CaptureLane`).
* An edit saved between `approve`'s comparison and its write is overwritten
  (`consolidation.py:656-669`; line 105 says that an edit "always wins");
  `remember` and `delete` snapshot after the write, their docstrings say before.
  `approve` and `reject` look at no status.
* A process restarted within the hour leaves its predecessor's job 'running'
  (`session/db.py:3167`, `minion.py:455`); caption jobs are never reclaimed.
* A JSONL file that could not be unlinked is never tried again
  (`commands.py:1325`, `memory/cli.py:938`).
* With the timer on a message can get two rows (`session/db.py:1659`; README
  line 1243 calls mirroring twice a no-op). A message dropped by a compaction
  before its mirror succeeded is never mirrored (`agents/session.py:985`).
* `/new` takes no lock beside a running turn (`agents/session.py:1324`).
* `runner.py` says that the last round "falls through" to `MaxRoundsReached`, and
  emits an empty final answer. `minion.py` says "Your message was kept" of a
  turn that was rolled back, its attachments cleared.
* The heartbeat reads `_outbound` from a `MatrixChannel` that has no such
  attribute (`minion.py:1095`), so check-ins for rooms go to the terminal.
* Migrations 006 and 008 are not safe to replay from their first statement in
  the sense `schema_migrations.py:100-103` asks for (`session/db.py:905`).
* A forced rebuild leaves claims and pins of files that have gone
  (`postgres_index.py:1803`; docstrings 1409, 1770).
* A contested claim without `contradicts=` is on no dashboard, though the
  digest's header says that dashboards list them (`knowledge.py:314`); the
  digest itself has it, which `NothingIsHidden` uses.
* A stopped `--apply` leaves no manifest, though its docstring says that the
  manifest "can undo the run exactly" (`memory/migration.py`).
* The policy's comment says that it "records all allow and deny decisions":
  allowed writes and cancelled commits are not recorded (`tools/policy.py`).
* Codex: completions are not matched to turns, and an error status is returned as
  an empty answer. A dead process is never launched again (`providers/codex.py`).
* A second turn can be started from the palette while one is in flight: a lone
  route prefix goes past the disabled composer (`tui/app.py:382`), where
  `tui/app.py:158` says that "there is never more than one" streamed widget to
  track. Two answers that stream then mix in the one widget.
* A session click during a turn blocks the interface's thread for good when the turn
  has something to show (`tui/app.py:286`; the docstring says it never does).
* The event of a sub-agent that outlasts the wait for it ends the widget of an answer
  that streams, so its tokens stop; the answer is printed at its end
  (`tui/app.py:521`). The sub-agent's own last words are taken for streamed, and not
  printed, when they come while another answer is.
* A barge-in's utterance is discarded, though the header of `voice/session.py`
  has the next iteration pick it up (README line 1122 agrees with the code).
* After `/new` in a room, a restart returns it to the old session
  (`docs/adr/0006`); an event seen but not answered before a crash is never
  answered (`matrix/handler.py:233`).
* An MCP call that broke is sent again after a reconnect although the server may
  have executed it (`mcp/client.py:382`).

## 7. Plan

Done: all components whose state several actors change, and proofs of what each
run says first of them. What would come next:

1. `CoverageIsBackedByJobs` composed with the lane: that a covered message has a
   proposal or a failed job.
2. Two files in `MemoryIndex` and two servers in `McpClient`, where the
   composites leave room.

## 8. Not modelled

Ranking and scoring of searches, chunk borders, telemetry and evaluation
commands; prompts and their formatting, the baseline report and the digest's
wording; configuration loading, skills, plugins and logs; Matrix login,
encryption, media and allow lists; widgets and key bindings; audio devices and
model inference; the terminal's attachments and file picker; `send`'s `verify_fn`
(`agents/session.py:1255`), which no caller passes, so that no `[verification]`
message arises. They either keep no state another actor changes or the
properties do not distinguish what they compute. Tools other than those of
`ToolGate` and `Commitments` appear in `AgentTurn` as a call that returns a
result, raises or is interrupted. Liveness of the Codex, MCP, Matrix and voice
threads is not stated: what they wait for is external, and their waits either have
a time limit that is a step of the model or none at all.
