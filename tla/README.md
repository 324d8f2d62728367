# Sequence: a verification project

Sequence is a local application: a static analyzer builds an architecture graph of a
repository, and a local HTTP server hosts chats that drive coding agents over that
repository. Most of the program is sequential (parsing, joining, drawing, formatting). What
is hard to get right is the server's concurrency: long-lived agent processes shared by
turns, runs that go on for hours while windows stop and start them, and files several
writers replace. That is what these TLA+ modules model.

Paths below are relative to the repository; `server/` stands for
`packages/analyzer/src/server/`.

## 1. Inventory

| Component | State it keeps | Operations | Talks to | What makes it correct | Here |
|---|---|---|---|---|---|
| Agent session cache (`server/acpSessionCache.ts`) | a Map of live agent entries, creations in flight, teardown gates per key, turns in flight per key, a lock and an idle timer per entry | `run`, `dispose`, `disposeAll`, idle expiry, cap eviction | the ACP client (spawn, exit), agent turns, server close | one process per thread, one turn at a time, no leaked process, no process killed under a turn, every queued turn leaves unless an agent hangs | `AcpSessionCache`, `AgentThread` |
| Goal run (`server/goalRunner.ts`, `goalPlan.ts`, `goalAgentTurn.ts`, `goalAgentTools.ts`) | the run row and the plan on disk; per loop a turn and its counters; the lease of the agent's tool | start, Stop, one turn per step, audit, park, tick, rewrite, unpark, restart reaping | ask pipeline or an agent turn, session routes, server start | one worker per run, the cap, no phantom run, steps parked only for real attempts, every run ends unless a turn hangs, the plan's history is kept | `GoalRun` |
| Program scheduler (`packages/schema/src/scheduler.ts`, `program.ts`) | visited set with an epoch, node results, steps, halt reason, the checkpoint | walk the graph, guards, race an executor against abort and deadline, checkpoint, pick up from a checkpoint | executors, the runner | a node runs once per pass, a join waits for its branches, no work after Stop, an honest outcome, no hang | `Scheduler` |
| Program runner (`server/programRunner.ts`) | live runs and the record on disk | start, cancel, pause, resume, retry, read-time reconciliation | scheduler, run routes, server start | a resume repeats nothing that was paid for | `ProgramRun` |
| Program event log and stream (`server/programRunStore.ts`, `programRoutes.ts`) | the event log on disk, its counter, the watchers, a cursor per client | open, append, read, subscribe, replay, disconnect | the runner, browsers | a client that resumes from its cursor sees every durable event once, and none that is not durable | `RunEvents` |
| Agent turn route (`server/runNodeRoutes.ts`, `agentTurnRuntime.ts`, `turnChannels.ts`, `packages/acp/src/turnWatchdog.ts`, `turnStatus.ts`) | the sink of each chat's agent, open approvals and questions, who watches each turn, the watchdog, the detector of answers | send, route an update, ask, answer, Stop, grace, leave and come back, hang, end | session cache, ACP client, browser | a stopped or answered turn frees the chat, no agent works for nobody, only an idle turn is called hung | `AgentTurn` over `AgentThread` |
| Async writer (`server/asyncWriter.ts`) with the stores over it (`store.ts`, `sessionsStore.ts`, `agentChatStore.ts`) | pending and in-flight text per file, appends, retries, the timer and the chain of flushes | schedule, drain, read, drop, flush at exit; delete and move a chat | every store, other processes, the file system | readers see the newest text; a synchronous write is never undone; another process's change is kept; a log line is written once, in order | `AsyncWriter` implementing `DeferredFile` |
| Path write lock (`server/pathWriteLock.ts`) and the batches under it (`applyAskFileWrites.ts`) | the holder and the waiters of each path | acquire sorted, wait, release, timeout, abort | file edits of agents and tools | batches are serial, no circle of waiters, no leaked path | `FileEdits` |
| Checkpoint store (`server/checkpointStore.ts`) | baselines, a capped log of snapshots, blobs | track, capture, prune and sweep, restore | file batches, `PUT /api/file`, the checkpoint routes | every checkpoint on the list can be restored, and to what it was | `Checkpoints`, composed in `FileEdits` |
| Scan worker pool (`scan/scanRunner.ts`, `scanWorker.ts`) | one warm worker, the listeners of each scan | scan, abort, cancel, hand over, retire, prewarm | analyzer threads | every promise settles, a thread serves one scan, none is leaked | `ScanPool` |
| ACP client, Codex bridge (`packages/acp/src`) | request table, watchdogs, permission asks | request, notify, cancel, dispose | agent process | every request settles once | process life only, inside the session cache |
| Rewind of agent turns (`server/turnSnapshotGate.ts`, `snapshot.ts`) | the turns of a session with their trees and lists of files, the active revert, the shadow index, one queue per shadow | start a turn, wait before a write and list it, revert, undo | agent turns, the snapshot routes, git, other processes that hold files open | a revert restores what the turn found, Undo what was there before it | `TurnSnapshots` |
| Graph and map caches, watcher | results keyed by a tree signature | get, invalidate, refresh | analyzer | never stale | not modelled |
| Free tier (`server/freeTierLimit.ts`, `pgStore.ts`) | the calls of a person counted per day, in a row of the database or in memory | charge, give back, refund, midnight | calls to the free model (`repoServer.ts`), other server processes, the database | a day lets no more calls through than its limit, a failed call costs nothing | `FreeTier` |
| Model gateway (`packages/gateway/src`) | what each month has cost, in memory and in a file | admit, forward, add, save, restart with or without the file | the desktop client, the model, the file system | while its count is not lost, a month costs no more than its backstop and what was in flight | `Gateway` |
| Monthly meter and ledger (`server/meter.ts`, `spendLedger.ts`) | usage per person and month | read, decide, record | calls to the free model | limits hold | not modelled |
| Analyzer, ask pipeline, boards, MCP client and server, updater, desktop shell, web client, libraries | - | - | - | data and I/O, no shared state of their own worth a state space | not modelled |

`PROJECT.json` lists every component with its sources and the reason where it is not
modelled, and the hazards of the code line by line.

Behaviours that are hard here: turns queued on one process while it is disposed, crashes or
is re-created; abort at every await; a Stop followed by a new start while the old loop is
still waiting for its turn; a server restart in the middle of a run; whole-file writes from
copies read earlier; a drain interrupted by a synchronous write, a delete, an exit or another
process; messages of a worker that arrive after it was handed on; pages that leave and come
back around a grace; limits (cap, strikes, ceilings) with counters that other events reset.

## 2. Modules

| Module | Models | Size and shape |
|---|---|---|
| `AgentThread` | the abstract promise of one agent thread: at most one process, never reused, one turn at a time, a turn only on a running process | abstract specification |
| `AcpSessionCache` | `createAcpSessionCache` with all its handlers | 20 variables, one action per code stretch between two awaits |
| `MCAcpSessionCache` | TLC instance, four configurations | |
| `AcpSessionCacheProofs` | TLAPS proofs about the cache | |
| `GoalRun` | the loop of `workGoalRun` and its doors | row, plan and lease shared; pc, turn and counters per loop |
| `MCGoalRun` | TLC instance, two configurations | |
| `GoalRunProofs` | TLAPS proofs about the goal run | |
| `Scheduler` | `runProgram`: the walk of a program graph | a set of walkers; one action per kind of node, guard and outcome of an executor |
| `ProgramRun` | one run on the server: the scheduler with the record on disk | `EXTENDS Scheduler`; the doors, the death of the process, the restart |
| `MCProgramRun` | TLC instance with eight programs, four configurations | |
| `ProgramRunProofs` | TLAPS proofs about the scheduler and the run | |
| `DeferredFile` | the abstract promise of the writer: what a process reads of a file only grows, until it is deleted or something fails | abstract specification |
| `AsyncWriter` | the debounced writer, the stores over it, another process on the same files, the turn logs | queue, drain and disk; one action per synchronous stretch |
| `RunEvents` | the event log of a program run and the streams that follow it | file, counter, and a cursor per client |
| `Checkpoints` | baselines, captures, the sweep and the restore of one session | one action or helper per synchronous function |
| `FileEdits` | locked batches of edits, with the doors that take no lock | `EXTENDS Checkpoints`; phase, lock and files per batch |
| `AsyncWriterProofs` | TLAPS proofs about the writer, and that it refines `DeferredFile` | |
| `ScanPool` | `runScan` and the warm worker, with the thread's side | promises per scan, a mailbox per thread |
| `ScanPoolProofs` | TLAPS proofs about scans and threads | |
| `AgentTurn` | the turns of one chat over one agent | one record per turn; `AgentThread` for the session cache |
| `AgentTurnProofs` | TLAPS proofs about the turns of a chat | |
| `TurnSnapshots` | the rewind of one chat: gate, snapshots, reverts, undo | turns by number, a queue of calls, three stages of a revert |
| `TurnSnapshotsProofs` | TLAPS proofs about the rewind, and the types of `MCAgentParts` | |
| `FreeTier` | the daily cap around a call to the free model | place and row per call, the count per row; one action per statement on the database |
| `Gateway` | the gateway's monthly backstop and its spend file | place and month per request, spend in memory and in the file |
| `ServerFilesProofs` | TLAPS proofs about the event log, the batches, the checkpoints, the daily cap and the backstop, and the types of `MCServerFiles` | |
| `MCServerFiles` | TLC instance of `AsyncWriter`, `RunEvents`, `FileEdits`, `FreeTier` and `Gateway` | `under` picks the part a behaviour is of |
| `MCAgentParts` | TLC instance of `ScanPool`, `AgentTurn` and `TurnSnapshots` | `under` picks the part a behaviour is of |

### AcpSessionCache

A turn calls `run(key, create, use)`. Its program counter `pc` names the await it stands at:
`ensuring` (the entry's creation promise), `queued` (the turn lock), `retiring` (disposing an
entry with another folder), `using`, `disposing` and `leaving` (the finally blocks). One
action is the code between two awaits: `Run`, `Enter`, `StopQueued`, `BeginUse`, `Retire`,
`Recreate`, `FinishUse`, `Throw`, `ThrowDisposed`, `Leave`. Entries have their own steps:
`Spawn`, `Created`, `CreateFails`, `AgentExits`, `IdleExpires`, `PassLock`; the server has
`DisposeKey`, `DisposeAll`, `DisposeCondemned`, `ShutdownDone`.

`entry.turnLock` is a chain of promises; it is modelled as the sequence of unreleased locks
(`queue`). A turn stopped in the queue leaves its lock behind and passes it on when its
predecessor releases (`LeftBehind`, `PassLock`). The Map's insertion order, which the cap
uses as recency, is the relation `older`.

JavaScript runs promise reactions before the next timer or I/O event. External events
(`AgentExits`, `IdleExpires`, `DisposeKey`, `DisposeAll`, ...) therefore wait until no
reaction is due (`Quiet`); the order among reactions is left open, a superset of the engine's.

### GoalRun

`row` is `goal-run.json`, `plan` the plan on disk. Each started run has a loop, identified by
the start stamp `stillMine()` compares. `pc` is `top` when the loop is in the synchronous
stretch before a turn and `planning`, `working` or `auditing` while it awaits one. Every
return of the loop is an action: `SeeStop`, `HitCap`, `AuditAtCap`, `AskForPlan`,
`WriteSkeleton`, `GiveUpPlanning`, `WorkedDown`, `AimAtStep` at the top, and `TurnThrows`,
`ConnectionFails`, `PlanTurnReturns`, `WorkTurnReturns` (with the verdicts `Stuck`, `Hollow`,
`Narrated`, `Struck`, `Closed` in the order of the code's checks) and `AuditReturns` after a
turn. `Start`, `Stop`, `Unpark` and `Restart` are the windows and the server.

Two engines take turns. The built-in model edits the copy of the plan its turn began with
(`turn[r].plan`) and writes it whole at each tool call (`ModelTool`). A coding agent changes
the plan on disk through a tool guarded by the lease (`AgentTool`). `attempts` is a history
variable: the real attempts a loop made on a step since it last parked it.

While a loop is at its top nothing else moves (`Settled`): there is no await between the top
and the next turn. The abort of an agent's turn comes back to its loop before the next
request is served, which `Settled` says too.

### Scheduler and ProgramRun

`runProgram` is a recursion of `execFrom` that awaits in three places: an executor, the
branches of a parallel node, the body of a loop. `Scheduler` turns the recursion into
walkers: the first call, and one for each branch a parallel node awaits, named by the
branches it is in. A walker holds the node it is at, the node it stops at (`stopAt`) and the
loops it is inside. `Enters`, `Tripped`, `Claims` are the entry of `execFrom` in its order:
halted or at `stopAt`, the brakes, the visited set. Each kind of node is an action (`Start`,
`End`, `Launch`, `Check`, `Fork` and `Join`, `Branch`, `Loop` with `Iterate` and
`LeaveLoop`), `FollowCompleted` is the walk over a node finished before the resume, and
`Answers`, `Fails`, `Abandoned`, `TimesOut` are the ways the race of an executor ends.
`MarkDone`, `RecordError` and `RecordStopped` take the checkpoint as the code does.

`ProgramRun` adds what the server keeps: `saved` is the checkpoint in the record on disk,
`status` its status, `live` the run in this process. `WalkEnds` is the return of
`runProgram`; `RunEnds` comes after the awaits that dispose the executors and measure the
tree. `Crash` loses everything but the record, at any step. `Resume` and `Retry` pick up the
checkpoint of a record whose status, reconciled, allows it. `earned` (nodes whose last call
was answered) and `errored` (an executor or a checker failed) are history variables.

A predicate over the state may hold or not each time it is asked, and a checker may say
either; the walkers that are ready may go in any order. Both are supersets of what one run
does. The runner leaves the error policy at `stop-run`; the other one, which the package
exports and tests, is checked in the same runs. A program is one that `validateProgram`
accepts. The event sink is assumed not to throw, and the record to be writable.

### AsyncWriter

A text is the sequence of the changes made to it, numbered as they are made; a queued merge
is the change it adds, so a merge can be lost, doubled or applied out of order and it shows.
`pending` and `inFlight` are the two maps of the source; `retrying`, `timer` and `chain` its
other variables; `drain` is where `drainOnce` stands between two awaits (`loop`, `temp` with
the temporary file complete, `sleep` between two rereads), `batch` what it has still to do.
`EffectiveText` is `effectiveText`, and `Seen` what `readJson` returns. `Defer`, `Save`,
`SaveFails` and `Delete` are the callers; `ScheduleAppend`, `ReadLog`, `DeleteLog` and
`MoveLog` those of a log; `FlushWrites`, `Take`, `WriteTemp`, `Rename`, `WriteMerged`,
`Sleep`, `PutBack`, `WriteFails`, `WriteAppends` and `FlushEnds` the drain, with `Superseded`
for an entry that a newer write removed; `FlushSync` the exit hook and `server.close`. The
generation counters are not a variable: they are bumped exactly where an entry is removed, and
the drain checks both. A job that cannot be appended is lost wherever it is written (`Put`), and
the rest goes on, as `writeAppend` has it. Another process, a virus scanner (`Jam`) and a crash are the world.

### RunEvents

`file` holds the lines that can end up before a reader, `torn` says how much there is of one with
no end (`Tear`): nothing, a part that no reader can parse, or all but its newline, which a reader
takes for a line although nobody was told of it. What is then written on the same line cannot be
parsed, nor can the line any more (`Spoilt`). A client keeps the id it received last
and connects with it; what was sent and not received when a stream breaks is lost.

### Checkpoints and FileEdits

A content stands for its bytes and its hash. `TrackWrite`, `Capture` (snapshot, log, prune,
sweep) and `Restore` are synchronous in the source and one step here. A batch of
`applyAskFileWrites` stands at `lock`, `wait` or `write`; it takes its paths in one order,
tracks each file (`Track`, which awaits) and then writes it (`Write`); the last write releases
in the same step, as the `finally` does. `Edit`, `Checkpoint` and `GoBack` take no lock in the
code and none here. `pictures` (the tree at each capture) and `strayed` (files changed without
tracking, such as by hand outside the program) are history variables.

### ScanPool

What a thread posts waits in its mail and is heard later, in order, its exit last. A scan's
record holds the variables of `runScan` (`graph`, `functions`, `promise`, `attached` for its
listeners); `Killed` is `kill` with `detach`, `Failed` is `fail`. The pool is the module
variable `warm`. Each handler is an action: `OnGraph`, `Parsed` (the graph is parsed over
several ticks), `OnFunctions`, `OnDone` with `releaseWorker`, `OnError`, `OnCrash`, `OnExit`.

### AgentTurn

Each turn has a record: its phase in the queue, aborted or not, its Stop timer, what its
detector has seen and in which phase it called the turn answered, its watchdog. The session cache is represented by what it promises: the
`AgentThread` its own module is shown to implement (`Agent!Start`, `Begin`, `End`, `Exit`).
`sink` is the entry of `acpTurnSinks`, `previous` what each turn found there; a queued turn
takes the sink when it is sent, as the code does. Time is a tick; `still` counts, as history,
how long the agent has not moved with nobody being asked. A prompt that throws takes its agent with it,
one that returns leaves it, also when it was cancelled (`PromptEnds`); and a new agent may start while
the turn that an agent left behind is still on its way out (`AgentStarts`).

### TurnSnapshots

`turns` are the turns of the session by their number, `revert` the active revert, `index` the
shadow index, and `queue` the calls that wait in `serial`; the first one runs. `StartTurn`
queues the snapshot (`BeginTurn`), `Announces` is a write the agent asks for, `BeforeWrite` lets
it into the queue once the snapshot is taken, `TrackTurnWrites` lists it and lets the agent go on,
and `Writes` is the write itself. `revertToTurn` awaits git three times and is three actions:
`Look` (what to put back, what to leave alone), `TakeUndoPoint` (with `widenUndo` over an
earlier revert) and `RevertToTurn`; `UndoRevert` is one. `GivesUp` is git failing in any of
them, with some of the files put back, or the death of the server. The tree is read, and put back, in one
step: each file is handled by itself, and a change to it comes before or after its own moment.
For the same reason one file is enough in the run.

What a file holds is the number of the write it comes from. `start`, `others`, `strayed`,
`before` and `touched` are history variables: what the files held when a turn started, which were
changed by somebody else since, and what was there before the first of the active reverts.

### FreeTier and Gateway

A call to the free model is charged before it is made (`Consume`, `Charge`), given back at once
when the charge went over the limit (`GiveBack`), and refunded when it fails (`Fails`, `Refund`).
With a database each of these is a statement of its own, which other processes' statements may
come between and which may fail before or after it took effect (`ChargeFails`, `GiveBackFails`,
`RefundFails`); without one the charge is a single stretch of code (`ConsumeInMemory`) and so is
the refund (`FailsInMemory`). A row is the count of one day in the database or in one process.
`late` (refunds a row gave for the charge of another day) and `leaked` (charges of a row that no
answered call stands for) are history variables.

A request to the gateway is read (`Arrives`), refused (`Rejects`, `Exhausted`) or sent on
(`Forwards`), and then fails, is lost after it was answered (`AnswerLost`), or is counted
(`Serves`, `AddUnsaved` when the file cannot be written). `Restarts` takes the count back from
the file, or begins with an empty one when the file is missing or cannot be parsed, as it is after a
redeploy on an ephemeral disk. `bill` (what the model answered), `resets` (how often a month's count
was lost with its file), `uncounted` (what else no count knows of) and `peak` (the most
requests of a month at the model at once) are history variables.

## 3. Runs

| Run | Bounds | Shows |
|---|---|---|
| `session_cache` | 3 turns, 2 keys, 3 creations, cap 1, abort at any await | one process per key, serialized turns, no orphan, the cap, no kill under a turn, and that the cache implements `AgentThread` |
| `session_cache_live` | 3 turns on one key, 2 creations | every turn that called `run` leaves it, unless its agent hangs |
| `session_cache_idle` (violation) | as above, 2 creations | an abandoned session may have no idle countdown |
| `session_cache_close` (violation) | as above, 2 creations | an agent may start after `disposeAll()` resolved |
| `goal_run` | 2 runs, 2 steps, a cap of 1 or 3, every other limit 2 | cap, phantom row, lease, single worker, rule two, Stop during the audit, and that every run ends unless one of its turns hangs |
| `goal_run_history` (violation) | 2 runs, 2 steps, cap 3, smaller limits | a ticked step may become open again |
| `program_run` | 6 programs of up to 7 nodes, loops of 2, 9 steps, both policies, 1 restart | single execution, Stop, kept results, honest completion, no hang |
| `program_shared_node` (violation) | 1 program | a loop in one branch makes a shared node run twice |
| `program_resumed_failed` (violation) | the 6 programs | a resumed run fails without a failure |
| `program_gate_retry` (violation) | 1 program | a gate's retry arc retries nothing |
| `server_files` | writer: 2 files, 2 logs, 3 changes, 1 unreadable spell, 1 failure, 1 deletion; events: 1 client, 4 events, 3 cuts; edits: 2 files, 2 batches, 1 checkpoint kept of 2, 1 edit or restore; tier: 3 calls, 2 processes, limit 1, 1 midnight, 1 failed statement; gateway: 3 requests, backstop 1, 1 turn of the month, 1 restart or failed save | newest text, writes and other processes' changes that survive, whole logs, nothing stranded; cursors; serial batches, locks that move on, checkpoints that restore; the daily cap and the monthly backstop |
| `agent_parts` | scans: 2 scans, 3 threads, 1 fault; turns: 2 turns, 2 processes, 1 question, 1 idle tick, 2 pages; rewinds: 1 file, 2 turns kept of 2, 2 writes, 2 presses, 1 file held open, 1 failure | every promise of a scan settles, threads and scans belong together; a stopped or answered turn frees the chat, no agent without a watcher, hung means idle; reverts and undos are exact |

Why the bounds are enough: three turns are the least at which one is stopped in the queue
between a holder and a waiter; two keys over a cap of one make eviction happen; three
creations let a key be disposed, re-created and disposed again. Two runs are the least at
which an old loop's turn meets a new run's row; two steps let a rewrite keep one and replace
the other; limits of two let a counter both reset below its ceiling and reach it. A run is started
with a cap of its own: one below the plan turns, which it can reach before it has a plan, or one
above them, with which it gives up planning first. The order
of turns is not symmetric (the queue is a sequence), so no symmetry set is used. In
`session_cache` the creations are a supply that runs out; properties that need one more say
so (`Starved`). `goal_run` stops when every run has been used, and a program run when it has ended and is not
picked up, so deadlock is not checked there. The six programs are the shapes whose parts can
interfere: a fork with its join, branches that reconverge without one, a loop, a gate behind
a checker, a loop in a branch, and branches in a loop. Nine steps let every program but the
last finish, and let a restarted one run out of its budget. One restart is the least that
reads a checkpoint, and reads every checkpoint that any first segment can leave.

`server_files` and `agent_parts` each check several parts that share nothing: `under` is
chosen in the initial state and only its part moves, so the behaviours are exactly those of
the parts, one by one. Three changes are the least at which a write is in flight, a second is
queued over it and a third (another process's, or a synchronous one) comes in between; two
files show that the drain's order over files does not matter and two logs that a chat can be
moved. Files and logs of the writer are interchangeable (sets of model values no definition
orders), so they are symmetric; nothing else is. One client is enough because clients do not
see each other; three cuts let an append be torn, the server die and the stream break in one
behaviour. Two batches over two files make every circle of waiters there can be; a cap of one
checkpoint makes every second capture prune and sweep. Two scans over three threads let the
second take the warm thread, a standby or a thread of its own. Two turns are the running and
the queued one; two processes let the second turn need a new agent after the first was killed.
Two sends, writes and presses let a revert be widened over an active one, undone, or dropped by
the next turn, with a write of the agent and one of somebody else; two files with two writes, three sends (so
that a turn ages out), three presses and two files held open were also tried, one at a time.
Three calls under a limit of one let one be answered while two go over it and are given back in
either order; two processes share the row, or have one each in memory. Three requests under a
backstop of one let one be counted while two are still at the model.
These parts really stop (the supplies of changes, cuts, scans and turns run out), so deadlock
is not checked there. What would be a deadlock of the code is stated as a property instead:
`LocksMoveOn`, `NothingStranded`, `ScanEnds`, `TurnsYield`.

What the violation runs show, each against a quoted line of the repository (`findings`):

* `AbandonedIsTimed`: the comment at the top of the cache promises that an abandoned key
  never pins a subprocess. A turn stopped while queued still occupies the lock when the turn
  ahead of it arms the timer check, so the countdown is not armed; nothing arms it later.
* `NoAgentAfterClose`: `disposeAll()` tears every session down, but a turn waiting for a
  disposed entry re-creates it afterwards; nothing marks the cache closed.
* `TickedStaysTicked`: Stop leaves a built-in model's turn running. Its next tool call, or
  the park after it, writes the plan copy it began with over what a new run ticked meanwhile.

* `NoSecondRun`: the visit epoch belongs to the run, not to the walk that opened it. When a
  loop in one parallel branch starts an iteration, every branch is in a new epoch, and a
  node that both branches reach without a join between them is executed by each. The two calls
  may even overlap: one is answered, the other fails, and the answer that was paid for is gone
  from the checkpoint (`PaidIsSaved` is violated by the same program).
* `FailedHasError`: a node cut off by Stop or the deadline is recorded as `error`. The resume
  takes any `error` in the checkpoint for a failure of the run and never takes it back: the
  run ends `failed` although the node then succeeded.
* `CompletedAtEnd`: a `branch-false` edge back to an earlier node is the one cycle besides
  a loop that validation allows, as a retry. The earlier node was visited, so the walk ends
  there, and the run is `completed` with its end node never reached.

Where the code was found to differ from its comments without a run of its own, the model
follows the code and the property names the exception:

* Writer (`ChangesSurvive`, `stale`). A file that cannot be read is shown to readers of this
  process as the whole text of its newest queued write (`asyncWriter.ts:105`), and a write made
  from that text is not built on a fresh read, which the comments at lines 22 and 205 promise.
  The comments at line 174 and `store.ts:121` say that a merge falls back to its text when the
  file is absent or unreadable; the code then writes nothing, or retries.
* Event log (`CursorMeansSeen`, `glued`). `append` does not ask whether the file ends in a
  whole line. An event written behind a torn line is told to its watchers and is on disk, but no
  reader can parse it (`programRunStore.ts:264`, against 232 to 235); and when only the newline of
  the torn one was missing, a replay may have shown an event that is unreadable from then on.
* Scans (`ThreadsServe`, `garbled`). A graph that turns out unreadable after its worker said
  `done` stops the worker, which by then may serve another scan (`scanRunner.ts:238`). An abort
  in the same window is ignored.
* Turns (`HungIsIdle`, `crossed`; `AnsweredYields`, `answered`). The comment at
  `runNodeRoutes.ts:988` calls the sink correct because one turn is active at a time, but the sink
  is set when a turn is sent and not when it starts. The queued turn's page gets the running turn's
  updates and questions, its detector may call it answered, and the running turn's watchdog hears no
  progress. A turn that ends gives back the sink it found, which may be that of a turn that is over.
  With a third send, the comment at line 978 fails too (an answered turn that holds the prompt
  "would lock this send out for good: cancel it"): a turn called answered in the queue, for the text
  of the turn before it, is cancelled neither then (nothing else waits) nor by the send that comes
  before it runs (only running turns are asked), and nobody asks again. Trying to prove the promise
  for every number of sends is what showed this; it is stated of turns that were answered while they
  ran.
* Rewind (`UndoIsExact`, `touched`). The comment at `snapshot.ts:695` says that Undo always returns
  to the state before any revert. A file that the active revert put back and that a revert to
  another turn leaves alone (it is held open now, or was when that turn started) drops out of the
  files of the revert (line 717): Undo no longer restores it. Neither does it restore files that a revert
  put back before git failed, since only a finished one is recorded (line 736). What an agent writes
  while its turn is being reverted, or after, is not part of what that revert promises.

* Daily cap (`ServedWithinCap`, `late`). A refund reads the day again (`freeTierLimit.ts:249`), so
  that of a call charged before midnight is taken from the new day's row. That row then lets one
  call more through than the limit, although the comment at line 253 calls a refund that is off
  "the SAFE direction (it can never exceed the ceiling)"; the old day's row keeps a charge for nothing.
* Backstop (`SpendIsBounded`, `resets`). `gateway.ts:187` calls the backstop authoritative, but a
  server that starts without its spend file, or with one that cannot be parsed, counts the month from
  nothing (`store.ts:74`; its comments at 11 and 49 say that a redeploy does this). Each such start lets
  the month cost one backstop more, and the bound says so.

## 4. Fairness

`AcpSessionCache`: promise reactions run; an armed timer fires; a disposed agent exits (it is
killed after a grace); and a turn in use ends once it was stopped (the agent confirms, or is killed
after the grace) or its agent is gone (what it was asked is rejected). That is all (`MustEnd`). No
other turn is assumed to end: a question to a person pauses its watchdog. Nor does a creation
have to settle: the cached path calls `start` and opens the thread without a signal
(`runNodeRoutes.ts:1027`), the client sets these requests no deadline, `ensure` is not raced with
the abort (`acpSessionCache.ts:290`), and the watchdog begins only in `use`. So an agent that hangs
while it starts keeps the turn that asked for it and everyone who joined the creation, and
`EveryTurnLeaves` says so: a turn leaves, or its own agent never stops starting, or one turn holds
that agent for ever without being stopped (`Hangs`). What it excludes is a turn kept by anything
else, such as a lock left behind, a gate that stays shut or an agent that is already gone. An
undisposed agent need never exit, and nobody need ever abort.
`GoalRun`: the loop's own code runs (`Top`), and nothing else is assumed to happen, no Start, Stop,
tool call or restart. In particular no turn is assumed to return: a model's call has a deadline only
if one is configured, and an agent's turn can hang as above before a watchdog looks at it. So
`EveryRunEnds` says that a run which goes on for ever has one turn that never returns
(`AwaitsTurn`), however its turns fail, tick, park or come back hollow otherwise.
`ProgramRun`: the walkers that are ready go on, an abort or a timer that is due settles the
race, and the run's ending is committed, which assumes that disposing the executors and measuring
the tree come back. No executor is assumed to answer, and nobody to
stop the run: `NoHang` says what follows once somebody does, or the deadline has passed.
The modules of `server_files` and `agent_parts` assume no fairness: what must not get stuck
there is stated of every state (somebody is still there to make the next step).

## 5. Proofs

For every number of turns, keys, creations, runs and steps and every value of the limits.

**Session cache** (`AcpSessionCacheProofs`). `OneTurnPerSession` is not inductive: the invariant
that is says where each turn that holds or waits stands in the lock queue, that it appears once,
and that only the head holds (`LockInv`). `OneProcessPerKey` and `NoOrphan` need that a creation
in flight is the registered one of its key, that its gate contains every process of the key
still up, and that a live entry and a creation of one key never coexist (`EntryInv`, `KeyInv`);
that an idle timer runs only on an unused entry (`IdleTimerOnlyUnused`) follows from the same
invariant. Nobody's agent is killed under him (`AgentsKept`) because the count of a key is the
number of turns in it and a countdown stops before a turn queues. The cap (`CapKept`) needs that
`older` is a strict total order of the keys in the map (`Ordered`): the idle keys then have
different ranks in it, so an eviction that takes the lowest of them takes as many as the cap
asks for, or all. The refinement of `AgentThread` (`CacheImplementsThread`) maps the process of
a key to its only entry that is up, and shows each step of the cache to be one of the thread's
steps on one key, or none.

**Goal run** (`GoalRunProofs`). `IInv` conjoins the types with three facts. `RowInv`: a running
row has a loop in flight or at its top and no ending yet, and a loop in flight for the row's run
has a turn left to count, which is what makes the cap survive `Counted`. `LeaseInv`: an unused
run neither holds the lease nor is being cancelled, so the one that starts with it is alone;
needed because the earlier run's exit drops the lease only if it is still its own. `StrikeInv`:
strikes never exceed real attempts. From it follow `CapHolds`, `NoPhantomRun`,
`LiveAgentHasLease` as invariants, and `TurnsOnlyForItsRun`, `ParkedOnlyAfterAttempts`,
`StopSurvivesAudit` as action properties: each proof first shows which action can make the step
the property is about (only `Top` begins a turn, only `WorkTurnReturns` parks), then uses the
invariant at that action.

**Program run** (`ProgramRunProofs`). For every program graph, budget and number of restarts.
`IInv` conjoins the types with four facts. `LoopInv`: a walker at a loop's head is inside that
loop, so the frame it takes off exists. `ErrorInv`: an error among the results of a live call
has failed it, unless a stop, a pause, the budget or the deadline ended it; it holds again after
a restart because the call begins with `failed` set from the checkpoint. `OverInv`: a call that
has returned left its results in the checkpoint, and nothing is walked any more, so the outcome
is committed over the results it was read from. `RecordInv`: the record of a live run says
running, and that of a completed one holds no error. The proof is by the step of one walker:
lemmas say what following an edge, returning, and forking branches do to the walkers
(`FollowKeeps`, `BackKeeps`, `FanOutKeeps`) and what each way of recording does to the record,
and `StepKeeps` and `CallKeeps` combine them kind of node by kind of node. They also show that
only `Launch` calls an executor, and only past the brakes, which is `SpendStops`. `TypeCorrect`
contains the step budget: `Claims` is guarded by it, and the count is raised in the same step.
`PaidIsSaved` and `NoSecondRun` do not hold of every program (section 3). They are proved of
those in which no iteration can open a pass under a branch: `PlainRunsKeepAnswers` of programs
without a loop or without a parallel node, `LoopFreeRunsOnce` of programs without a loop. The
invariant is `PaidInv`: what was earned is in the results and in the checkpoint, and at a node
whose executor is awaited, by one walker at most, nothing is earned; that it is one walker
follows from the visits (`ClaimedInv`, `DoneInv`) or from there being no other (`AloneInv`). For
a loop beside a parallel node there are the two shapes `program_run` checks (a loop in a branch
before the join, branches in a loop), and no more is claimed.

**Agent turns** (`AgentTurnProofs`). For every number of sends, agents, questions, pages and
every idle limit. `TurnInv` conjoins the types with six facts and the properties themselves.
`HoldInv` is the one the rest need: a watchdog is paused exactly while an open question holds
it, and the pauses it counts are as many as those questions; each step that asks, answers or
gives up is a step of one element of a finite set. `AskInv`: a question heard by a turn's own
page holds that turn's watchdog. `AgeInv`: while a countdown runs, its age is never more than
the time the agent has been still, which at the limit is `HungIsIdle`. `PhaseInv`, `StopInv` and
`AnswerInv` relate the phase to the watchdog, an abort to the timer of its stop, and an answer
to the phase it came in; with them `TurnsYield` survives the agent's death, a hang and the end
of a turn. That the types hold needs the count too: a release must find a pause to take off.

**Rewind** (`TurnSnapshotsProofs`). For every set of files, every number of turns kept, and
every number of sends, writes, presses, held files and failures. `RewindIsExact` says nothing of
the turns that are not reverted to, so it is not inductive. What is: a file that no turn lists
from turn `s` on, that nobody else changed and no revert put back still holds what it held when
`s` started (`DiskInv`); the undo point holds it for the files that were put back (`UndoneInv`),
a later turn started with it (`PastInv`), and the disk holds it again for the turns before the
one reverted to, which is what remains when a new turn drops the others (`BackInv`). The tree of
a turn is what the files held at its start (`TreeInv`) because its agent waits at the gate until
no snapshot is queued (`JobInv`, `AgentInv`: an agent that has been let through has its turn as
the newest and its file on that turn's list). `StageInv` and `ReadyInv` carry what a revert has
found out across its awaits. `FactsGrow` says once what a write, a listing and a failure have in
common: they only add to the lists and to the excuses.

**Writer** (`AsyncWriterProofs`). For every number of files, logs, changes, retries, unreadable
spells, failures and deletions. `ChangesSurvive` speaks of the disk; what is inductive speaks of
every copy of a file at once, the one on the disk, the write a drain has taken and the one
queued (`FileOK`): a synchronous write is in all of them, another process's in the disk's and in
those that will be written blindly. `FileOK` also says that no change is in two of them that
will be put on each other, which keeps the texts free of doubles. `DrainInv` adds to
`NothingStranded` that a drain belongs to a flush and that only a blind write has a temporary
file. `LogsInv` joins what is on the disk of a log, in a drain's hands and queued into one
rising sequence, from which a failed append takes a whole job, wherever the job is written: by the
drain, a read, a move or the exit. `WriterKeepsPromise` is the refinement of `DeferredFile`: each action either
leaves `EffectiveText` of every file as it is (taking, writing, renaming, putting back) or is a
step of the abstract file.

**Event log** (`ServerFilesProofs`). For every number of clients, events and cuts.
`CursorMeansSeen` compares what a client received with the file up to its cursor. The invariant
(`CleanInv`) says, while no line was glued, that the numbers in the file rise, that the counter
is behind none of them, and that each client has seen the first lines up to some place and has
the next ones on their way up to another, which is the end of the file while its stream is open,
unless the last line there is one that nobody was told of (`Follows`): a stream that breaks loses a tail of that and nothing else. `LinesAt` states what
the code's filter returns by the places of the lines, because the prover has no rule for
`SelectSeq`.

**Locks and checkpoints** (`ServerFilesProofs`). For every number of batches, files, edits and
checkpoints. `LocksMoveOn` rests on `InOrder`: the paths a batch holds come before those it
still asks for, so that whoever holds the path it waits for waits, if at all, for a later one.
`BatchesSerial` needs that of two batches that wrote a file the earlier is over (`OrderInv`),
which the lock table and the batches' own lists give (`HeldByOwner`). `RestoreWorks` needs that
a file tracked after a checkpoint was until then as in its picture, and one never tracked still
is (`PointExact`, `Unmoved`); the sweep then keeps every blob that a baseline or a listed
checkpoint names (`AllKept`).

**Scans** (`ScanPoolProofs`). For every number of scans, threads and faults. `ScanEnds` and
`ThreadsServe` are read off one invariant, `PoolInv`, stated thread by thread: a thread that
crashed or was stopped ends, and what it posts last about a scan is the last of it (`OwnOK`); a
thread that nobody listens to has no scan, lives only as the warm one, and as the warm one has
nothing to say about a scan that left (`IdleOK`); a thread that a scan listens to speaks of that
scan only, and whatever the scan still waits for is to come (`ServeOK`); a scan that lost its
thread waits for nothing from it (`LooseOK`); and at most one scan listens to a thread. Each
handler is a step of one thread and one scan, and the lemmas say what it does to each by itself.

**Limits** (`ServerFilesProofs`). For every number of calls, processes, requests, days, months
and faults, and every limit. That no more calls are let through than the limit is not inductive:
it needs that a row never forgets a call that holds a charge, `Cardinality(Holding(r)) <=
used[r] + late[r]` (`RowsCounted`), so that a charge that finds room below the limit has it. A
step moves one call: `OneCallMoves` says what that does to the calls a row holds and has let
through, and `PlaceKeeps` what the counts must do with it; only a charge lets a call through.
The death of a process moves many at once, and what they held is what leaks. For the gateway
(`MonthFine`) a month's bill splits at the losses of its count: what came before them is bounded by
one backstop and one peak for each (`Forgotten`), and of what came since (`Life`) the count misses
exactly the uncounted, the file is behind the count, and the count leaves room for the requests that
are at the model. A restart that loses the file moves the second part to the first. These are
products of variables, which the solver is given only in the lemma `Products`.

Assumptions: only the named ones on the constants (positive limits, a non-empty set of keys,
`None` and its like outside the sets they are no member of). TLC evaluates them in the runs.

Only model-checked: the three liveness properties, `EveryTurnLeaves`, `EveryRunEnds` and
`NoHang` (liveness under fairness is out of the prover's reach), and `PaidIsSaved` and
`NoSecondRun` for programs that have both a loop and a parallel node (`NoSecondRun` for any
program with a loop), which is a matter of the shape of the program's graph. Everything else
that a passing run checks is a theorem.

Two things about the form of the proofs. Where one needs the least of some numbers (the first
path a batch still has to lock), the library's theorem on well-founded orders gives it
(`Least`). And `ScanPool` gives the nested updates of a record names of their own (`Given`,
`Shorter`, `HeardOf`), because the prover misreads an `@` inside another `EXCEPT`.

## 6. Not modelled, and why

Of the modelled components: the ceiling on live program runs and the change statistics; a
failing event sink inside the walk of a program; scaffold texts, messages and the wording of
endings; the harness's own file read before a turn; the worktree a second agent run is given;
the plan editor other than unparking; the ACP protocol inside a turn; the conversation half of
a restore and a corrupted blob; the worker that builds a function graph on demand; turns
without a session key, and the record and the queue of prompts around a turn; of the rewind, git
itself, ignored files, the lists and diffs that are only read, the revert of one hunk, the gc of old
trees, the warming of an idle index, the other sessions on the same shadow, and a session file that
cannot be written; of the free tier and the gateway, the pruning of old rows, the monthly meter with
its store and the ledger (the usage is read before a call and written back after it, `repoServer.ts:7455` and 7470, so
that calls which overlap count as one), the caller's token and the limit on requests a minute.
A creation's failure is nondeterministic, whatever its cause. Everything marked `not_modelled`
in `PROJECT.json` is left out for the reason given there: most of the repository is a pure
analysis, a user interface, or formatting and I/O with no state that two actors share.

## 7. Plan

1. Proofs: `PaidIsSaved` for programs with loops beside parallel nodes whose bodies and branches
   are apart, which needs what the runs compute (`Reach`) as an assumption on the programs; the
   types and budgets of composed parts as they grow.
2. The graph and map caches with the watcher: a result is never older than its signature.
