# A TLA+ development for happycode

happycode is a coding agent for the terminal: a fork of the Codex runtime (Rust
crates under `src/core`, `src/state`, `src/tui`, ...) with an in-process code
graph (`src/crates/happy-core`). This directory models the parts of it that
several processes or background tasks share, checks them with TLC on small
instances and proves their main invariants with TLAPS for every instance.

`PROJECT.json` lists the components, the runs, the mutants that show that each
property can fail, the source lines behind each definition, the findings, the
hazards and the theorems.

## The system

| Part | State | Operations | What is hard | What makes it correct |
|---|---|---|---|---|
| Memory job store (`state/src/runtime/memories.rs`) | SQLite tables `jobs`, `stage1_outputs`, shared by all processes | scan, claim, succeed, succeed without output, fail, enqueue, claim global, heartbeat, complete, clear | leases, retries, claims taken over, watermarks that must count work | no work lost, no late report applied, cap on running jobs |
| Memory pipeline (`core/src/memories`) | claims in memory, files under the memory directory | phase 1, phase 2, the consolidation agent, `drop_memories` | crash between steps, lease lapse, drop under running workers | directory = recorded inputs; every job eventually done or given up |
| Repository graph (`happy-core/src/graph`) | nodes, edges, lookups by id, name and file | build, remove a file, update a file, queries | edges across files when one is re-indexed | edges are true of the indexed sources, calls are found |
| Keyword index (`happy-core/src/vector/bm25.rs`) | documents, inverted index, count | add, remove, search | two texts with one id | hits are elements of the graph and conversely |
| Session index (`core/src/tools/handlers/code_graph.rs`, `happy-core/src/watcher`, `indexer`) | shared handle, watcher channel, batch | walk, read, publish, watch, drain, apply | files change at any point of all of this | the index follows the disk |
| Turns and tasks (`core/src/tasks`, `state/turn.rs`) | active turn, running tasks, pending input and approvals | spawn, abort, finish, steer | abort racing completion, input arriving at the end of a turn | one active turn, accepted input handled or recorded |
| Readiness flag (`utils/readiness`) | flag, set of tokens, watch channel | subscribe, mark ready, wait | lock-free checks before the lock; a broadcast nobody receives | no token once ready, waiters pass only then and then do |
| Sub-agents (`core/src/agent`) | spawn slots, nicknames, statuses | spawn, release, status, shutdown | concurrent spawns at the limit | limit kept, slots released once |
| Tools (`core/src/tools`) | approval cache, parallel lock, pending network approvals | approve, run, retry without sandbox | two calls waiting for one answer | one prompt for one question, no deadlock |
| Unified exec (`core/src/unified_exec`) | table of processes | start, write, poll, prune, exit | a process pruned while polled | limit kept, protected processes kept |
| Rollout recorder (`core/src/rollout`) | session file, queue of items | create, persist, flush, shutdown, resume | crash, deferred creation | items in order, none lost after flush |
| State runtime (`state/src/runtime.rs`) | threads table, backfill state | upsert, delete, backfill lease | two processes backfilling | one backfill, watermark grows |
| Front ends and adapters (tui, app server, MCP, network proxy, sandboxes, parsers, Python) | mostly I/O or presentation | | | |

How they interact. A session (`core/src/codex.rs`) takes submissions one at a
time and runs the task of a turn beside its loop; the two share `active_turn`. A
turn's tool calls are tokio tasks that die with it: they open processes in the
session's process store, spawn sub-agents through a control that all agents of
the user session share, and wait for the turn's readiness flag. Every session
writes its rollout through a writer task. It also spawns the memory pipeline and
the session index as background tasks. The pipeline shares its database and its
directory with the pipelines of every other process of the user. The index is a
`RwLock` that the indexing task fills once, the watcher task updates and the
tools read.

## Modules

| Module | Models |
|---|---|
| `MemoryJobs` | each SQL statement on `jobs` and `stage1_outputs`, as an operator on a row |
| `MemoryPipeline` (extends `MemoryJobs`), abstract specification `Consolidation` | the processes: pipeline runs, timers, thread activity, crashes, drops |
| `CodeGraph` | the graph and the keyword index as values, with their operations |
| `LiveIndex` (extends `CodeGraph`) | the indexing task, the watcher task and the changing files |
| `ReadinessFlag`, abstract specification `Latch` | the readiness flag, access by access |
| `TurnTasks` | the session loop, the tasks of its turns, pending input and approvals |
| `AgentGuards`, abstract specification `SlotPool` | slots and nicknames of sub-agents, with the tools that use them |
| `ExecProcesses` | the process store of unified exec, its calls, watchers and sweeps |
| `Rollout`, abstract specification `Journal` | the rollout recorder, its writer task and its file |
| `MC...` | the instances for TLC |
| `...Proofs` | the theorems |

A definition under a comment "Mutant of X" (or "A mutant", just before X) is a
plausible bug in X; it is used only to check that a property notices it.

### Memory pipeline

`stage1[t]` is the `jobs` row of thread `t`, `global` the singleton row of the
consolidation, `outputs[t]` the `stage1_outputs` row. Clock values are reduced
to the outcome of the comparison the SQL makes (`lease` is valid or lapsed,
`retry` is waiting or due), and timers are actions of their own. Watermarks stay
numbers, since the code does arithmetic on them. A worker is one run of
`start_memories_startup_task`; `pc` says where it is, `held` are the claims whose
result is outstanding, `p2` what phase 2 carries between its steps.

Every action is one transaction or one suspension-free stretch of code:
`StartPipeline` (the scan, outside a transaction), `TryClaimStage1` (one
`BEGIN IMMEDIATE` transaction), `ExtractSucceeds` / `ExtractFindsNothing` /
`ExtractFails` (the report of one of several concurrent jobs), `ClaimGlobal`,
`ListOutputs`, `SyncSummaries`, `RebuildRaw`, `Heartbeat`, `AgentCompletes`,
`MarkSucceeded`, `MarkFailed`, `MarkFailedIfUnowned`. Failures: `ClaimsFail` (an
error drops the claims made so far), `Phase2StepFails`, failed writes inside
`SyncSummaries`, `Crash`. `drop_memories` is two steps, each of which may fail.
The contents of memories are abstracted to the thread and the activity time they
come from, plus whether they are blank.

`consolidated` is a history variable: what the last recorded consolidation read.

`Consolidation` is what the store promises: it is as if one consolidator worked. It
reads the selection while there is work, gives up or records what it has read, and
only recording a selection that is still current ends the work. The refinement maps
its `current` to the outputs selected now, `dirty` to a global row that is not clean,
`record` to `consolidated` and `view` to what the worker that owns the row has listed;
a worker whose claim was taken over has no view, so whatever it does is a stutter.

### Session index

A source file is abstracted to what the parser extracts: elements, names called,
bases, imported modules and names, and which elements share an id. A graph keeps
the content of each indexed file, the edges, and the order of the entries of
`name_to_nodes`, because call resolution takes the first. Elements of one file
with one name are one node; scores, lines and paths are left out. `disk` is the
working directory and changes at any time, also between two steps of a task.
`events` is the watcher's channel, `batch` what was drained and not yet applied.
The batch is applied under the write lock, but file by file, since the disk may
change between two reads. `blind` is a history variable: the files whose last
change the watcher could not see, or saw as the source of a rename. `twins` is
another: the ids that two definitions of an indexed file have shared.

### Readiness flag

A subscriber is a task that takes a token and marks the flag with it, a waiter one
that calls `wait_ready`. A step is one access to an atomic, to the lock or to the
watch channel. `Broadcast` is how `watch::Sender::send` behaves as the code relies
on it: without a receiver it fails and the value is not stored. The token counter
is a number modulo `TokenSpace`. `Latch` is what a user of the flag can rely on:
rights to open are granted while it is closed, one of their holders opens it, or
nobody does while no right is out (`OpenUnclaimed`), and nobody passes before. That
a look at a flag without subscribers opens it follows the code and its test
`is_ready_without_subscribers_marks_flag_ready`, not the doc comment of the trait
(below). The refinement maps the holders to the subscribers whose
token is in the set, those that opened to the ones `mark_ready` told so, and those
that passed to the waiters that returned.

### Turns and tasks

`active`, `queue` and `pending` are `active_turn`, its pending input and its
pending approvals. `loop` is the session loop; `Take`, `Cancel`, `Kill`,
`EmitAborted`, `SpawnTask` and `RegisterTask` are the stretches of
`abort_all_tasks` and `spawn_task` between two points where a task may run. `pc`
is the task of each turn: `run_turn` is reduced to taking input under the lock
(`TakeInput`, into `hand`), recording it item by item (`RecordInput`), sampling, and
going round again while there is a tool call or input left; other kinds of task
end at once. An approval request is filed under `Key`; a request whose sender was
dropped (overwritten, or its turn gone) is denied by default.

A tokio abort takes effect when the task is next suspended. So steps that resume a
task need `t \notin killed`, and steps that may still belong to the poll that was
going on do not; `Die` is the suspension. `killed` is set by `handle_task_abort`
and by `Finish`: `remove_task` drops the `RunningTask`, and with it the
abort-on-drop handle, of the task that is executing it.

### Sub-agents

An actor is one tool call (spawn, resume, send, close) of any agent. `total`,
`set`, `used` are the counter, the set of threads and the used nicknames of
`Guards`; `live` is the map of the thread manager, `stopped` the threads in it
whose session loop has ended. The compare-exchange loop is `Load`, `LimitReached`,
`Exchange`, `Retry` (which may fail spuriously). A call that is dropped with its turn leaves at
an await: `DropReservation`, `Abandon`. `known` are the threads that have a rollout
and can be resumed, `earlier` those of them that other sessions or processes made:
initially any set of threads, with any stored nicknames, against guards that are
empty. `nick` is the nickname in the state database, which a resumed thread gets
unchecked, or not at all when the database does not give it. Threads that other
sessions of the same process keep live are not in `live`; `max_threads = None` is
left out. `SlotPool` is a counter between 0 and its capacity.

### Unified exec

A call is one `exec_command`, and its process has its name. `store` and `reserved`
are the two parts of `ProcessStore`. A process lives as long as some `Arc` holds
it (`Held`); `Terminate` is the explicit call and the `Drop` of the last owner.
`recency` is the order of the processes by `last_used`, as a relation. A call awaits between the lock and
everything after it, so `StoreProcess`, `Evict` and `Warned` are steps of their
own and `DropCall` may come between any two. The pc `stored` is a call that
returned a process id. `stale` is a history variable: the calls whose id was freed
by somebody else while the call, its denial watcher or the store still used it
(`Uses`, `MarkStale`).

### Rollout recorder

Items are numbers in the order of recording, 0 is the session's metadata. `queue`
is the channel, `buffer` the items before the file exists, `pending` what is left
to write of the command at hand, `disk` the complete lines and `tail` whether the
last line lacks its newline. `sending` are the callers that wait for room in the
channel; `Ask` starts a call and `Enqueue` puts its command there. A failing write
leaves none, some or all of the line; a crash may tear it. A torn line may also be
cut inside a multi-byte character. A line that is complete but for its newline counts as torn.
`Resume` opens the file for appending, without repairing the tail, as the code
does; it fails for a cut file, since `load_rollout_items` reads it as one string. `Journal` is a log that is only appended to, in increasing order.

## Runs

| Run | Checks | Instance | Distinct states |
|---|---|---|---|
| `memory_contention` | `TypeOK`, `CleanMeansConsolidated`, `OutputMatchesSuccess`, `RunningIsRecoverable`, `SuccessNeverRegresses`, `RefinesConsolidation` | 2 workers, 1 thread used once more, stalls, a drop, files that resist removal | 3.5 million |
| `memory_consolidation` | `CleanMeansConsolidated`, `RunningWithinLimit`, `DiskMatchesRecord`, `DirtyIsConsolidated`, `PendingIsExtracted` | 2 workers, 2 threads with equal times, one of them written by a worker's own session, the other one may age, 2 retries, one output selected, one running job allowed, a crash, no stalls, fairness | 570 thousand |
| `index_safety` | `TypeOK`, `OnlyBlindFilesStale`, `SearchHitsHaveSource`, `SearchIsComplete`, `CountIsRight`, `CallEdgesSound`, `LocalCallsExact`, `ChangesAreIndexed` | 2 files, 3 contents that call, import and inherit across files, one of them with an id defined twice, 4 changes of any kind at any time, failing tasks, fairness | 204 thousand |
| `readiness` | `NoTokenOnceReady`, `RefinesLatch`, `ListenersWake` | 2 subscribers, 2 waiters, 4 token values, fairness | 11 thousand |
| `turns` | `NothingRunsWhenIdle`, `InputAccounted`, `TurnsEnd`, `InputsAreHandled` | 2 turns, 1 input, 2 requests under one approval id, fairness | 641 thousand |
| `agents` | `CountCovers`, `NamesDistinct`, `RefinesPool` | 2 tool calls at a time, 2 agents, any of them from an earlier session, 2 names, 2 slots | 8.9 million, up to symmetry |
| `exec` | `TableWithinLimit`, `RunningIsReachable`, `EndedOnce`, `EndsAreAnnounced` | 2 calls, a store of 1, warning at 1, fairness | 420 thousand |
| `rollout` | `AckedIsDurable`, `RefinesJournal`, `CallsReturn` | 2 callers, a channel of 2, 3 items in batches of up to 2, 3 faults, fairness | 224 thousand |

The remaining runs refute what a comment or a message says; each is a finding:

| Run | Refutes | Because |
|---|---|---|
| `memory_drop` | `DropLeavesNoFiles` | a consolidation in flight writes its files after the drop reported success |
| `readiness_wait` | `WaitersWake` | `mark_ready` may send between a waiter's check and its subscription to the channel; that broadcast reaches nobody and is not kept |
| `turn_lost` | `EndsAnnounced` | a finishing task drops its own abort-on-drop handle; if an await then suspends it, `TurnComplete` is never sent and leftover input is lost |
| `rollout_ok` | `OkMeansWritten` | the writer answers a `persist` that failed before it returns its error |

### What the properties exempt

Several properties hold only with an exemption that names a weakness of the code.
They are visible in the definitions and repeated here:

- `OnlyBlindFilesStale`: a change between the walk and the start of the watcher is
  never indexed, nor is the old name of a rename removed (both are `blind`).
- `CallEdgesSound` and `LocalCallsExact` say that edges are true and that calls
  within a file are found. Calls from other files into a re-indexed one are lost
  until those are re-indexed too.
- `SearchHitsHaveSource` and `CountIsRight`: two definitions of a file with one id
  (two `impl` blocks of one Rust type, say) leave postings behind when the file is
  removed, and `num_docs` counts them twice. The run has such a file; the properties
  exempt exactly the ids in `twins`, and the count from being exact once there are
  any. `SearchIsComplete` needs no exemption.
- `RefinesLatch` allows `OpenUnclaimed`: the first look at a flag that nobody has
  subscribed to makes it ready. The doc comment of `is_ready`
  (`utils/readiness/src/lib.rs:21`) says "At least one token needs to be marked as
  ready before", which the code does not keep; a test expects what the code does.
- A session that starts in a directory without sources never gets an index.
- `DiskMatchesRecord` is checked with `Stalls = FALSE`: a worker that outlived its lease
  overwrites newer files, since ownership is not checked before writing. It also
  takes `PruneFails = FALSE`, an error the code logs and ignores, and no drop: see
  the run `memory_drop`.
- `PendingIsExtracted` and `DirtyIsConsolidated` hold for boundedly many crashes: a
  lapsed lease is taken over without spending a retry, so a job that kills its
  process every time is claimed for ever.
- `InputAccounted` and `InputsAreHandled` exempt input that a task has taken and not
  yet recorded when the abort's 100 ms run out: it is lost with the task.
- `InputsAreHandled` exempts `DeadTurn` (the task was over before
  `register_new_active_task` stored it, so a dead turn accepts input); leftover
  input of the `SelfAborted` task of `turn_lost` is lost like that of an aborted one,
  and `TurnsEnd` exempts that task.
- A turn may announce both `TurnAborted` and `TurnComplete`, when the abort's 100 ms
  run out under a task that is completing.
- `CountCovers` is an inequality: concurrent resumes of one agent, or a close
  between the insertion of a thread and its commit, lose slots for good. With
  another order of close and resume more threads are live than there are slots.
- `NamesDistinct` speaks of the threads that this session made and of the time
  before the first reset. A thread of another session that is resumed brings its
  stored nickname, which `reserve_agent_nickname` takes unchecked, so it may be that
  of a live agent.
- `RunningIsReachable` exempts a process pruned by a call that was dropped before its
  `terminate()`, and two processes with one id if that id was freed behind the back
  of one of them (`stale`): by a sweep, or by a prune or a poll while the call or its
  denial watcher still used it.
- `EndsAreAnnounced` speaks of calls that returned: a call dropped at the warning
  leaves a stored process without its watcher. A command rejected for its network
  access has a begin event and no end event.
- `AckedIsDurable` allows one lost item for each torn line, the one that a resumed
  recorder appends to it. It says nothing of a file whose last line was cut inside a
  multi-byte character: `read_to_string` then rejects the whole file, the session
  cannot be resumed, and every acknowledged item is out of reach although its line
  is there.

### Bounds

Memory. Two workers are enough for every conflict of the pipeline, which is
between one claim and the one that takes it over; three tokens are enough for two
workers never to run out (a token is known to at most the row and one other claim,
so `TryClaimStage1` and `ClaimGlobal` are never blocked, and the memory runs check
deadlock). `MaxUpdate = 2` gives a thread one activity after its first extraction,
`MaxRaw = 1` with two threads makes the selection matter. `Retries = 2` in
`memory_consolidation` gives a failed job a backoff with a retry left, which the two
liveness properties are about; `Retries = 1` elsewhere makes every failure the last
one, the tightest case for `RunningIsRecoverable`. `Ageing` are the threads that may leave
the age window: all of them, but for one in `memory_consolidation`, whose jobs then have no
way out but to be done or given up. `MaxCrashes` and `MaxDrops` bound the crashes and drops. `Stalls`
and `PruneFails` switch parts of the environment on. Worker symmetry is used where
the workers are interchangeable and no liveness is checked.

Index. Two files give every pair of events and calls in both directions; one
content defines an id twice, so files with and without shared ids replace each other. `MaxEdits`
bounds the changes: afterwards the watcher sleeps for ever, which is what it does
when nobody edits, so the run does not check deadlock. `EarlyEdits`, `Renames` and
`Failures` switch parts of the environment on.

Readiness: four token values are one more than two subscribers need. The counter
does not wrap around: tokens are removed only when the flag becomes ready, none is
granted then, and the theorems assume a token space larger than the subscribers
need (the code has 2^32 values). Turns: two turns
are needed for one to replace the other; two requests of the first turn share an id,
which is what overwrites a sender; one input is taken, kept or left over in every
way, and the theorem covers any number. Agents: two calls meet on two agents with as
many slots and names as agents, so that both limits are reached; actors, agents and
names are interchangeable, and no liveness is checked. Exec: one call more than the store holds; the limit and the
warning level coincide, so that pruning and the warning occur in one call
(`Protected = 0`; the proofs take any values). Rollout: a channel of two is full with a
record and a persist, so that a second caller waits for room, batches of two leave a line to be torn, three faults allow a
crash, a resume and a second crash or failed write. These five systems come to rest when
nobody calls them, so their runs do not check deadlock, except `agents`, where a call
is always possible.

### Fairness

Memory: sessions keep being started and tokio polls a task that is ready, so each
worker's phase steps are weakly fair; wall-clock time passes, so lapsing leases,
elapsing backoffs and idling threads are weakly fair. Heartbeats, crashes,
errors, user activity and drops are never forced. Success is not forced either:
`DirtyIsConsolidated` and `PendingIsExtracted` allow that the retries are spent.
Index: both tasks are spawned on the runtime and wait for nothing but the lock
and the debounce timer, so `IndexTask` and `WatchTask` are weakly fair.
Readiness: threads run and a ghost snapshot ends; nobody has to time out or to be
cancelled. Turns: the session loop, the tasks and the calls that wait for a dropped
sender are weakly fair; a request to the model ends, because its stream has an idle
timeout. No user has to submit or to answer. Exec: only the tasks of a process that
has exited are fair; processes need not exit and calls need not go on. Rollout: the
writer task is weakly fair; so is, strongly, the command of a call that waits for
room, because the semaphore of tokio's bounded channel serves its waiters in their
order, so that others cannot fill the channel in front of it for ever. Nobody has to
call, and faults are free.

## Proofs

All theorems are for any sets and any values of the bounds, under the named `ASSUME`s of the
modules, and none of the properties is inductive as it stands. Only `DiskIsRecorded` has
hypotheses of its own, named below.

`MemoryPipelineProofs`, with stalls, crashes and drops:
`TypeCorrect`, `NoLostConsolidation`, `OutputsCurrent`, `RunningRecoverable`,
`RunningBounded` and `SuccessMonotone`. The invariant `Inv` adds

- that tokens identify claims: two outstanding claims of one job never share one,
  and the claim that owns a running row still carries the row's activity time (a
  report trusts its claim, the row trusts its input watermark);
- what a consolidation in flight knows: its claimed watermark is at most the
  row's, and if the row has not been enqueued beyond its completion watermark
  since it listed, then what it listed is what is selected now. This is the
  reason why completing with `max(claimed, listed)` loses nothing although
  outputs arrive between claim, listing and completion, and it rests on the `+ 1`
  of the enqueue;
- that a running row is newer than any success of its job, which `UpToDate`
  guarantees at the claim.

`PipelineRefinesConsolidation` shows each action to be one step of `Consolidation` or
none. By the first point at most one worker has a view (`OneView`). Reports that store
an output are `Change`, a listing by the owner `ReadSelection`, its completion `Finish`,
its failure `GiveUp`, and so is a claim that takes a lapsed row over; by the second
point `Finish` ends the work only with the current selection.

`DiskIsRecorded` has the hypotheses `Stalls = FALSE` and `PruneFails = FALSE` and speaks of
behaviours up to the first drop; crashes and failed writes may happen anywhere. Its
invariant `DiskInv` says that a worker in phase 2 owns the row with a valid lease
(`Holding`), and that the files are what it has listed as far as it has come (`Written`).
Then at most one worker writes (`OneWriter`), the row is dirty while it does, and an
abandoned half-written directory stays dirty until a later consolidation rewrites it.

`LiveIndexProofs`: `IndexTypeCorrect`, `NoChangeLost`, `EdgesSound`,
`LocalCallsFound`, `ElementsAreFound`, `HitsHaveSource` and `CountStaysRight`. The invariant `IInv` is a conjunction of

- `TaskInv`: what each stage of the tasks has produced;
- `FreshInv`: a stale file is blind, still to be read, or announced; the part
  that carries it is that a removal in a batch is answered by a later change event
  whenever the file exists again, so that applying removals first is right;
- `EdgeInv`: edges are true of the indexed contents, and local calls resolve
  locally. Removing a file removes the edges at both ends, so nodes that are
  replaced never inherit old edges.

`DocsInv`, for `ElementsAreFound`, says that the documents are those of the graph and
that all postings of a document are there; a removal takes the ids of a file away
before the file's new text is added, so it never takes postings that stay.
`SearchInv`, for the last two theorems, bounds what shared ids leave behind: a posting
that is of no document has an id in `twins` (`PostsInv`), and `num_docs` is at least
the number of documents, and equal to it while `twins` is empty (`NumInv`). A removal
takes as many from the count as documents from the index (`RemoveCount`), an addition
adds at least as many (`AddCount`).

`ReadinessFlagProofs`: `NoLateSubscription` and `FlagRefinesLatch`. The invariant is
that while the flag is not ready every granted token is in the set and nobody was
told to have opened it, that no marker or waiter is past the point where the flag
is set before it is, and that a ready flag has no tokens. Each step is then shown
to be one step of the latch or none.

`TurnTasksProofs`: `IdleSessionRunsNothing` and `SteeredInputIsKept`. The invariant is that whoever
takes a turn out of `active_turn`, the loop or its own task, is the only one: a
task at work and not aborted is the active one or held by the loop
(`RunningHeld`), and the loop never meets a cancelled turn again (`CancelShape`).

`AgentGuardsProofs`: `CountCoversAgents`, `GuardsRefinePool`, `NicknamesDistinct`. The first needs
cardinalities of the registered threads and of the actors that owe a slot, step by step;
with it no decrement underflows, which is the step simulation of `SlotPool`. For the
nicknames, before a reset every name of an agent of this session, made or in the
making, is in `used`, so a new one differs from all of them.

`ExecProcessesProofs`: `OneEndPerCommand`, `NoProcessIsLost` and `StoreIsBounded`. The invariant ties the position
of a call to its process, its watcher and its events: a watcher exists only for a
call that stored its process and has sent nothing, an event implies a dead process,
and an entry of the store belongs to a call that stored it under that id. For
reachability, two calls that use one id have a stale one among them (`Shared`): an id
leaves `reserved` only in a step that marks those who still use it. The bound
needs that pruning never comes up empty: `last_used` orders the opened processes, so
every set of them has an oldest member, and since fewer processes are protected than
the store holds, a full store has an entry outside the protected ones.

`RolloutProofs`: `RolloutIsJournal` and `AckedStaysDurable`. The invariant orders everything an item passes through:
the lines on disk lie before what is pending, and both pending and buffered items
before the queue; an open file has an empty buffer, and while the file is not open
nothing is on disk. So each written line is larger than all lines before it.
Durability adds `CallInv`: a caller waits for room or has one command in the channel, and everything
behind it, or behind the persist that is being answered, was recorded after the call.
So when a call is answered, what it covers is on its way no more. `LossInv` counts:
the items that were acknowledged or belong to the running writer and are neither on
disk nor on their way (`Missing`), plus one if the last line is torn now (`Owed`), are
at most the torn lines so far, whether or not the tail is cut. A torn tail thus pays in advance for the item that
will be appended to it.

Only model-checked: the liveness properties (`DirtyIsConsolidated`,
`PendingIsExtracted`, `ChangesAreIndexed`, `ListenersWake`, `TurnsEnd`, `InputsAreHandled`,
`EndsAreAnnounced`, `CallsReturn`), since fairness is outside the prover's reach, and the
findings, which are counterexamples. Every invariant, action property and refinement
that a passing run checks is also a theorem.

## Not modelled

Sampling of the model and contents of memories; scores and ranking; parsing;
symbolic links and ignore rules (the watcher also indexes ignored files);
overflow of the notification queue; deletion of threads; the bytes of a process's
output; the mirror of the rollout in the state database. The components that
`PROJECT.json` marks `not_modelled` give the reason each: most are front ends,
protocol adapters, configuration and text algorithms, which make up most of the
lines of the repository and keep no state that several actors share.

## Plan

Done: the memory pipeline, the session index, the readiness flag, the turns, the
sub-agents, unified exec and the rollout recorder, with the refinements of
`Latch`, `SlotPool`, `Journal` and `Consolidation`, and a theorem for each of their
safety properties.

Left, in this order:

1. `ToolApprovals`: the approval cache, the sandbox retry and network approvals
   that share one prompt.
2. `StateRuntime`: the backfill lease and the deletion of threads against the
   memory outputs.
3. Forwarding of approvals by the sub-agent delegate, on top of `TurnTasks`.
