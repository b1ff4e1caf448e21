# LunarWing: a TLA+ model of its control

LunarWing is an agent daemon in Rust. Channels deliver messages; the agent answers
them by alternating between an LLM and tools, asks the user before it runs certain
tools, runs jobs in the background and in containers, and fires routines on time or on
events. This directory models the control of that core, checks it with TLC on small
instances and proves parts of it with TLAPS for all instances.

Paths below are relative to `src/`; `engine/` abbreviates `ic/crates/lunarwing_engine/`.

## 1. Inventory

### Components with state worth modelling

| Component | State | Operations | Hard because |
|---|---|---|---|
| Agent loop and chat threads (`ic/src/agent/{agent_loop,thread_ops,dispatcher,session}.rs`) | thread state, pending approval, message queue, session and undo locks, timers | handle message, drain, approve, interrupt, undo, clear, compact, soft timeout, hard kill | handlers overlap after the soft timeout and are aborted at any await |
| Job scheduler (`ic/src/agent/{scheduler,self_repair,job_monitor}.rs`, `ic/src/context/`, `ic/src/worker/job.rs`) | job map, job states, channels, spawned status writes | dispatch, schedule, stop, clean up, repair, help | parallel limit, late workers, a lock held over sends |
| Container orchestrator (`ic/src/orchestrator/`, `ic/src/tools/builtin/job.rs`) | handles, tokens, contexts, containers | create, complete, stop, watch, reap, restart | five parties end the same job; Docker calls fail half-way |
| Routines (`ic/src/agent/routine_engine.rs`) | routine rows, run rows, running counter, cached cooldowns | cron tick, event, webhook, retry, sync, sweep | limits are checked before the counter moves; crash between writes |
| LLM provider chain (`ic/src/llm/{timeout,circuit_breaker,failover,retry}.rs`) | breaker, cooldowns | check, call, record, time out | concurrent calls record late or never |
| Thread lifecycle (`engine/src/types/thread.rs`) | state, step and token counters, metadata | `transition_to`, recovery | several writers of one stored record |
| Execution loop (`engine/orchestrator/default.py`, `engine/src/executor/{loop_engine,orchestrator}.rs`) | position in the loop, nudge and error counters, checkpoint | run, host functions, persist, fail | limits over several runs, writes that fail half-way, crash |
| Thread manager (`engine/src/runtime/{manager,messaging}.rs`) | `running`, `completed`, one channel per run | spawn, resume, stop, inject, join, tag | tasks finish before they are registered; sends hold locks |
| Conversation manager (`engine/src/runtime/conversation.rs`) | conversations, per-channel index, active thread | handle message, record outcome | check-then-act on the manager |
| Pending gate store (`ic/src/gate/{store,pending,persistence}.rs`) | two indices, a JSON file | insert, take_verified, discard, expire, restore | file written after the lock is released; crash |
| Engine router (`ic/src/bridge/router.rs`) | the above, plus handlers under way | await outcome, resolve gate, OAuth callback, orphan detection, recovery | all of them interleave; three recovery rules |
| Missions, leases, thread tree (`engine/src/{runtime,capability}`) | missions, leases, children | fire, tick, grant, consume | check-then-act, daily budgets |
| Session manager, cost guard, rate limiter, pairing, response cache | per-file | various | windows, expiry, limits |

The other components (channels, tool hosts, database, workspace, configuration,
command line, plugins, vendored code) are I/O, text processing or wiring; all are
listed with a reason in `PROJECT.json`.

### How they interact

There are two generations of the core. The one the agent runs is the first:
`Agent::run` (`agent_loop.rs`) reads a message, spawns `handle_message`, waits for a
soft timeout, goes on to the next message and leaves a timer that aborts the handler
at a hard timeout and resets its thread. `handle_message` works on the thread of a
session in the same process, with the session locked from step to step, and calls the
LLM through the provider chain.

The second, the engine, has threads of its own that run as tasks, a manager, gates that
survive a restart, and a router (`handle_with_engine`) that would take the place of
`handle_message`. Its entry points `handle_with_engine`, `init_engine` and
`is_engine_v2_enabled` are called from nothing outside `ic/src/bridge` at this commit:
it is built, tested and ready to be switched on. `ThreadManager` and `GateRouter` model
it as the router's code uses it.

Tools of either generation create jobs. A job is either given to the scheduler, which
runs it in a worker task, or to the container orchestrator; both kinds have a context
in `ContextManager`, whose states bound the number of parallel jobs. The repair loop
moves stuck contexts, the reaper reads contexts to decide which containers are orphans,
and routines dispatch jobs and watch their contexts.

### What makes each one correct

* Chat: an approved tool runs once and a refused one never; no thread stays in
  `Processing`; the main loop keeps reading; the queue is bounded.
* Jobs: a job takes a slot once and gives it back once, never more than the limit; the
  database ends with the outcome or, where a write failed, without one; capacity comes
  back; a stop returns.
* Containers: the reaper leaves active jobs alone; a reported result is not lost;
  containers and tokens do not outlive their job.
* Routines: the running counter counts runs; a recorded run ends; a due routine is fired;
  recovery stays away from runs of this process.
* A thread's limits hold over all its runs; a run ends; its reported outcome agrees
  with the stored state; terminal states are final.
* At most one run of a thread executes; a run that was started ends.
* A gate is resolved once, and its action is run once; a gate that can be answered
  belongs to a waiting thread.
* One LLM call costs a bounded number of requests; the breaker neither lets calls
  through after too many failures nor shuts for ever; the chain recovers.

## 2. Modules

| Module | Models | Relation to others |
|---|---|---|
| `ChatAgent` | main loop, handlers and one chat thread | |
| `JobSlots` | abstract: slots taken once, given back once, never more than the limit | |
| `JobScheduler` | contexts, scheduler, workers, repair, cancellation | implements `JobSlots` |
| `ContainerJobs` | job manager, watcher, reports, callers, reaper | shares the job contexts of `JobScheduler`, restated |
| `RoutineEngine` | triggers, runs, retries, recovery | jobs reduced to active, ended, lost |
| `ProviderChain` | timeout ∘ breaker ∘ failover ∘ retry | |
| `ThreadTypes` | states, legal transitions, recovery of one engine thread | extended by the three below |
| `ExecutionLoop` | one engine thread over all its runs | |
| `ThreadManager` | manager and handlers around one thread | |
| `PendingGateStore` | store and file backend | |
| `GateRouter` | gates, threads, handlers, restart | composes `PendingGateStore` |
| `GateProofs` | TLAPS proofs about `PendingGateStore` and `GateRouter` | extends `GateRouter` |
| other `*Proofs` | TLAPS proofs about the module of that name | |
| `MC*` | instances, and the property that a run refutes | |

**ChatAgent.** `state`, `pending` and `queued` are the thread record; `pc` says at which
await each handler is; `held` is the approval a handler has taken out of the thread.
`SessionFree` and the undo manager's lock are read off `pc`: a handler that waits for
the LLM in compaction, or sits between two locks, holds what the code holds there.
Undo takes the undo manager and then the session, a checkpoint takes them the other
way round; the model has that deadlock, and the hard kill that ends it. Each action is
one segment between two awaits, so `process_approval`'s take, compare, put back and
set state are separate. What the LLM, tools and validation answer is a choice. Auth
mode is projected away: a token message touches nothing modelled.

**JobSlots** and **JobScheduler.** `state` holds the contexts of both kinds of job;
`worker`, `inbox` and `cleaner` are the tasks the scheduler spawns for a job, `stop` is
the call that holds the map's write lock over its awaits, `writes` are the status
updates spawned and not yet executed. An update may fail: `persist_status` logs the
error and drops it, so the row keeps what it had; `lost` remembers the jobs this
happened to. `Slots` maps a context to `held` while its state is parallel-blocking and
to `released` afterwards. The repair loop lists, then looks, then acts, as the code
does.

**ContainerJobs.** A job is started by the tool that waits for it, by the tool that
leaves a monitor, or by the web restart, which makes no context. `handle`, `token` and
`docker` are what the job manager, the token store and Docker know; a Docker call may
do all, half or nothing. `scan` and `doomed` are what the reaper has listed and decided,
before it removes. A crash leaves the containers and nothing else.

**RoutineEngine.** `row`, `record` and `job` are database rows and survive a crash;
`task`, `running`, `waiting` do not. `cache` is the event cache's copy of the cooldown.
Times appear as the answers the code asks of them (due, cooling, older than the
timeout), which may change at any moment. A call of `fire_manual` or `fire_webhook` looks
the routine up, checks it and creates its run in steps of its own (`caller`). A run whose
action panics vanishes with `running` still raised; `leaked` counts these. What becomes
of the job of a run that is recorded as finished is not followed.

**ProviderChain.** One record per caller. The breaker is under a mutex (one step per
operation), a cooldown is two relaxed atomics (one step per store). Instants are ages
that stop at the duration they are compared with. `calls` counts the requests of a call
to each backend. `healthy` stands for the backends: while it is false they may fail in
every way or hang; while it is true they answer.

**ExecutionLoop.** `pc` is the position in `ExecutionLoop::run` and `run_loop`;
`thread` is the task's copy, `saved` the stored one. One action per branch of an
iteration. LLM answers, tool results, the time budget and store errors are
nondeterministic. A call uses 0 or 1 token; `cost` stays what the code leaves it.

**ThreadManager.** Steps are cut at the awaits of `manager.rs` and of the handlers.
Handlers overlap, as they do after the agent's soft timeout, and each may be aborted at
any await (`Abort`, the hard timeout). A run is a number; `running` and `completed` hold
the number that is registered. `Readers` is the read guard `stop_thread` and
`inject_message` keep while they wait for room in a channel; `WriteLockFree` is what
registering, joining and a task that ends need. `used.twice` remembers that one outcome
was recorded by two handlers.

**PendingGateStore.** `byKey` and `byRequestId` are the two maps of `StoreInner`. An
operation is one step for the part under the mutex, and adds an element to `io` for
the file part, which happens later, in any order, fails (possibly after the
truncation in `write_state`), or is lost in a crash. A gate is its request id; its key
and channel are constants of it.

**GateRouter.** Extends `PendingGateStore`; its actions are conjunctions of a step of
the store and what the router does around it. One answer (`resolver`), one OAuth or
auth-endpoint callback (`callback`), one orphan check (`orphan`) and one awaiting
handler per thread (`watcher`) interleave in any order, because messages overlap after
the soft timeout; an answer and an awaiting handler may be aborted. `ghost.stale`
remembers that a resume or an orphan check saved a thread after something else had used
it since it was loaded. `owned` says which threads are in the project `init_engine`
recovers; both cases are initial states. `info` is the part of a gate the router looks
at: its kind, and whether it carries the output of an action that has run.

## 3. Runs

| Run | Instance | States | Shows, besides the type invariant |
|---|---|---|---|
| `chat_agent` | 2 handlers, queue of 1, 1 approval | 211 834 | `RunsOnce`, `RefusedNeverRuns`, `QueueBounded`, `ProcessingEnds`, `LoopReturns` |
| `job_scheduler` | 1 scheduled and 1 container job, 1 slot, 1 recovery | 518 428 | `SlotsRefined`, `StoredAgrees`, `CapacityReturns`, `StopReturns` |
| `container_jobs` | 1 job of any kind, 1 crash | 75 086 | `ReapsOnlyInactive`, `ResultKept`, `InactiveGoes` |
| `routine_engine` | 1 routine of four kinds, 2 runs at a time, 1 call, 1 panic, 1 crash | 147 315 | `CounterExact`, `SyncNeverRaces`, `RunsEnd`, `DueFires` |
| `provider_chain` | 2 callers, 2 backends, 1 retry, thresholds 2 | 449 024 | `CallsBounded`, `BreakerConsistent`, `Recovers` |
| `execution_loop` | 3 iterations, 1 nudge of each kind, 2 errors, 2 tokens, 2 signals | 108 220 | `IterationsBounded`, `OutcomeMatchesState`, `TerminalStays`, `RunEnds` |
| `thread_manager` | 2 handlers, 3 runs, room for 1 signal, 2 signals | 916 631 | `OneExecution` |
| `thread_manager_finish` | 2 handlers, 2 runs, room for 1 signal, 2 signals | 30 185 | `RunsFinish` (no type invariant) |
| `pending_gate_store` | 2 keys, 3 gates (2 on a key), trusted and untrusted channel | 34 440 | `IndexInv`, `ResolvedOnce` |
| `gate_router` | 1 thread, 2 gates, 1 file error | 1 082 785 (symmetry) | `ActionRunsOnce`, `GateHasWaitingThread` |
| `restarted_survives` | 1 job of any kind, 1 crash | violation | see below |
| `routine_panic` | as `routine_engine` | violation | see below |

**Why the bounds are enough.** Two handlers are what overlaps after one soft timeout.
One request suffices for "once" and "never" (`ran` is about a request taken twice), but
with one a put-back never meets a newer request (`NextApproval` is not enabled in the
run): for that `ToolsRunOnce` and `RefusedToolsNeverRun` are proved for every number of
requests, and a larger instance with two was checked for safety, about 978 000 states.
The run keeps one so that liveness fits. A queue of one is full after one message and
exceeded by every requeue. One slot for two jobs makes each of them wait for the other;
one recovery reaches the attempt limit. With one worker to a job, a cleanup task never
meets the entry of a later worker of the same job; `SlotsAreKept` and `DatabaseAgrees`
cover any number of workers, `CapacityReturns` and `StopReturns` do not. One container
is enough because nothing in the job manager relates two. Two run identifiers for one
routine with a limit of one let a trigger meet a run that exists, one that is abandoned,
and one that ends meanwhile; a limit of two for all routines lets one leaked place block
one run and not both. Two gates give a thread a gate and a successor, raised by the
first one's action or met by the run that goes on; a second insertion under the same key
is refused. Three runs let a late task of the first meet the registration of the third.
A channel with room for one signal and two signals make a sender wait with its read
guard, and with two handlers a joiner waits for the same lock, as does the task that
owns the channel. Three iterations with limits of one and two let every counter reach
and be refused at its limit and leave one iteration more. Two callers are enough for a
result that is recorded after the other caller changed the breaker or a cooldown, two
backends for failover within a call; thresholds of two separate "first failure" from
"threshold reached". The bounds on signals, runs, crashes, recoveries, waiting retries,
panics and file errors are named constants in the guards.

**Deadlock** is not checked where a model stops by design: `ThreadManager` ends when
its runs are used up, `GateRouter` when its gates are, `JobScheduler` and
`ContainerJobs` when every job has ended. It is checked everywhere else; in `ChatAgent`
it would show a main loop and handlers that block each other for good.

**Symmetry** in `gate_router` permutes gates of one thread and one channel, which
differ in nothing; no liveness is checked there.

**Fairness.**
* `ChatAgent`: strong fairness of a handler's steps and of the reset after a hard kill,
  because tokio's mutexes are handed over in order of arrival and LLM calls and tools
  have timeouts; weak fairness of the timers and of the main loop's own steps. None on
  messages, panics or shutdown.
* `JobScheduler`: weak fairness of worker, timeout, cleanup task, dispatch and of a
  stop. None on messages, cancellation, repair or help.
* `ContainerJobs`: weak fairness of every task of the agent, of the clock, and of the
  exit watcher once the container no longer runs; strong fairness of a removal that
  succeeds, because the reaper tries again at every interval and Docker does not fail
  for ever. None on the container's process, which may hang.
* `RoutineEngine`: weak fairness of tasks, ticker, clock, sweep and sync; strong
  fairness of the two database writes that succeed, which are tried at every firing.
  None on triggers from outside, panics or crashes. `DueFires` excepts a process in which
  panics have used up every place.
* `ExecutionLoop`: weak fairness of the task. tokio runs it, an LLM call has a
  timeout, the VM a duration limit. None on signals, resumes, crashes or restarts.
* `ThreadManager`: weak fairness of every task, every handler step and the hard-timeout
  timer of every handler (`Abort`); strong fairness of `TaskEnds`, because a run ends
  whatever signals it reads, which is what `RunEnds` shows of `ExecutionLoop`. None on
  messages. Without the timer `RunsFinish` fails: a sender holds the read guard until the
  task reads, and the task has read its last signal and waits to write.
* `ProviderChain`: weak fairness of a call's own steps (requests have timeouts), of
  time, and of asking: users, heartbeat and routines go on making calls. None on the
  backends, which may stay broken for ever; `Recovers` is conditional on their health.

### Runs that find a disagreement

`restarted_survives` checks one sentence of the code: the reaper "cleans up those whose
corresponding jobs are not active" (`ic/src/orchestrator/reaper.rs`). A job restarted
from the web (`ic/src/channels/web/handlers/jobs.rs`) gets a container, a handle and a
database row but no context, so the reaper takes the container for an orphan and
removes it while it runs.

`routine_panic` checks the comment "Increment running count (atomic: survives panics in
the execution below)" (`routine_engine.rs:1182`). An atomic survives a panic, the count
does not: the decrement at line 1234 is plain code after the execution and no guard runs
it. Each panic takes one of the places of `max_concurrent_routines` until the process
restarts; when all are taken no routine fires (`DueFires` excepts this). `CounterExact`
says what the code does keep: the counter is the number of runs under way plus the
panicked ones.

### Further disagreements seen while modelling

They follow from reading one or two places, or were found by TLC on these models with a
property that has no run of its own.

Chat threads:
* A suppressed reply makes `handle_message` return `Ok(None)`, which the main loop takes
  for a shutdown command (`agent_loop.rs:1631`, `agent_loop.rs:1129`).
* Drained messages whose turn needs an approval, or that meet a thread in `Processing`,
  go back to the queue and are processed again; content that validation rejects is
  requeued for ever; the queue is not drained after an approval or an error. The
  overshoot is one per handler, not 1 as `session.rs:323` says (`QueueBounded`).
* A hard kill resets whichever turn is `Processing`, also a newer one; after interrupt
  and a new message the old run completes the new turn.
* Putting an approval back after a mismatch can bring an interrupted one back into the
  thread, or overwrite a newer one: the tool of a request that the user interrupted
  between the two then runs when it is approved later. `RefusedNeverRuns` counts as
  refused what lay in the thread at the interrupt, not what a handler held. An abort
  between taking it and setting the state leaves `AwaitingApproval` without a request.
* Checkpoint and undo lock session and undo manager in opposite orders; only the hard
  kill ends it. The snapshot at the soft timeout blocks the main loop while a
  compaction holds the session during its LLM call.

Jobs:
* "recovered and will be retried" (`self_repair.rs:229`): nothing schedules it; the job
  keeps its slot until its attempts are used up.
* Help and repair together start two workers for one job. A worker that reads `Stop`
  returns normally and may mark the job completed. Of several messages waiting only the
  first reaches the loop. A dispatch that fails after the context was made leaves it
  `Pending`. Cancelling a completed job overwrites its database row.
* A failed `update_job_status` is logged and dropped (`worker/job.rs:114`), so the row of a
  job that ended may say `Pending` for ever.

Containers:
* "If the container exits without calling /complete" the watcher completes the job
  (`job_manager.rs`): not when waiting for it fails, and not when a worker reports
  before `create_job` has stored `Running` over that report.
* A monitor that lagged fails a completed job at its deadline, and leaves the row
  running when it times out; the polling loop takes a job cancelled from the web for a
  success; `cleanup_job` between the two halves of `complete_job` leaves a container
  that the reaper skips; handles of watched jobs are never removed.

Routines:
* The watcher "keeps the routine run active for the full job lifetime so concurrency
  guardrails apply": not after its ceiling of 30 minutes, and not when linking fails.
* A retry sets the next firing and spawns a deferred retry, so the routine is fired
  twice. An event routine may fire in its cooldown because the cache is refreshed later.
* A linked run whose last write failed stays running until a restart, one whose job was
  lost stays running for ever (`Abandoned` in the module), and counts against its limit.

LLM chain:
* "BUG: record_success() called while circuit breaker is Open" (`circuit_breaker.rs:172`):
  a call admitted before the circuit opened succeeds afterwards; a debug build panics.
* `failover.rs:54` calls stale reads harmless; `reset` racing with `activate_cooldown`
  leaves a backend that just answered in cooldown with a count of zero. It ends with
  the cooldown (`Recovers`).
* A call dropped by the turn budget is recorded nowhere: a backend that only hangs
  never opens the breaker. In half-open any number of calls pass, not "a probe call"
  (`circuit_breaker.rs:83`).

Engine:
* A message is injected into the active foreground thread (`conversation.rs:117`): a
  join after five minutes removes the entry of a thread that runs, and the message
  spawns a second one.
* A run is registered after its task was spawned: a task that ends first leaves an entry
  nobody removes, its outcome is delivered from there once more, and an outcome that is
  delivered twice stores its gate twice, so that two answers start two runs that execute
  at the same time (25 steps from the initial state). `OneExecution` excepts this.
* "The entry of the thread" in `running` is whatever was registered last: with overlapping
  handlers a finishing task removes the entry of its successor, which then runs
  unregistered and can be neither stopped nor joined.
* `inject_message` sends on a bounded channel with the read guard of `running` held
  (`manager.rs:372`): when the channel is full and its task is past its last read, the
  task waits for the write lock, every other user of the map behind it, and the sender
  for the task, until the sender's hard timeout drops it.
* "persisting pending gates across restarts" (`gate/store.rs:59`): recovery fails the
  waiting threads of the owner's project, then discards their gates. Gates that are
  restored have no lease, so their action fails.
* "Stop the thread entirely" (`router.rs:1509`): a thread at a gate is not running, so
  `stop_thread` finds nothing and it stays `Waiting`.
* The output is injected "instead of re-running the action" (`messaging.rs:42`):
  `run_loop` drops it and the action runs again.
* `__save_checkpoint__` is documented as "persist thread state"
  (`engine/src/executor/orchestrator.rs:15`) but writes the task's copy only
  (`orchestrator.rs:1530`), and the run clears it before its final save
  (`loop_engine.rs:299`). The invariant of `ExecutionLoopProofs` states it: no
  checkpoint is ever in the store.
* `max_tool_intent_nudges` is "per thread" (`thread.rs:123`); the counter starts again
  with every run (`default.py:460`). `max_budget_usd` limits a cost that nothing adds
  to (`thread.rs:160`); tokens of LLM calls made by code are not counted
  (`orchestrator.rs:628`).
* `Suspend` is "can be resumed later" (`messaging.rs:11`); the loop treats it as stop
  and nothing sends it. A message accepted after a run's last read is dropped with it
  (`default.py:481`).
* `join_thread` "removes the thread from the running set" (`manager.rs:439`), but not
  when it finds the outcome in `completed`; `set_thread_metadata` "for tagging"
  (`manager.rs:417`) writes back the whole record it loaded and can undo a transition.
* `take_verified` is "the only way to retrieve" a gate (`gate/store.rs:77`); the OAuth
  callback lists one and discards by key what may be another, resumes the thread, and
  nobody awaits it, so its next gate is not stored.
* `is_terminal` means no further transition (`thread.rs:88`); orphan detection saves a
  thread as failed that it loaded earlier (`router.rs:633`), and a resume one as running.
  A save of this kind may leave a gate that can be answered with a thread that does not
  wait (7 steps from the initial state); `GateHasWaitingThread` excepts it.
* Leases: a use is not given back when an approval is required, an action resolved
  through a gate consumes none. None of it shows while leases are unlimited.
* Missions: `next_fire_at` is set by tests only, so cron missions never fire;
  `threads_today` is never reset; a paused mission can be fired; the record is saved
  back whole and loses a concurrent pause (`mission.rs:284`).

Others:
* Cost guard: only `record_llm_call` clears `budget_exceeded` on a new day, and
  `check_allowed` refuses while it is set (`cost_guard.rs:131`).
* Session manager: `resolve_thread` creates and maps a thread under separate locks, so
  two first messages make two threads.

## 4. Proofs

All are of the form `Spec => []P` (or an action property) for every value of the
constants that satisfies the module's `ASSUME`.

**ChatAgentProofs** (`BoundAssumption`: natural numbers). `ToolsRunOnce` and
`RefusedToolsNeverRun` share an invariant of three parts. `OnePlace`: a request is in
the thread or in one handler's hands, never in two places. `Fresh`: requests not yet
issued are nowhere. `Undecided`: what is in the thread has not run, a handler about to
decide holds a request that has neither run nor been refused, and a refused request left
in the thread lies there in a state in which no answer reaches it. The last part is
needed because the code leaves the request in the thread when the user interrupts,
undoes or clears. Three lemmas cover what a step may do to requests (nothing, ask,
refuse) and each action is shown to be one of them. `QueueIsBounded` needs that a
handler that requeues holds drained content, so that an entry put back replaces a
handler in the account.

**GateProofs** (`GateAssumption`: `KeyOf`, `ChannelOf` are functions, `None` is none of
the values; `RouterAssumption`: `FileErrors` is a natural number)
is about `PendingGateStore` and about `GateRouter`, which uses it.

* The store alone. `TypeCorrect` needs that everything stored, on file or in a pending
  file operation was created. `IndexConsistent` and `ResolvedAtMostOnce` use one
  invariant: indices inverse, a key holds only gates of that key, what was taken is not
  pending, and a dead process has handed out nothing (a restart may bring back a gate
  whose removal never reached the file, which is why the property is about one process
  lifetime). The lemma `DropIInv` covers the operations that remove gates.
* The store under the router. Every step of the router but the restart is a step of the
  store or leaves it alone (`StoreStep`), and the restart, which also reconciles gates
  with threads, keeps the store's invariant (`RestartIInv`). Hence `RouterTypeCorrect`
  and `RouterKeepsStore`.
* `ActionsRunOnce`. A gate may come back from the file after its action was run, so "a
  taken gate is gone" does not carry over a crash. The invariant says that a gate whose
  action was run is neither stored nor in an answer's hands *or its thread has no lease*
  (`Spent`); leases go to new threads only, a thread that has met a gate is not new
  (`Begun`), and a dead process has none (`Dead`).
* `GatesHaveWaitingThreads`, with overlapping and aborted handlers. The property excepts
  saves on an outdated reading, and so does the invariant (`WaitInv`): as long as there was
  none, a run under way belongs to a stored `Running` thread and a paused one to a
  `Waiting` thread (`TasksAgree`), the thread of an answer that has taken its gate waits
  (`AnswersWait`), and so does that of every gate that can be answered (`GatesWait`).
  Only a resume and an orphan check write a thread they loaded in an earlier step; the
  lemma `WaitSavingSteps` splits on whether it is still what they loaded. The restart
  reconciles gates with threads, so it keeps the invariant without looking back.

**ExecutionLoopProofs** (`LoopAssumption`: limits are natural numbers). `CallsBounded`
is not inductive: a run starts from the stored step count, so the invariant says that
every resumable stored state carries the exact number of calls made (`CallsInv`). That
needs where the control is and which state goes with it (`ControlInv`), in particular
that a thread is stored as `Running` throughout a run, so that recovery after a crash
fails it rather than resumes it from an old count, and that no checkpoint is ever
stored. `OutcomesAgree` adds which state goes with a result before `Completed` becomes
`Done`; `TerminalIsFinal` is an action property from the same invariant.

**ProviderChainProofs** (`ChainAssumption`: natural numbers, at least one backend).
`BreakerIsConsistent` rests on one lemma per breaker operation (`CheckSound`,
`SuccessSound`, `FailureSound`), each for an arbitrary sound breaker, so the order in
which calls record does not matter. `CallsAreBounded` is about each
backend and needs an account per call (`CallOK`): the requests made to the backend in
use are the attempts counted there, and the backends still to try come after it and have
not been asked in this call; `TryFromOK` moves on to the next backend, `AgainOK` counts
one more attempt.

**JobSchedulerProofs** (`JobAssumption`: the sets of jobs are finite and disjoint, the
limits natural numbers, a channel has room and a job may have a worker).
* `TypeCorrect` includes that no channel holds more than its capacity.
* `SlotsAreKept` is the refinement of `JobSlots`: the initial states map to its initial
  state, and each action is a step of it or a stutter. One lemma about a single job that
  moves (`SlotStep`) leaves for each action to show that it takes a slot only from nothing
  and only while one is free, and that states without a slot lead only to such states; the
  transition table of `JobState` gives the rest. `LimitKept` is the limit itself.
* `DatabaseAgrees`: the row ends with the outcome, or says `Pending` if an update failed;
  never another outcome. The updates are spawned and reach the database in any order, so
  that the last one is the outcome holds only because there is never another one waiting.
  The invariant says which updates can wait (`Outcome`), and for that how many workers a
  job has had and how far its creation is (`Started`); it is about jobs that nobody
  cancelled or recovered, since with either the code does lose the agreement.

**ThreadManagerProofs** (`ManagerAssumption`: natural numbers, at least one run, a channel
has room). `TypeCorrect` and `OneRunAtATime` are for any handlers, overlapping and aborted
at any await. The invariant for the second follows a token: as long as no outcome was
recorded twice, the right to start a run lies in one place, with a started run whose
outcome is not yet recorded, in the gate its outcome opened, or with the one handler that
has taken the gate; before the first run it lies nowhere and only `Spawn` makes it
(`OneToken`). `OutcomesOK` adds that runs start in order and an outcome exists only of a
run that has written its thread for the last time. An abort may lose the token, no step
but a second recording doubles it (`RecordOutcome`).

**RoutineEngineProofs** (`RoutineAssumption`: finitely many run identifiers, known kinds
of routine, natural limits). `CounterIsExact` compares the counter with the cardinality
of the set of executing runs plus the panics of this process, so every path out of
`execute_routine` is shown to remove one element exactly when it subtracts one, and a
panic (`CounterLeaks`) to remove one and subtract nothing; type correctness (the counter
never goes below zero) rests on it. `SyncKeepsAway`, an action property, needs that an
orphaned run has no task (`OrphansLeft`).

**ContainerJobsProofs** (`CrashAssumption`: a natural number). `ReaperSparesActive` is
about a decision taken on an old reading: the invariant says that a condemned container
has no active job and that only a job never started becomes active (`Condemned`, `Born`).
`ResultsAreKept` needs that a result is there only once a report is (`Reported`), so that
the guards against a second report apply. Most actions are shown to be `Ordinary` steps,
which keep the invariant by one lemma.

**Only model-checked:** liveness (`ProcessingEnds`, `LoopReturns`, `CapacityReturns`,
`StopReturns`, `InactiveGoes`, `RunsEnd`, `DueFires`, `RunEnds`, `RunsFinish`, `Recovers`),
which this prover cannot do. Every invariant and every action property that a passing run
checks is also proved.

## 5. Not modelled

* Chat: turns and their text, undo stacks, hooks, hydration and persistence, auth mode,
  the session manager's index. An abort is taken to land at an await: a task that is
  being polled on another worker could still finish the segment it is in, and set
  `Processing` after the timer has reset the thread, so `ProcessingEnds` is shown up to
  this window.
* Jobs: tool subtasks, `stop_all` at shutdown, the data of a context, broken-tool repair.
* Containers: database rows, `Stuck` contexts moved by the repair loop, job output.
* Routines: matching of messages to patterns, edits of a routine while it runs,
  notifications; a panic of a run's task before and after the counted part, which leaves
  what a failed write there leaves. Listing and writing of one sweep are one step. The
  identifier of a finished run is used again.
* Engine: the inside of a step (which tools run, in the VM or in parallel), compaction,
  retrieval, versions of the orchestrator script; child threads, background resumption,
  `cleanup_finished` (never called); conversation entries and their index; "always
  allow" persistence; v1 dual writes; HTTP views and event streams.
* LLM chain: the response cache and the smart router, which tool calls bypass; the name
  of the backend a task last used; backoff delays. The loads of one selection are one
  step: a cooldown cleared between two of them only changes which cooling backend
  counts as oldest.
* Most of the repository by size is protocol clients, WASM hosts, SQL, HTTP views, set-up
  dialogues and plugins, where each operation is one effect on an external system and
  no state is shared that the properties here could be about. `PROJECT.json` lists
  every such part as `not_modelled` with its reason.

## 6. Plan

Proofs that are left: an abstract gate (asked, answered or dropped, run at most once)
implemented by `GateRouter`, and an abstract registry (at most one run, signals reach it)
implemented by `ThreadManager`, each with its refinement proved as for `JobSlots`.

Modelling that is left: missions and the cost guard (their hazards are listed without a
property), the session manager, child threads, leases with limits, pairing store, rate
limiter, response cache.

## 7. Running

    tlc -workers 2 -config MCChatAgent.cfg MCChatAgent
    tlapm ChatAgentProofs.tla

`PROJECT.json` lists runs, the definition-to-source map, mutants (definitions commented
"Mutant ..." in the modules, one per property, with which the property must fail),
findings, hazards and theorems.
