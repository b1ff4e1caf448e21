---------------------------- MODULE RoutineEngine ----------------------------
(***************************************************************************)
(* Routines (agent/routine_engine.rs): the triggers that fire them, the    *)
(* task of a run, deferred retries, and the recovery of runs that a dead   *)
(* process left behind.                                                    *)
(*                                                                         *)
(* Database rows survive a crash, tasks, the counter and pending retries   *)
(* do not.  A trigger reads and acts in separate steps, as the code does   *)
(* between its awaits.  Times are abstracted to the answers the code asks  *)
(* of them: whether a routine is due, whether it cools down, whether a run *)
(* is older than the timeout; the clock gives them at any moment.  Whether *)
(* a failure is retried, by kind of error and failures so far, is a choice *)
(* of the run.                                                             *)
(*                                                                         *)
(* The identifier of a finished run is used again, and what becomes of its *)
(* job is not followed.                                                    *)
(***************************************************************************)
EXTENDS Naturals, FiniteSets

CONSTANTS
  Routines,       \* enabled routines
  Kinds,          \* what a routine may be: [action, trigger]
  Ids,            \* identifiers of runs: as many runs are in progress at a time
  MaxConcurrent,  \* guardrails.max_concurrent of every routine
  MaxRoutines,    \* config.max_concurrent_routines
  Callers,        \* calls of fire_manual and fire_webhook under way at a time
  MaxWaiting,     \* bound: deferred retries waiting for one routine
  MaxLeaks,       \* bound: runs of one process that panic
  MaxCrashes      \* bound: crashes of the process

Actions == {"light", "job"}
Triggers == {"cron", "event", "webhook"}

ASSUME RoutineAssumption ==
  /\ IsFiniteSet(Ids)
  /\ Kinds \subseteq [action : Actions, trigger : Triggers]
  /\ MaxConcurrent \in Nat /\ MaxRoutines \in Nat
  /\ MaxWaiting \in Nat /\ MaxLeaks \in Nat /\ MaxCrashes \in Nat

VARIABLES
  kind,     \* each routine's action, a prompt ("light") or a full job ("job"), and
            \* its trigger
  row,      \* each routine's runtime columns: is it due, does it cool down
  cache,    \* event routines that cool down as far as the event cache knows
  record,   \* the rows of the runs
  job,      \* the rows of the jobs of the runs in progress; "lost" is a row that
            \* says active and whose process is gone
  task,     \* the tasks of the runs: where they are, and whether to try again
  running,  \* running_count
  leaked,   \* history: runs of this process that panicked while they were counted
  waiting,  \* deferred retries that sleep
  ticker,   \* due routines listed by the cron ticker and not yet looked at
  matched,  \* event routines whose batch count was below the limit
  caller,   \* calls that fire a routine by hand or webhook: how far they are
  crashes   \* crashes so far

rows == <<row, record, job>>
counter == <<running, leaked>>
triggers == <<ticker, matched, caller>>
vars == <<kind, rows, cache, task, counter, waiting, triggers, crashes>>

\* A stored run is "done" when its status is no longer Running.  One that is
\* Running is unlinked while it has no job_id, and then linked, or orphaned if it
\* started before this process did.
Linked == {"linked", "orphaned"}
Running == {"unlinked"} \cup Linked

Record(r, status) == [routine |-> r, status |-> status]
NoTask == [pc |-> "none", again |-> FALSE]
Call(pc, r) == [pc |-> pc, routine |-> r]

Init ==
  /\ kind \in [Routines -> Kinds]
  /\ row = [r \in Routines |-> [due |-> FALSE, cooling |-> FALSE]]
  /\ cache = [r \in Routines |-> FALSE]
  /\ \E r \in Routines : /\ record = [i \in Ids |-> Record(r, "done")]
                          /\ caller = [c \in Callers |-> Call("idle", r)]
  /\ job = [i \in Ids |-> "none"]
  /\ task = [i \in Ids |-> NoTask]
  /\ running = 0
  /\ leaked = 0
  /\ waiting = [r \in Routines |-> 0]
  /\ ticker = {}
  /\ matched = {}
  /\ crashes = 0

-----------------------------------------------------------------------------
(* Guards *)

Counted == {"executing", "dispatched", "watching"}
RunningRecords(r) == {i \in Ids : record[i].status \in Running /\ record[i].routine = r}

\* check_concurrent counts the stored runs
CheckConcurrent(r) == Cardinality(RunningRecords(r)) < MaxConcurrent
\* the global limit is compared with the counter
CheckGlobal == running < MaxRoutines
\* check_cooldown looks at the routine as it was read
CheckCooldown(cooling) == ~cooling

Free(i) == record[i].status = "done" /\ task[i].pc = "none"

-----------------------------------------------------------------------------
(* Triggers *)

Fire(r, status, pc) ==
  \E i \in Ids :
    /\ Free(i)
    /\ record' = [record EXCEPT ![i] = Record(r, status)]
    /\ task' = [task EXCEPT ![i] = [pc |-> pc, again |-> FALSE]]

\* spawn_fire: the task records the run itself
SpawnFire(r) == Fire(r, "done", "spawned")

\* fire_manual and fire_webhook, and a retry, record it before
RecordAndSpawn(r) == Fire(r, "unlinked", "recorded")

\* check_cron_triggers lists the due routines ...
TickerLists ==
  /\ ticker = {}
  /\ ticker' = {[routine |-> r, cooling |-> row[r].cooling] :
                  r \in {q \in Routines : kind[q].trigger = "cron" /\ row[q].due}}
  /\ ticker' # {}
  /\ UNCHANGED <<kind, rows, cache, task, counter, waiting, matched, caller, crashes>>

\* ... and takes one after the other, or none once the global limit is reached
TickerFires(t) ==
  /\ t \in ticker
  /\ \/ /\ ~CheckGlobal
        /\ ticker' = {}
        /\ UNCHANGED <<record, task>>
     \/ /\ CheckGlobal
        /\ ticker' = ticker \ {t}
        /\ \/ /\ CheckCooldown(t.cooling) /\ CheckConcurrent(t.routine)
              /\ SpawnFire(t.routine)
           \/ /\ ~CheckCooldown(t.cooling) \/ ~CheckConcurrent(t.routine)
              /\ UNCHANGED <<record, task>>
  /\ UNCHANGED <<kind, row, job, cache, counter, waiting, matched, caller, crashes>>

\* check_event_triggers and emit_system_event read the counts first ...
EventMatches(r) ==
  /\ kind[r].trigger = "event"
  /\ r \notin matched
  /\ CheckConcurrent(r)
  /\ matched' = matched \cup {r}
  /\ UNCHANGED <<kind, rows, cache, task, counter, waiting, ticker, caller, crashes>>

\* ... and fire the routine as the cache has it; a duplicate is skipped
EventFires(r) ==
  /\ r \in matched
  /\ matched' = matched \ {r}
  /\ \/ /\ CheckCooldown(cache[r]) /\ CheckGlobal
        /\ SpawnFire(r)
     \/ UNCHANGED <<record, task>>
  /\ UNCHANGED <<kind, row, job, cache, counter, waiting, ticker, caller, crashes>>

RefreshEventCache ==
  /\ cache' = [r \in Routines |-> kind[r].trigger = "event" /\ row[r].cooling]
  /\ UNCHANGED <<kind, rows, task, counter, waiting, triggers, crashes>>

Goes(c, pc, r) == caller' = [caller EXCEPT ![c] = Call(pc, r)]

\* a user may fire any routine, and is not held up by cooldown or global limit;
\* the call has counted the runs and is about to record one
FireManual(c, r) ==
  /\ caller[c].pc = "idle"
  /\ CheckConcurrent(r)
  /\ Goes(c, "checked", r)
  /\ UNCHANGED <<kind, rows, cache, task, counter, waiting, ticker, matched, crashes>>

\* fire_webhook reads the routine and looks at its cooldown ...
FireWebhook(c, r) ==
  /\ caller[c].pc = "idle"
  /\ kind[r].trigger = "webhook"
  /\ CheckCooldown(row[r].cooling)
  /\ Goes(c, "read", r)
  /\ UNCHANGED <<kind, rows, cache, task, counter, waiting, ticker, matched, crashes>>

\* ... counts its runs and looks at the counter ...
WebhookChecks(c) ==
  LET r == caller[c].routine IN
  /\ caller[c].pc = "read"
  /\ Goes(c, IF CheckConcurrent(r) /\ CheckGlobal THEN "checked" ELSE "idle", r)
  /\ UNCHANGED <<kind, rows, cache, task, counter, waiting, ticker, matched, crashes>>

\* ... and either call then records the run, which may fail, and starts it
CallFires(c) ==
  LET r == caller[c].routine IN
  /\ caller[c].pc = "checked"
  /\ Goes(c, "idle", r)
  /\ RecordAndSpawn(r) \/ UNCHANGED <<record, task>>
  /\ UNCHANGED <<kind, row, job, cache, counter, waiting, ticker, matched, crashes>>

\* the deferred retry asks for neither cooldown nor a limit, only whether the
\* failures have become too many meanwhile
RetryFires(r) ==
  /\ waiting[r] > 0
  /\ waiting' = [waiting EXCEPT ![r] = @ - 1]
  /\ RecordAndSpawn(r) \/ UNCHANGED <<record, task>>
  /\ UNCHANGED <<kind, row, job, cache, counter, triggers, crashes>>

-----------------------------------------------------------------------------
(* The task of a run: spawn_fire, execute_routine, execute_full_job *)

Goto(i, pc) == task' = [task EXCEPT ![i] = [@ EXCEPT !.pc = pc]]
Routine(i) == record[i].routine

\* a write to the database succeeds (ok) or fails, which is logged

Records(i, ok) ==
  /\ task[i].pc = "spawned"
  /\ \/ ok /\ Goto(i, "recorded") /\ record' = [record EXCEPT ![i] = Record(@.routine, "unlinked")]
     \/ ~ok /\ Goto(i, "none") /\ UNCHANGED record
  /\ UNCHANGED <<kind, row, job, cache, counter, waiting, triggers, crashes>>

Executes(i) ==
  /\ task[i].pc = "recorded"
  /\ running' = running + 1
  /\ Goto(i, "executing")
  /\ UNCHANGED <<kind, rows, cache, leaked, waiting, triggers, crashes>>

\* the job is dispatched ...
Dispatches(i) ==
  /\ task[i].pc = "executing"
  /\ kind[Routine(i)].action = "job"
  /\ job' = [job EXCEPT ![i] = IF record[i].status \in Running THEN "active" ELSE @]
  /\ Goto(i, "dispatched")
  /\ UNCHANGED <<kind, row, record, cache, counter, waiting, triggers, crashes>>

\* ... and linked to the run, which may have been swept meanwhile
Links(i) ==
  /\ task[i].pc = "dispatched"
  /\ record' = [record EXCEPT ![i] =
                  IF @.status \in Running THEN Record(@.routine, "linked") ELSE @]
  /\ Goto(i, "watching")
  /\ UNCHANGED <<kind, row, job, cache, counter, waiting, triggers, crashes>>

\* Mutant of Returns: the counter is forgotten on one path.
ReturnsUncounted(i, again) ==
  /\ running' = IF again THEN running ELSE running - 1
  /\ task' = [task EXCEPT ![i] = [pc |-> "finishing", again |-> again]]
  /\ UNCHANGED <<kind, rows, cache, leaked, waiting, triggers, crashes>>

\* Mutant of Returns: a guard's drop takes the counter down once more.
ReturnsTwice(i, again) ==
  /\ running' = running - 2
  /\ task' = [task EXCEPT ![i] = [pc |-> "finishing", again |-> again]]
  /\ UNCHANGED <<kind, rows, cache, leaked, waiting, triggers, crashes>>

\* the action returned, and the counter goes down.  Only a failure of
\* a prompt may be worth another attempt, while there were not too many
Returns(i, again) ==
  /\ running' = running - 1
  /\ task' = [task EXCEPT ![i] = [pc |-> "finishing", again |-> again]]
  /\ UNCHANGED <<kind, rows, cache, leaked, waiting, triggers, crashes>>

LightReturns(i) ==
  /\ task[i].pc = "executing"
  /\ kind[Routine(i)].action = "light"
  /\ \E again \in BOOLEAN : Returns(i, again)

\* no dispatch, or no link
JobNotWatched(i) ==
  /\ task[i].pc \in {"executing", "dispatched"} /\ kind[Routine(i)].action = "job"
  /\ Returns(i, FALSE)

\* the watcher sees the job end, or gives up after its last poll
WatcherReturns(i) ==
  /\ task[i].pc = "watching"
  /\ Returns(i, FALSE)

\* a panic in the action ends the task where it is: nothing lowers the counter
Panics(i) ==
  /\ task[i].pc \in Counted
  /\ leaked < MaxLeaks
  /\ leaked' = leaked + 1
  /\ task' = [task EXCEPT ![i] = NoTask]
  /\ UNCHANGED <<kind, rows, cache, running, waiting, triggers, crashes>>

CompletesRecord(i, ok) ==
  /\ task[i].pc = "finishing"
  /\ \/ /\ ok
        /\ record' = [record EXCEPT ![i] = Record(@.routine, "done")]
        /\ job' = [job EXCEPT ![i] = "none"]
     \/ ~ok /\ UNCHANGED <<record, job>>
  /\ Goto(i, "completed")
  /\ UNCHANGED <<kind, row, cache, counter, waiting, triggers, crashes>>

\* Mutant of RuntimeAfter: the next firing is not computed.
RuntimeStillDue == [due |-> TRUE, cooling |-> TRUE]

\* update_routine_runtime: last_run_at is now and next_fire_at lies ahead
RuntimeAfter == [due |-> FALSE, cooling |-> TRUE]

UpdatesRuntime(i, ok) ==
  LET r == Routine(i) IN
  /\ task[i].pc = "completed"
  /\ row' = IF ok THEN [row EXCEPT ![r] = RuntimeAfter] ELSE row
  /\ waiting' = [waiting EXCEPT ![r] = 
                               IF task[i].again /\ @ < MaxWaiting THEN @ + 1 ELSE @]
  /\ task' = [task EXCEPT ![i] = NoTask]
  /\ UNCHANGED <<kind, record, job, cache, counter, triggers, crashes>>

-----------------------------------------------------------------------------
(* Recovery, on every tick: what is listed is finished in the same step *)

\* what sweep and sync write when they finish a run for a task
Finalizes(i) ==
  LET r == Routine(i) IN
  /\ record' = [record EXCEPT ![i] = Record(r, "done")]
  /\ job' = [job EXCEPT ![i] = "none"]
  /\ row' = [row EXCEPT ![r] = RuntimeAfter]
  /\ UNCHANGED <<kind, cache, task, counter, waiting, triggers, crashes>>

\* Mutant of Sync: runs of this process are not left to their watchers.
SyncAny(i) ==
  /\ record[i].status \in Linked
  /\ job[i] = "ended"
  /\ Finalizes(i)

\* sync_dispatched_runs: linked runs of an earlier process whose job has ended
Sync(i) ==
  /\ record[i].status = "orphaned"
  /\ job[i] = "ended"
  /\ Finalizes(i)

\* Mutant of Sweep: only the runs of prompts are swept.
SweepLight(i) ==
  /\ record[i].status = "unlinked" /\ kind[Routine(i)].action = "light"
  /\ Finalizes(i)

\* sweep_stuck_lightweight_runs: unlinked runs that are older than the timeout,
\* which a run may be at any moment
Sweep(i) ==
  /\ record[i].status = "unlinked"
  /\ Finalizes(i)

-----------------------------------------------------------------------------
(* The world: jobs end, time passes, the process dies *)

JobEnds(i) ==
  /\ job[i] = "active"
  /\ job' = [job EXCEPT ![i] = "ended"]
  /\ UNCHANGED <<kind, row, record, cache, task, counter, waiting, triggers,
                 crashes>>

BecomesDue(r) ==
  /\ kind[r].trigger = "cron" /\ ~row[r].due
  /\ row' = [row EXCEPT ![r].due = TRUE]
  /\ UNCHANGED <<kind, record, job, cache, task, counter, waiting, triggers,
                 crashes>>

CooldownEnds(r) ==
  /\ row[r].cooling
  /\ row' = [row EXCEPT ![r].cooling = FALSE]
  /\ cache' = [cache EXCEPT ![r] = FALSE]
  /\ UNCHANGED <<kind, record, job, task, counter, waiting, triggers, crashes>>

\* a new process: RoutineEngine::new, the cache filled at start
Crash ==
  /\ crashes < MaxCrashes
  /\ crashes' = crashes + 1
  /\ task' = [i \in Ids |-> NoTask]
  /\ running' = 0
  /\ leaked' = 0
  /\ waiting' = [r \in Routines |-> 0]
  /\ ticker' = {}
  /\ matched' = {}
  /\ caller' = [c \in Callers |-> Call("idle", caller[c].routine)]
  /\ cache' = [r \in Routines |-> kind[r].trigger = "event" /\ row[r].cooling]
  /\ record' = [i \in Ids |-> 
                  IF record[i].status = "linked" THEN Record(Routine(i), "orphaned")
                  ELSE record[i]]
  /\ job' = [i \in Ids |-> IF job[i] = "active" THEN "lost" ELSE job[i]]
  /\ UNCHANGED <<kind, row>>

-----------------------------------------------------------------------------
TaskNext(i) ==
  \/ Executes(i) \/ Dispatches(i) \/ Links(i)
  \/ LightReturns(i) \/ JobNotWatched(i) \/ WatcherReturns(i)
  \/ \E ok \in BOOLEAN : Records(i, ok) \/ CompletesRecord(i, ok) \/ UpdatesRuntime(i, ok)

TriggerNext(r) ==
  \/ EventMatches(r) \/ EventFires(r) \/ RetryFires(r)
  \/ \E c \in Callers : FireManual(c, r) \/ FireWebhook(c, r)

CallNext(c) == WebhookChecks(c) \/ CallFires(c)

TickerNext == TickerLists \/ \E t \in ticker : TickerFires(t)

WorldNext ==
  \/ \E i \in Ids : JobEnds(i)
  \/ \E r \in Routines : BecomesDue(r) \/ CooldownEnds(r)

Next ==
  \/ TickerNext \/ RefreshEventCache
  \/ \E r \in Routines : TriggerNext(r)
  \/ \E c \in Callers : CallNext(c)
  \/ \E i \in Ids : TaskNext(i) \/ Panics(i) \/ Sync(i) \/ Sweep(i)
  \/ WorldNext
  \/ Crash

Spec == Init /\ [][Next]_vars

\* Spawned tasks run, every execution ends (by its timeout or last poll), the
\* ticker ticks and time passes; nobody has to fire a routine by hand or event,
\* and a job need not end.  The database does not refuse the same write for ever.
Fairness ==
  /\ \A i \in Ids :
       /\ WF_vars(TaskNext(i))
       /\ WF_vars(Sweep(i) \/ Sync(i))
  /\ \A r \in Routines :
       /\ WF_vars(CooldownEnds(r))
       /\ SF_vars(\E i \in Ids : Routine(i) = r /\ Records(i, TRUE))
       /\ SF_vars(\E i \in Ids : Routine(i) = r /\ UpdatesRuntime(i, TRUE))
  /\ WF_vars(TickerNext)

FairSpec == Spec /\ Fairness

-----------------------------------------------------------------------------
(* Properties *)

\* Every variable has its type.
TypeOK ==
  /\ kind \in [Routines -> Kinds]
  /\ row \in [Routines -> [due : BOOLEAN, cooling : BOOLEAN]]
  /\ cache \in [Routines -> BOOLEAN]
  /\ record \in [Ids -> [routine : Routines, status : Running \cup {"done"}]]
  /\ job \in [Ids -> {"none", "active", "ended", "lost"}]
  /\ task \in [Ids -> [pc : {"none", "spawned", "recorded", "finishing", "completed"}
                              \cup Counted,
                       again : BOOLEAN]]
  /\ running \in Nat
  /\ leaked \in 0..MaxLeaks
  /\ waiting \in [Routines -> 0..MaxWaiting]
  /\ ticker \subseteq [routine : Routines, cooling : BOOLEAN]
  /\ matched \subseteq Routines
  /\ caller \in [Callers -> [pc : {"idle", "read", "checked"}, routine : Routines]]
  /\ crashes \in 0..MaxCrashes

Busy == {i \in Ids : task[i].pc \in Counted}

\* running_count is the number of runs being executed and of those that panicked
\* since the process started: no error, timeout, failed write or restart changes
\* it otherwise.  A count too high blocks all triggers once it reaches the limit,
\* one too low would wrap around below zero (execute_routine).
CounterExact == running = Cardinality(Busy) + leaked

\* "Increment running count (atomic: survives panics in the execution below)": a
\* panic leaves running_count the number of runs being executed.  Violated.
CountSurvivesPanics == running = Cardinality(Busy)

\* "it never races with FullJobWatcher instances from the current process":
\* sync_dispatched_runs only finishes runs that no task of this process is at.
SyncNeverRaces == [][\A i \in Ids : Sync(i) => task[i].pc = "none"]_vars

\* A linked run is out of reach of sweep and sync when its job died with an
\* earlier process, or when its own task panicked or failed to write its end.
Abandoned(i) ==
  \/ record[i].status = "orphaned" /\ job[i] = "lost"
  \/ record[i].status = "linked" /\ task[i].pc = "none"

\* A run that is recorded as running does not stay so, crashes, panics and failed
\* writes included, unless it is abandoned (execute_routine, sync_dispatched_runs,
\* sweep_stuck_lightweight_runs).
RunsEnd ==
  \A i \in Ids : (record[i].status \in Running) ~> (record[i].status = "done" \/ Abandoned(i))

\* A due routine is fired and its next firing computed, unless an abandoned run
\* keeps it at its limit or runs that panicked have used up the global one
\* (check_cron_triggers, update_routine_runtime).
DueFires ==
  \A r \in Routines :
    row[r].due ~> \/ ~row[r].due
                  \/ \E i \in RunningRecords(r) : Abandoned(i)
                  \/ leaked >= MaxRoutines

=============================================================================
