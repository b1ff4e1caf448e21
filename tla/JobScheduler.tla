----------------------------- MODULE JobScheduler -----------------------------
(***************************************************************************)
(* Background jobs of the agent: the contexts of ContextManager, the       *)
(* scheduler's `jobs` map with one worker task and one cleanup task per    *)
(* scheduled job (agent/scheduler.rs), the worker's life                   *)
(* (worker/job.rs, over agent/agentic_loop.rs), the repair loop            *)
(* (agent/self_repair.rs), the monitor of a container job                  *)
(* (agent/job_monitor.rs), and the commands that cancel, message and help  *)
(* a job.                                                                  *)
(*                                                                         *)
(* Every await is a step boundary.  The write lock on `jobs` is held by    *)
(* Scheduler::stop over its awaits (variable stop); schedule takes and     *)
(* releases it within one step.  Times are abstracted: what happens "after *)
(* a while" (job timeout, stuck threshold, 30 minutes of cleanup polls,    *)
(* monitor timeout) may happen at any moment.                              *)
(***************************************************************************)
EXTENDS Naturals, Sequences, FiniteSets

CONSTANTS
  Jobs,         \* ids of the jobs given to the scheduler
  Containers,   \* ids of the jobs that run in a container
  MaxJobs,      \* max_parallel_jobs, given to scheduler and context manager
  MaxRepair,    \* max_repair_attempts
  Capacity,     \* capacity of a worker's channel (16 in schedule)
  MaxRuns,      \* bound: workers started for one job
  MaxAttempts   \* bound: recoveries of one job, by the repair loop or a user

ASSUME JobAssumption ==
  /\ IsFiniteSet(Jobs) /\ IsFiniteSet(Containers)
  /\ Jobs \cap Containers = {}
  /\ MaxJobs \in Nat
  /\ MaxRepair \in Nat
  /\ Capacity \in Nat \ {0}
  /\ MaxRuns \in Nat \ {0}
  /\ MaxAttempts \in Nat

All == Jobs \cup Containers
Runs == 1..MaxRuns

VARIABLES
  state,       \* each context's JobState, "None" before the job exists
  attempts,    \* each context's repair_attempts
  dispatch,    \* where the call that creates or reschedules a job is
  registered,  \* keys of the scheduler's `jobs` map
  started,     \* workers started for each job; the map's handle is the last
  worker,      \* stage of each worker task
  inbox,       \* messages in the channel of each worker
  cleaner,     \* stage of each worker's cleanup task
  stop,        \* the call of Scheduler::stop that holds the lock, if any
  writes,      \* status updates spawned and not yet executed
  stored,      \* status of the job in the database
  lost,        \* history: jobs that nobody had asked to cancel when a status
               \* update of theirs failed
  repair,      \* the repair loop: jobs listed, and stuck jobs to repair
  monitor,     \* the monitor of a container job
  cancelled    \* history: jobs somebody asked to cancel

context == <<state, attempts>>
tasks == <<registered, started, worker, inbox, cleaner>>
database == <<writes, stored, lost>>
vars == <<context, dispatch, tasks, stop, database, repair, monitor, cancelled>>

-----------------------------------------------------------------------------
(* JobState *)

Blocking == {"Pending", "InProgress", "Stuck"}
Terminal == {"Accepted", "Failed", "Cancelled"}
JobStates == Blocking \cup Terminal \cup {"Completed", "Submitted"}

Transitions ==
  { <<"Pending", "InProgress">>, <<"Pending", "Cancelled">>,
    <<"InProgress", "Completed">>, <<"InProgress", "Failed">>,
    <<"InProgress", "Stuck">>, <<"InProgress", "Cancelled">>,
    <<"Completed", "Submitted">>, <<"Completed", "Failed">>,
    <<"Submitted", "Accepted">>, <<"Submitted", "Failed">>,
    <<"Stuck", "InProgress">>, <<"Stuck", "Failed">>, <<"Stuck", "Cancelled">> }

CanTransition(s, t) == <<s, t>> \in Transitions \/ (s = "Completed" /\ t = "Completed")

\* transition_to whose refusal is dropped or only logged
TransitionTo(j, t) ==
  state' = [state EXCEPT ![j] = IF CanTransition(@, t) THEN t ELSE @]

\* Mutant of Mark: a refused transition is persisted all the same.
MarkUnchecked(j, t) ==
  /\ TransitionTo(j, t)
  /\ writes' = [writes EXCEPT ![j] = @ \cup {t}]

\* mark_completed, mark_failed and mark_stuck: the status is persisted, by a
\* task of its own, only if the transition was accepted
Mark(j, t) ==
  /\ TransitionTo(j, t)
  /\ writes' = [writes EXCEPT ![j] = IF CanTransition(state[j], t) THEN @ \cup {t} ELSE @]

-----------------------------------------------------------------------------
Stages == {"none", "start", "plan", "loop", "llm", "ended", "completing",
           "failing", "gone"}
NoStop == [pc |-> "idle", job |-> "none"]
LockFree == stop.pc = "idle"

Live(j, r) == worker[j][r] \notin {"none", "gone"}
Worker(j) == IF started[j] = 0 THEN "gone" ELSE worker[j][started[j]]

Init ==
  /\ state = [j \in All |-> "None"]
  /\ attempts = [j \in All |-> 0]
  /\ dispatch = [j \in Jobs |-> "none"]
  /\ registered = {}
  /\ started = [j \in Jobs |-> 0]
  /\ worker = [j \in Jobs |-> [r \in Runs |-> "none"]]
  /\ inbox = [j \in Jobs |-> [r \in Runs |-> <<>>]]
  /\ cleaner = [j \in Jobs |-> [r \in Runs |-> "none"]]
  /\ stop = NoStop
  /\ writes = [j \in Jobs |-> {}]
  /\ stored = [j \in Jobs |-> "None"]
  /\ lost = {}
  /\ repair = [listed |-> {}, stuck |-> {}]
  /\ monitor = [j \in Containers |-> "none"]
  /\ cancelled = {}

-----------------------------------------------------------------------------
(* Scheduler::dispatch_job and Scheduler::schedule *)

\* Mutant of SlotFree: one job too many is admitted.
SlotFreeAtLimit == Cardinality({j \in All : state[j] \in Blocking}) <= MaxJobs

\* insert_context admits a job only while a slot is free
SlotFree == Cardinality({j \in All : state[j] \in Blocking}) < MaxJobs

Create(j) ==
  /\ state[j] = "None"
  /\ SlotFree
  /\ state' = [state EXCEPT ![j] = "Pending"]
  /\ dispatch' = [dispatch EXCEPT ![j] = "saving"]
  /\ UNCHANGED <<attempts, tasks, stop, database, repair, monitor, cancelled>>

Save(j) ==
  /\ dispatch[j] = "saving"
  /\ stored' = [stored EXCEPT ![j] = "Pending"]
  /\ dispatch' = [dispatch EXCEPT ![j] = "scheduling"]
  /\ UNCHANGED <<context, tasks, stop, writes, lost, repair, monitor, cancelled>>

\* the error is returned; the context stays
SaveFails(j) ==
  /\ dispatch[j] = "saving"
  /\ dispatch' = [dispatch EXCEPT ![j] = "done"]
  /\ UNCHANGED <<context, tasks, stop, database, repair, monitor, cancelled>>

StartWorker(j) ==
  LET r == started[j] + 1 IN
  /\ r \in Runs
  /\ started' = [started EXCEPT ![j] = r]
  /\ registered' = registered \cup {j}
  /\ worker' = [worker EXCEPT ![j][r] = "start"]
  /\ UNCHANGED inbox
  /\ cleaner' = [cleaner EXCEPT ![j][r] = "poll"]

Schedule(j) ==
  /\ dispatch[j] = "scheduling"
  /\ LockFree
  /\ dispatch' = [dispatch EXCEPT ![j] = "done"]
  /\ \/ /\ j \notin registered
        /\ Cardinality(registered) < MaxJobs
        /\ CanTransition(state[j], "InProgress")
        /\ state' = [state EXCEPT ![j] = "InProgress"]
        /\ StartWorker(j)
     \/ /\ \/ j \in registered
           \/ Cardinality(registered) >= MaxJobs
           \/ ~CanTransition(state[j], "InProgress")
        /\ UNCHANGED <<state, tasks>>
  /\ UNCHANGED <<attempts, stop, database, repair, monitor, cancelled>>

\* the cleanup task of a worker looks at the entry once a second ...
CleanerPolls(j, r) ==
  /\ cleaner[j][r] = "poll"
  /\ LockFree
  /\ j \in registered => Worker(j) = "gone"
  /\ cleaner' = [cleaner EXCEPT ![j][r] = "remove"]
  /\ UNCHANGED <<context, dispatch, registered, started, worker, inbox, stop,
                 database, repair, monitor, cancelled>>

\* Mutant of CleanerGivesUp: it leaves the entry behind.
CleanerForgets(j, r) ==
  /\ cleaner[j][r] = "poll"
  /\ cleaner' = [cleaner EXCEPT ![j][r] = "none"]
  /\ UNCHANGED <<context, dispatch, registered, started, worker, inbox, stop,
                 database, repair, monitor, cancelled>>

\* ... gives up after CLEANUP_MAX_POLLS ...
CleanerGivesUp(j, r) ==
  /\ cleaner[j][r] = "poll"
  /\ cleaner' = [cleaner EXCEPT ![j][r] = "remove"]
  /\ UNCHANGED <<context, dispatch, registered, started, worker, inbox, stop,
                 database, repair, monitor, cancelled>>

\* ... and then removes whatever entry the job has
CleanerRemoves(j, r) ==
  /\ cleaner[j][r] = "remove"
  /\ LockFree
  /\ registered' = registered \ {j}
  /\ cleaner' = [cleaner EXCEPT ![j][r] = "none"]
  /\ UNCHANGED <<context, dispatch, started, worker, inbox, stop, database,
                 repair, monitor, cancelled>>

-----------------------------------------------------------------------------
(* Worker::run *)

Goto(j, r, stage) ==
  /\ worker' = [worker EXCEPT ![j][r] = stage]
  /\ UNCHANGED <<attempts, dispatch, registered, started, cleaner, stop, stored, lost,
                 repair, monitor>>

\* the plan may be switched off or fail to be made
Begins(j, r) ==
  /\ worker[j][r] = "start"
  /\ \E stage \in {"plan", "loop"} : Goto(j, r, stage)
  /\ UNCHANGED <<state, inbox, writes, cancelled>>

\* after the plan the loop is entered unless the context says otherwise
AfterPlan(s) == IF s \in Terminal \cup {"Stuck", "Completed"} THEN "ended" ELSE "loop"

\* a message interrupts the plan; Stop is consumed like any other
PlanInterrupted(j, r) ==
  /\ worker[j][r] = "plan"
  /\ inbox[j][r] # <<>>
  /\ inbox' = [inbox EXCEPT ![j][r] = Tail(@)]
  /\ Goto(j, r, AfterPlan(state[j]))
  /\ UNCHANGED <<state, writes, cancelled>>

PlanFinishes(j, r) ==
  /\ worker[j][r] = "plan"
  /\ \/ Goto(j, r, AfterPlan(state[j])) /\ UNCHANGED <<state, writes>>
     \/ Goto(j, r, IF CanTransition(state[j], "Completed") THEN "ended" ELSE "failing")
        /\ Mark(j, "Completed")
     \/ Goto(j, r, "failing") /\ UNCHANGED <<state, writes>>
  /\ UNCHANGED <<inbox, cancelled>>

Has(j, r, msg) == \E i \in DOMAIN inbox[j][r] : inbox[j][r][i] = msg

\* check_signals drains the channel: Stop first, then a user message, then the
\* state of the context, for which Stuck is no reason to stop
CheckSignals(j, r) ==
  /\ worker[j][r] = "loop"
  /\ inbox' = [inbox EXCEPT ![j][r] = <<>>]
  /\ Goto(j, r, IF \/ Has(j, r, "Stop")
                   \/ ~Has(j, r, "User") /\ state[j] \notin Blocking
                THEN "ended" ELSE "llm")
  /\ UNCHANGED <<state, writes, cancelled>>

\* tool calls, text, a nudge or a rate limit that is waited out
LlmContinues(j, r) ==
  /\ worker[j][r] = "llm"
  /\ Goto(j, r, "loop")
  /\ UNCHANGED <<state, inbox, writes, cancelled>>

\* the answer says the job is done; a refused transition is only logged
LlmCompletes(j, r) ==
  /\ worker[j][r] = "llm"
  /\ Mark(j, "Completed")
  /\ Goto(j, r, "ended")
  /\ UNCHANGED <<inbox, cancelled>>

\* the answer exceeds the token budget: the job fails, and the answer is still
\* handled
LlmOverBudget(j, r) ==
  /\ worker[j][r] = "llm"
  /\ Mark(j, "Failed")
  /\ \E stage \in {"loop", "ended"} :
       Goto(j, r, IF CanTransition(state[j], "Failed") THEN stage ELSE "failing")
  /\ UNCHANGED <<inbox, cancelled>>

\* an error, ten rate limits in a row, or the last iteration
LlmFails(j, r) ==
  /\ worker[j][r] = "llm"
  /\ Goto(j, r, "failing")
  /\ UNCHANGED <<state, inbox, writes, cancelled>>

\* Mutant of TimesOut: the timeout covers the plan only.
PlanTimesOut(j, r) ==
  /\ worker[j][r] = "plan"
  /\ Mark(j, "Stuck")
  /\ Goto(j, r, "gone")
  /\ UNCHANGED <<inbox, cancelled>>

TimesOut(j, r) ==
  /\ worker[j][r] \in {"start", "plan", "loop", "llm"}
  /\ Mark(j, "Stuck")
  /\ Goto(j, r, "gone")
  /\ UNCHANGED <<inbox, cancelled>>

\* the loop returned Ok: the state is read, then the job marked completed
Ends(j, r) ==
  /\ worker[j][r] = "ended"
  /\ Goto(j, r, IF state[j] \in Terminal \cup {"Completed", "Stuck"} THEN "gone"
                ELSE "completing")
  /\ UNCHANGED <<state, inbox, writes, cancelled>>

MarksCompleted(j, r) ==
  /\ worker[j][r] = "completing"
  /\ Mark(j, "Completed")
  /\ Goto(j, r, "gone")
  /\ UNCHANGED <<inbox, cancelled>>

MarksFailed(j, r) ==
  /\ worker[j][r] = "failing"
  /\ Mark(j, "Failed")
  /\ Goto(j, r, "gone")
  /\ UNCHANGED <<inbox, cancelled>>

\* a spawned status update reaches the database, in any order, or fails there,
\* which is logged and forgotten
Persists(j) ==
  /\ \E t \in writes[j] :
       /\ writes' = [writes EXCEPT ![j] = @ \ {t}]
       /\ \/ /\ stored' = [stored EXCEPT ![j] = IF @ = "None" THEN @ ELSE t]
             /\ UNCHANGED lost
          \/ /\ lost' = lost \cup ({j} \ cancelled)
             /\ UNCHANGED stored
  /\ UNCHANGED <<context, dispatch, tasks, stop, repair, monitor, cancelled>>

-----------------------------------------------------------------------------
(* Commands: message, cancel, help *)

\* Mutant of Send: an unbounded channel.
SendUnbounded(j, msg) ==
  /\ Worker(j) # "gone"
  /\ inbox' = [inbox EXCEPT ![j][started[j]] = Append(@, msg)]

\* what the entry of a job sends into its worker's channel, when there is room
Send(j, msg) ==
  LET r == started[j] IN
  /\ Worker(j) # "gone"
  /\ Len(inbox[j][r]) < Capacity
  /\ inbox' = [inbox EXCEPT ![j][r] = Append(@, msg)]

SendMessage(j) ==
  /\ LockFree
  /\ j \in registered
  /\ Send(j, "User")
  /\ UNCHANGED <<context, dispatch, registered, started, worker, cleaner, stop,
                 database, repair, monitor, cancelled>>

\* Scheduler::stop: the entry is removed and the lock kept
StopTakes(j) ==
  /\ LockFree
  /\ j \in registered
  /\ registered' = registered \ {j}
  /\ stop' = [pc |-> "send", job |-> j]
  /\ cancelled' = cancelled \cup {j}
  /\ UNCHANGED <<context, dispatch, started, worker, inbox, cleaner, database,
                 repair, monitor>>

\* the send waits for room in the channel, or for the worker to end
StopSends ==
  /\ stop.pc = "send"
  /\ \/ Worker(stop.job) = "gone" /\ UNCHANGED inbox
     \/ Send(stop.job, "Stop")
  /\ stop' = [stop EXCEPT !.pc = "wait"]
  /\ UNCHANGED <<context, dispatch, registered, started, worker, cleaner,
                 database, repair, monitor, cancelled>>

\* after 100 ms the task is aborted, the context cancelled if it can be, and the
\* cancellation persisted in any case
StopCancels ==
  LET j == stop.job IN
  /\ stop.pc = "wait"
  /\ worker' = [worker EXCEPT ![j][started[j]] = "gone"]
  /\ TransitionTo(j, "Cancelled")
  /\ writes' = [writes EXCEPT ![j] = @ \cup {"Cancelled"}]
  /\ stop' = NoStop
  /\ UNCHANGED <<attempts, dispatch, registered, started, inbox, cleaner, stored, lost,
                 repair, monitor, cancelled>>

\* a job that is not in the map is not touched, but reported as cancelled
StopMisses(j) ==
  /\ LockFree
  /\ state[j] # "None" /\ j \notin registered
  /\ writes' = [writes EXCEPT ![j] = @ \cup {"Cancelled"}]
  /\ cancelled' = cancelled \cup {j}
  /\ UNCHANGED <<context, dispatch, tasks, stop, stored, lost, repair, monitor>>

\* the cancel_job tool changes the context and leaves the worker to notice
ToolCancels(j) ==
  /\ CanTransition(state[j], "Cancelled")
  /\ TransitionTo(j, "Cancelled")
  /\ cancelled' = cancelled \cup {j}
  /\ UNCHANGED <<attempts, dispatch, tasks, stop, database, repair, monitor>>

AttemptRecovery(j) ==
  /\ attempts[j] < MaxAttempts
  /\ state' = [state EXCEPT ![j] = "InProgress"]
  /\ attempts' = [attempts EXCEPT ![j] = @ + 1]

\* handle_help_job recovers a stuck job and then schedules it
Help(j) ==
  /\ state[j] = "Stuck"
  /\ dispatch[j] \in {"none", "done"}
  /\ AttemptRecovery(j)
  /\ dispatch' = [dispatch EXCEPT ![j] = "scheduling"]
  /\ UNCHANGED <<tasks, stop, database, repair, monitor, cancelled>>

-----------------------------------------------------------------------------
(* DefaultSelfRepair, called in turn by the agent's repair loop *)

\* stuck jobs, and jobs in progress for longer than the threshold
RepairLists ==
  /\ repair = [listed |-> {}, stuck |-> {}]
  /\ \E late \in SUBSET {j \in All : state[j] = "InProgress"} :
       repair' = [repair EXCEPT !.listed = {j \in All : state[j] = "Stuck"} \cup late]
  /\ UNCHANGED <<context, dispatch, tasks, stop, database, monitor, cancelled>>

\* a job in progress becomes stuck; one that is stuck is taken if it has been so
\* for long enough
RepairDetects(j) ==
  /\ j \in repair.listed
  /\ \/ /\ state[j] \in {"InProgress", "Stuck"}
        /\ state' = [state EXCEPT ![j] = "Stuck"]
        /\ repair' = [listed |-> repair.listed \ {j},
                      stuck |-> repair.stuck \cup {[job |-> j, attempts |-> attempts[j]]}]
     \/ /\ state[j] # "InProgress"
        /\ repair' = [listed |-> repair.listed \ {j}, stuck |-> repair.stuck]
        /\ UNCHANGED state
  /\ UNCHANGED <<attempts, dispatch, tasks, stop, database, monitor, cancelled>>

\* detection is cut off by its timeout; what it marked stays marked
RepairTimesOut ==
  /\ repair.listed # {}
  /\ repair' = [listed |-> {}, stuck |-> {}]
  /\ UNCHANGED <<context, dispatch, tasks, stop, database, monitor, cancelled>>

\* an attempt too many, a job in another state and the timeout change nothing
RepairTries ==
  /\ repair.listed = {}
  /\ \E s \in repair.stuck :
       /\ repair' = [listed |-> {}, stuck |-> repair.stuck \ {s}]
       /\ \/ /\ s.attempts < MaxRepair
             /\ state[s.job] \in {"InProgress", "Stuck"}
             /\ AttemptRecovery(s.job)
          \/ UNCHANGED context
  /\ UNCHANGED <<dispatch, tasks, stop, database, monitor, cancelled>>

-----------------------------------------------------------------------------
(* Container jobs: register_sandbox_job, job_monitor.rs *)

Register(j) ==
  /\ state[j] = "None"
  /\ SlotFree
  /\ state' = [state EXCEPT ![j] = "InProgress"]
  /\ monitor' = [monitor EXCEPT ![j] = "watching"]
  /\ UNCHANGED <<attempts, dispatch, tasks, stop, database, repair, cancelled>>

\* the result of the container, its failure to start, or the monitor's timeout
MonitorEnds(j) ==
  /\ monitor[j] = "watching"
  /\ \E t \in {"Completed", "Stuck", "Failed"} : TransitionTo(j, t)
  /\ monitor' = [monitor EXCEPT ![j] = "done"]
  /\ UNCHANGED <<attempts, dispatch, tasks, stop, database, repair, cancelled>>

-----------------------------------------------------------------------------
WorkerNext(j, r) ==
  \/ Begins(j, r) \/ PlanInterrupted(j, r) \/ PlanFinishes(j, r)
  \/ CheckSignals(j, r) \/ LlmContinues(j, r) \/ LlmCompletes(j, r)
  \/ LlmOverBudget(j, r) \/ LlmFails(j, r) \/ TimesOut(j, r)
  \/ Ends(j, r) \/ MarksCompleted(j, r) \/ MarksFailed(j, r)

CleanerNext(j, r) ==
  CleanerPolls(j, r) \/ CleanerGivesUp(j, r) \/ CleanerRemoves(j, r)

CommandNext(j) ==
  \/ Create(j) \/ Save(j) \/ SaveFails(j) \/ Schedule(j)
  \/ SendMessage(j) \/ StopTakes(j) \/ StopMisses(j) \/ Help(j)

RepairNext ==
  RepairLists \/ (\E j \in All : RepairDetects(j)) \/ RepairTimesOut \/ RepairTries

Next ==
  \/ \E j \in Jobs, r \in Runs : WorkerNext(j, r) \/ CleanerNext(j, r)
  \/ \E j \in Jobs : CommandNext(j) \/ Persists(j)
  \/ \E j \in Containers : Register(j) \/ MonitorEnds(j)
  \/ \E j \in All : ToolCancels(j)
  \/ StopSends \/ StopCancels \/ RepairNext

\* Tasks that can run do run, a worker is ended by its timeout at the latest, and
\* sleeps end; nobody has to send a command, and the repair loop may find every
\* job too young
Fairness ==
  /\ \A j \in Jobs, r \in Runs :
       /\ WF_vars(TimesOut(j, r))
       /\ WF_vars(Begins(j, r) \/ Ends(j, r) \/ MarksCompleted(j, r) \/ MarksFailed(j, r))
       /\ WF_vars(CleanerPolls(j, r)) /\ WF_vars(CleanerRemoves(j, r))
  /\ \A j \in Jobs : WF_vars(Save(j) \/ Schedule(j))
  /\ WF_vars(StopSends) /\ WF_vars(StopCancels)

Spec == Init /\ [][Next]_vars

FairSpec == Spec /\ Fairness

-----------------------------------------------------------------------------
(* Properties *)

\* Every variable has its type, and no channel holds more than it was made for.
TypeOK ==
  /\ state \in [All -> JobStates \cup {"None"}]
  /\ attempts \in [All -> Nat]
  /\ dispatch \in [Jobs -> {"none", "saving", "scheduling", "done"}]
  /\ registered \subseteq Jobs
  /\ started \in [Jobs -> 0..MaxRuns]
  /\ worker \in [Jobs -> [Runs -> Stages]]
  /\ inbox \in [Jobs -> [Runs -> Seq({"User", "Stop"})]]
  /\ \A j \in Jobs, r \in Runs : Len(inbox[j][r]) <= Capacity
  /\ cleaner \in [Jobs -> [Runs -> {"none", "poll", "remove"}]]
  /\ \/ stop = NoStop
     \/ stop \in [pc : {"send", "wait"}, job : {j \in Jobs : started[j] # 0}]
  /\ writes \in [Jobs -> SUBSET JobStates]
  /\ stored \in [Jobs -> JobStates \cup {"None"}]
  /\ lost \subseteq Jobs
  /\ repair \in [listed : SUBSET All, stuck : SUBSET [job : All, attempts : Nat]]
  /\ monitor \in [Containers -> {"none", "watching", "done"}]
  /\ cancelled \subseteq All

\* Once the spawned status updates are over, the database agrees with the
\* outcome of a job that nobody cancelled or recovered (persist_status), or an
\* update failed and the row still says Pending, as it was created: no order of
\* the updates, no failure of one, and no writer that lost a race between
\* transitions leaves it with an outcome the job does not have.
StoredAgrees ==
  \A j \in Jobs :
    (/\ j \notin cancelled
     /\ attempts[j] = 0
     /\ stored[j] # "None"
     /\ writes[j] = {}
     /\ state[j] \in {"Completed", "Failed"}) =>
       stored[j] = state[j] \/ (j \in lost /\ stored[j] = "Pending")

\* The slots of JobSlots: a job holds one while its state is parallel-blocking.
Slots == INSTANCE JobSlots WITH
  Jobs <- All,
  held <- {j \in All : state[j] \in Blocking},
  released <- {j \in All : state[j] \notin Blocking \cup {"None"}}

\* Scheduler, workers, repair loop, monitors and cancellations together
\* implement the slots: never more jobs than max_parallel_jobs block, and a job
\* that gave its slot back never takes one again.
SlotsRefined == Slots!Spec

\* The entry of a scheduled job leaves the map (the cleanup task exists "to
\* avoid capacity leaks"), whatever becomes of its worker.
CapacityReturns == \A j \in Jobs : (j \in registered) ~> (j \notin registered)

\* A call of Scheduler::stop returns, although it sends into a bounded channel
\* with the map locked.
StopReturns == (stop.pc # "idle") ~> (stop.pc = "idle")

=============================================================================
