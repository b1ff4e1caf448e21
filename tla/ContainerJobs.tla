---------------------------- MODULE ContainerJobs ----------------------------
(***************************************************************************)
(* Jobs in containers: ContainerJobManager and its exit watcher            *)
(* (orchestrator/job_manager.rs), the worker's reports (orchestrator/      *)
(* api.rs, worker/container.rs), the caller that waits for a job or        *)
(* monitors it (tools/builtin/job.rs, agent/job_monitor.rs), cancellation, *)
(* and the reaper of orphaned containers (orchestrator/reaper.rs).         *)
(*                                                                         *)
(* Docker is external: a request to stop and remove a container may do     *)
(* both, stop it only, or fail, and the process in a container may die or  *)
(* hang.  A step is what happens between two awaits that another task can  *)
(* tell apart.  Job identifiers are never used twice.  Database rows are   *)
(* left out, and so are the moves of the repair loop between InProgress    *)
(* and Stuck, which JobScheduler has.                                      *)
(***************************************************************************)
EXTENDS Naturals

CONSTANTS
  Jobs,       \* identifiers of container jobs
  MaxCrashes  \* bound: crashes of the agent's process

ASSUME CrashAssumption == MaxCrashes \in Nat

VARIABLES
  kind,     \* how a job was started: the tool waits or watches, or the web restarts
  ctx,      \* ContextManager: state of the job, "none" without a context
  handle,   \* ContainerJobManager.containers
  token,    \* TokenStore: jobs with a valid token
  docker,   \* the containers
  old,      \* containers created longer than orphan_threshold ago
  create,   \* progress of create_job
  caller,   \* the polling loop or the monitor of a job
  news,     \* first JobResult in the monitor's receiver
  outcome,  \* what the worker in the container has to report
  report,   \* progress of report_complete
  watcher,  \* progress of the exit watcher
  stopping, \* calls of stop_job that have dealt with the container
  scan,     \* containers listed by the reaper and not yet looked at
  doomed,   \* containers the reaper found without an active job
  crashes   \* crashes so far

memory == <<ctx, handle, token>>
tasks == <<create, caller, news, report, watcher, stopping>>
reaper == <<scan, doomed>>
world == <<docker, old, outcome>>
vars == <<kind, memory, tasks, reaper, world, crashes>>

Stoppers == {"cancel", "poll", "reaper"}
Terminal == {"Failed", "Cancelled", "Accepted"}
Outcomes == {"ok", "failed", "stuck"}
NoHandle == [state |-> "absent", id |-> FALSE, result |-> "none"]
Present(j) == handle[j].state # "absent"

Init ==
  /\ kind = [j \in Jobs |-> "none"]
  /\ ctx = [j \in Jobs |-> "none"]
  /\ handle = [j \in Jobs |-> NoHandle]
  /\ token = {}
  /\ docker = [j \in Jobs |-> "none"]
  /\ old = {}
  /\ create = [j \in Jobs |-> "idle"]
  /\ caller = [j \in Jobs |-> "none"]
  /\ news = [j \in Jobs |-> "none"]
  /\ outcome = [j \in Jobs |-> "none"]
  /\ report = [j \in Jobs |-> "none"]
  /\ watcher = [j \in Jobs |-> "none"]
  /\ stopping = {}
  /\ scan = {}
  /\ doomed = {}
  /\ crashes = 0

-----------------------------------------------------------------------------
(* What several tasks do *)

\* the part of can_transition_to that container jobs meet
CanTransition(s, t) ==
  \/ s = "InProgress" /\ t \in {"Completed", "Failed", "Stuck", "Cancelled"}
  \/ s = "Completed" /\ t = "Failed"
  \/ s = "Stuck" /\ t \in {"Failed", "Cancelled"}

\* update_context with transition_to; a refused transition is ignored
After(s, t) == IF CanTransition(s, t) THEN t ELSE s
Transition(j, t) == ctx' = [ctx EXCEPT ![j] = After(@, t)]

\* sandbox_completion_state, job_state_from_result_status; without a result the
\* polling loop takes the job for a success
FinalState(o) ==
  CASE o = "stuck" -> "Stuck" [] o = "failed" -> "Failed" [] OTHER -> "Completed"

\* a JobResult is broadcast; the monitor only ever acts on its first
Broadcast(j, o) ==
  news' = [news EXCEPT ![j] =
             IF kind[j] = "watch" /\ caller[j] # "done" /\ @ = "none" THEN o ELSE @]

\* stop_container and remove_container, each of which may fail
AfterRemoval(c) ==
  CASE c = "none" -> {"none"} [] c = "running" -> {"none", "exited", "running"}
    [] OTHER -> {"none", c}
Removal(j) == \E c \in AfterRemoval(docker[j]) : docker' = [docker EXCEPT ![j] = c]

\* stop_job is refused without a handle or before the container has an id.  The
\* Docker connection is cached by then, so that step cannot fail.
CanStop(j) == handle[j].id

-----------------------------------------------------------------------------
(* create_job *)

\* CreateJobTool registers the job before anything else of it exists
StartFromTool(j, k) ==
  /\ create[j] = "idle"
  /\ kind' = [kind EXCEPT ![j] = k]
  /\ ctx' = [ctx EXCEPT ![j] = "InProgress"]
  /\ create' = [create EXCEPT ![j] = "begun"]
  /\ UNCHANGED <<handle, token, caller, news, report, watcher, stopping, reaper, world,
                 crashes>>

\* jobs_restart_handler registers nothing
Restart(j) ==
  /\ create[j] = "idle"
  /\ kind' = [kind EXCEPT ![j] = "restart"]
  /\ create' = [create EXCEPT ![j] = "begun"]
  /\ UNCHANGED <<memory, caller, news, report, watcher, stopping, reaper, world, crashes>>

RecordsHandle(j) ==
  /\ create[j] = "begun"
  /\ token' = token \cup {j}
  /\ handle' = [handle EXCEPT ![j] = [state |-> "Creating", id |-> FALSE, result |-> "none"]]
  /\ create' = [create EXCEPT ![j] = "recorded"]
  /\ UNCHANGED <<kind, ctx, caller, news, report, watcher, stopping, reaper, world, crashes>>

DockerCreates(j) ==
  /\ create[j] = "recorded"
  /\ docker' = [docker EXCEPT ![j] = "created"]
  /\ create' = [create EXCEPT ![j] = "created"]
  /\ UNCHANGED <<kind, memory, caller, news, report, watcher, stopping, reaper, old, outcome,
                 crashes>>

\* starting fails when the reaper has removed the container meanwhile
DockerStarts(j) ==
  /\ create[j] = "created" /\ docker[j] = "created"
  /\ docker' = [docker EXCEPT ![j] = "running"]
  /\ create' = [create EXCEPT ![j] = "started"]
  /\ UNCHANGED <<kind, memory, caller, news, report, watcher, stopping, reaper, old, outcome,
                 crashes>>

\* on any failure the token is revoked and the handle removed, the container stays
CreateFails(j) ==
  /\ create[j] \in {"recorded", "created"}
  /\ token' = token \ {j}
  /\ handle' = [handle EXCEPT ![j] = NoHandle]
  /\ create' = [create EXCEPT ![j] = "failed"]
  /\ UNCHANGED <<kind, ctx, caller, news, report, watcher, stopping, reaper, world, crashes>>

\* the tool then fails the job in a task of its own
FailsContext(j) ==
  /\ create[j] = "failed" /\ kind[j] # "restart"
  /\ Transition(j, "Failed")
  /\ create' = [create EXCEPT ![j] = "done"]
  /\ UNCHANGED <<kind, handle, token, caller, news, report, watcher, stopping, reaper, world,
                 crashes>>

\* the handle gets the id and is running, whatever it was; watcher and caller start
CreateReturns(j) ==
  /\ create[j] = "started"
  /\ handle' = [handle EXCEPT ![j] = [state |-> "Running", id |-> TRUE, result |-> @.result]]
  /\ create' = [create EXCEPT ![j] = "done"]
  /\ watcher' = [watcher EXCEPT ![j] = "waiting"]
  /\ caller' = [caller EXCEPT ![j] = IF kind[j] = "restart" THEN "none" ELSE kind[j]]
  /\ UNCHANGED <<kind, ctx, token, news, report, stopping, reaper, world, crashes>>

-----------------------------------------------------------------------------
(* The worker in the container *)

\* it posts a "result" event, which may be lost ...
WorkerPosts(j, o) ==
  /\ docker[j] = "running" /\ outcome[j] = "none"
  /\ outcome' = [outcome EXCEPT ![j] = o]
  /\ (j \in token /\ Broadcast(j, o)) \/ UNCHANGED news
  /\ UNCHANGED <<kind, memory, create, caller, report, watcher, stopping, reaper, docker, old,
                 crashes>>

\* ... and then calls report_complete: complete_job stores the result
CompleteStores(j) ==
  /\ docker[j] = "running" /\ outcome[j] # "none" /\ j \in token
  /\ report[j] = "none"
  /\ handle' = [handle EXCEPT ![j] =
                  IF Present(j) THEN [state |-> "Stopped", id |-> @.id, result |-> outcome[j]]
                  ELSE @]
  /\ report' = [report EXCEPT ![j] = "stored"]
  /\ UNCHANGED <<kind, ctx, token, create, caller, news, watcher, stopping, reaper, world,
                 crashes>>

\* removes the container if there is a handle that knows it, revokes the token
CompleteRemoves(j) ==
  /\ report[j] = "stored"
  /\ IF handle[j].id THEN Removal(j) ELSE UNCHANGED docker
  /\ token' = token \ {j}
  /\ report' = [report EXCEPT ![j] = "removed"]
  /\ UNCHANGED <<kind, ctx, handle, create, caller, news, watcher, stopping, reaper, old,
                 outcome, crashes>>

\* the rest of report_complete
CompleteReports(j) ==
  /\ report[j] = "removed"
  /\ Broadcast(j, outcome[j])
  /\ Transition(j, FinalState(outcome[j]))
  /\ report' = [report EXCEPT ![j] = "done"]
  /\ UNCHANGED <<kind, handle, token, create, caller, watcher, stopping, reaper, world,
                 crashes>>

\* the container's process ends, by itself or not
Exits(j) ==
  /\ docker[j] = "running"
  /\ docker' = [docker EXCEPT ![j] = "exited"]
  /\ UNCHANGED <<kind, memory, tasks, reaper, old, outcome, crashes>>

Ages(j) ==
  /\ docker[j] # "none" /\ j \notin old
  /\ old' = old \cup {j}
  /\ UNCHANGED <<kind, memory, tasks, reaper, docker, outcome, crashes>>

-----------------------------------------------------------------------------
(* The exit watcher *)

\* wait_container returns, also because of an error; after the grace period the
\* watcher asks whether the job was completed
WatcherChecks(j) ==
  /\ watcher[j] = "waiting"
  /\ watcher' = [watcher EXCEPT ![j] =
                   IF handle[j].state \in {"absent", "Stopped"} THEN "done" ELSE "forcing"]
  /\ UNCHANGED <<kind, memory, create, caller, news, report, stopping, reaper, world, crashes>>

\* Mutant of ForcedResult: a result is replaced.
ForcedAlways(r) == "failed"

\* Mutant of ForcedResult: neither a success nor a failure.
ForcedUnknown(r) == IF r = "none" THEN "unknown" ELSE r

\* the watcher's own result is stored if there is none
ForcedResult(r) == IF r = "none" THEN "failed" ELSE r

WatcherForces(j) ==
  /\ watcher[j] = "forcing"
  /\ handle' = [handle EXCEPT ![j] =
                  IF Present(j)
                  THEN [state |-> "Stopped", id |-> @.id, result |-> ForcedResult(@.result)]
                  ELSE @]
  /\ watcher' = [watcher EXCEPT ![j] = "forced"]
  /\ UNCHANGED <<kind, ctx, token, create, caller, news, report, stopping, reaper, world,
                 crashes>>

WatcherCleans(j) ==
  /\ watcher[j] = "forced"
  /\ docker' = [docker EXCEPT ![j] = "none"] \/ UNCHANGED docker
  /\ token' = token \ {j}
  /\ Transition(j, "Failed")
  /\ Broadcast(j, "failed")
  /\ watcher' = [watcher EXCEPT ![j] = "done"]
  /\ UNCHANGED <<kind, handle, create, caller, report, stopping, reaper, old, outcome, crashes>>

-----------------------------------------------------------------------------
(* The caller: the polling loop (kind "wait") or the monitor (kind "watch") *)

\* the loop never finds a handle missing or Failed: only it removes the handle, and
\* nothing sets that state
PollEnds(j) ==
  /\ caller[j] = "wait" /\ handle[j].state = "Stopped"
  /\ handle' = [handle EXCEPT ![j] = NoHandle]
  /\ Transition(j, FinalState(handle[j].result))
  /\ caller' = [caller EXCEPT ![j] = "done"]
  /\ UNCHANGED <<kind, token, create, news, report, watcher, stopping, reaper, world, crashes>>

\* after ten minutes: stop_job
PollTimesOut(j) ==
  /\ caller[j] = "wait" /\ CanStop(j)
  /\ Removal(j)
  /\ stopping' = stopping \cup {<<"poll", j>>}
  /\ caller' = [caller EXCEPT ![j] = "late"]
  /\ UNCHANGED <<kind, memory, create, news, report, watcher, reaper, old, outcome, crashes>>

\* then cleanup_job, and the job has failed
PollGivesUp(j) ==
  /\ caller[j] = "late" /\ <<"poll", j>> \notin stopping
  /\ handle' = [handle EXCEPT ![j] = NoHandle]
  /\ Transition(j, "Failed")
  /\ caller' = [caller EXCEPT ![j] = "done"]
  /\ UNCHANGED <<kind, token, create, news, report, watcher, stopping, reaper, world, crashes>>

MonitorHears(j) ==
  /\ caller[j] = "watch" /\ news[j] # "none"
  /\ Transition(j, FinalState(news[j]))
  /\ news' = [news EXCEPT ![j] = "none"]
  /\ caller' = [caller EXCEPT ![j] = "done"]
  /\ UNCHANGED <<kind, handle, token, create, report, watcher, stopping, reaper, world, crashes>>

\* a receiver that lags loses messages
MonitorLags(j) ==
  /\ caller[j] = "watch" /\ news[j] # "none"
  /\ news' = [news EXCEPT ![j] = "none"]
  /\ UNCHANGED <<kind, memory, create, caller, report, watcher, stopping, reaper, world, crashes>>

MonitorTimesOut(j) ==
  /\ caller[j] = "watch" /\ news[j] = "none"
  /\ Transition(j, "Failed")
  /\ caller' = [caller EXCEPT ![j] = "done"]
  /\ UNCHANGED <<kind, handle, token, create, news, report, watcher, stopping, reaper, world,
                 crashes>>

-----------------------------------------------------------------------------
(* Cancellation and the second half of stop_job *)

\* the tool cancels the context first, the web gateway leaves it alone
Cancel(j, web) ==
  /\ create[j] # "idle"
  /\ \/ web /\ UNCHANGED ctx
     \/ ~web /\ CanTransition(ctx[j], "Cancelled") /\ Transition(j, "Cancelled")
  /\ IF CanStop(j)
     THEN Removal(j) /\ stopping' = stopping \cup {<<"cancel", j>>}
     ELSE UNCHANGED <<docker, stopping>>
  /\ UNCHANGED <<kind, handle, token, create, caller, news, report, watcher, reaper, old,
                 outcome, crashes>>

\* Mutant of StopMarks: the token is not revoked.
StopKeepsToken(who, j) ==
  /\ <<who, j>> \in stopping
  /\ stopping' = stopping \ {<<who, j>>}
  /\ handle' = [handle EXCEPT ![j] = IF Present(j) THEN [@ EXCEPT !.state = "Stopped"] ELSE @]
  /\ UNCHANGED <<kind, ctx, token, create, caller, news, report, watcher, reaper, world, crashes>>

StopMarks(who, j) ==
  /\ <<who, j>> \in stopping
  /\ stopping' = stopping \ {<<who, j>>}
  /\ handle' = [handle EXCEPT ![j] = IF Present(j) THEN [@ EXCEPT !.state = "Stopped"] ELSE @]
  /\ token' = token \ {j}
  /\ UNCHANGED <<kind, ctx, create, caller, news, report, watcher, reaper, world, crashes>>

-----------------------------------------------------------------------------
(* The reaper *)

\* Mutant of IsActive: a completed job, which blocks no slot, counts as inactive.
IsBlocking(j) == ctx[j] \in {"InProgress", "Stuck"}

IsActive(j) == ctx[j] \notin Terminal \cup {"none"}

\* one scan after the other, containers that stopped included
ReaperLists ==
  /\ scan = {} /\ doomed = {} /\ \A j \in Jobs : <<"reaper", j>> \notin stopping
  /\ scan' = {j \in old : docker[j] # "none"}
  /\ scan' # {}
  /\ UNCHANGED <<kind, memory, tasks, doomed, world, crashes>>

ReaperChecks(j) ==
  /\ j \in scan /\ doomed = {} /\ \A q \in Jobs : <<"reaper", q>> \notin stopping
  /\ scan' = scan \ {j}
  /\ doomed' = IF IsActive(j) THEN doomed ELSE {j}
  /\ UNCHANGED <<kind, memory, tasks, world, crashes>>

\* reap_container: by stop_job, or past it when there is no handle with an id
ReaperRemoves(j) ==
  /\ j \in doomed
  /\ doomed' = doomed \ {j}
  /\ Removal(j)
  /\ stopping' = IF CanStop(j) THEN stopping \cup {<<"reaper", j>>} ELSE stopping
  /\ UNCHANGED <<kind, memory, create, caller, news, report, watcher, scan, old, outcome,
                 crashes>>

-----------------------------------------------------------------------------
\* The process dies and starts again: containers, the workers in them and what was
\* being started survive.
Crash ==
  /\ crashes < MaxCrashes
  /\ crashes' = crashes + 1
  /\ ctx' = [j \in Jobs |-> "none"]
  /\ handle' = [j \in Jobs |-> NoHandle]
  /\ token' = {}
  /\ create' = [j \in Jobs |-> IF create[j] = "idle" THEN "idle" ELSE "done"]
  /\ caller' = [j \in Jobs |-> "none"]
  /\ news' = [j \in Jobs |-> "none"]
  /\ report' = [j \in Jobs |-> "none"]
  /\ watcher' = [j \in Jobs |-> "none"]
  /\ stopping' = {}
  /\ scan' = {}
  /\ doomed' = {}
  /\ UNCHANGED <<kind, world>>

CreateNext(j) ==
  \/ RecordsHandle(j) \/ DockerCreates(j) \/ DockerStarts(j)
  \/ CreateFails(j) \/ FailsContext(j) \/ CreateReturns(j)
ReportNext(j) == CompleteRemoves(j) \/ CompleteReports(j)
WatcherNext(j) == WatcherChecks(j) \/ WatcherForces(j) \/ WatcherCleans(j)
CallerNext(j) ==
  PollEnds(j) \/ PollTimesOut(j) \/ PollGivesUp(j) \/ MonitorHears(j) \/ MonitorTimesOut(j)
ReaperNext == ReaperLists \/ \E j \in Jobs : ReaperChecks(j) \/ ReaperRemoves(j)

Next ==
  \/ \E j \in Jobs :
       \/ Restart(j) \/ \E k \in {"wait", "watch"} : StartFromTool(j, k)
       \/ CreateNext(j) \/ ReportNext(j) \/ WatcherNext(j) \/ CallerNext(j)
       \/ \E who \in Stoppers : StopMarks(who, j)
       \/ MonitorLags(j)
       \/ \E o \in Outcomes : WorkerPosts(j, o)
       \/ CompleteStores(j) \/ Exits(j) \/ Ages(j)
       \/ \E web \in BOOLEAN : Cancel(j, web)
  \/ ReaperNext
  \/ Crash

Spec == Init /\ [][Next]_vars

\* Tasks of the agent run to their end, the reaper scans, time passes; a worker owes
\* nothing, the watcher notices at least that a container stopped, and Docker does not
\* refuse the reaper for ever.
Fairness ==
  /\ \A j \in Jobs :
       /\ WF_vars(CreateNext(j)) /\ WF_vars(ReportNext(j))
       /\ \A who \in Stoppers : WF_vars(StopMarks(who, j))
       /\ WF_vars(CallerNext(j)) /\ WF_vars(Ages(j))
       /\ WF_vars(WatcherNext(j) /\ docker[j] # "running")
       /\ SF_vars(ReaperRemoves(j) /\ docker'[j] = "none")
  /\ WF_vars(ReaperNext)

FairSpec == Spec /\ Fairness

-----------------------------------------------------------------------------
(* Properties *)

\* Every variable has its type.
TypeOK ==
  /\ kind \in [Jobs -> {"none", "wait", "watch", "restart"}]
  /\ ctx \in [Jobs -> {"none", "InProgress", "Completed", "Stuck"} \cup Terminal]
  /\ handle \in [Jobs -> [state : {"absent", "Creating", "Running", "Stopped"}, id : BOOLEAN,
                          result : {"none"} \cup Outcomes]]
  /\ token \subseteq Jobs
  /\ docker \in [Jobs -> {"none", "created", "running", "exited"}]
  /\ old \subseteq Jobs
  /\ create \in [Jobs -> {"idle", "begun", "recorded", "created", "started", "failed", "done"}]
  /\ caller \in [Jobs -> {"none", "wait", "late", "watch", "done"}]
  /\ news \in [Jobs -> {"none"} \cup Outcomes]
  /\ outcome \in [Jobs -> {"none"} \cup Outcomes]
  /\ report \in [Jobs -> {"none", "stored", "removed", "done"}]
  /\ watcher \in [Jobs -> {"none", "waiting", "forcing", "forced", "done"}]
  /\ stopping \subseteq Stoppers \X Jobs
  /\ scan \subseteq Jobs /\ doomed \subseteq Jobs
  /\ crashes \in 0..MaxCrashes

\* "any non-terminal state prevents reaping": although the reaper asks first and
\* removes later, the job of a container it removes is not active at that moment.
ReapsOnlyInactive ==
  [][\A j \in Jobs : ReaperRemoves(j) => ctx[j] \in {"none", "Failed", "Cancelled"}]_vars

\* The result a worker reported stays with the handle until the caller takes it,
\* whatever exit watcher, cancellation and reaper do at the same time (complete_job,
\* exit watcher, stop_job).
ResultKept ==
  [][\A j \in Jobs :
       handle[j].result \in {"ok", "stuck"} =>
         handle'[j] = NoHandle \/ handle'[j].result = handle[j].result]_vars

\* No container and no token outlives its job for good: those of a failed, cancelled
\* or unknown job are removed, also when the container was being created as the job
\* was cancelled, when starting it failed, and after a crash (reaper.rs).
InactiveGoes ==
  \A j \in Jobs :
    (~IsActive(j) /\ (docker[j] # "none" \/ j \in token)) ~> (docker[j] = "none" /\ j \notin token)

=============================================================================
