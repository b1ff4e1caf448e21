------------------------- MODULE ContainerJobsProofs -------------------------
(* Type correctness of the container jobs, and two promises about tasks that  *)
(* race for the end of a job: the reaper removes no container of an active    *)
(* job, and a reported result is not overwritten.  For any number of jobs and *)
(* crashes.                                                                   *)
EXTENDS ContainerJobs, TLAPS

States == {"none", "InProgress", "Completed", "Stuck"} \cup Terminal
Inactive == {"none", "Failed", "Cancelled"}
Targets == {"Completed", "Failed", "Stuck", "Cancelled"}
Containers == {"none", "created", "running", "exited"}

-----------------------------------------------------------------------------
(* The operators several tasks use *)

LEMMA FinalStateType == \A o : FinalState(o) \in Targets
  BY DEF FinalState, Targets

LEMMA TransitionSound ==
  ASSUME ctx \in [Jobs -> States \ {"Accepted"}],
         NEW j \in Jobs, NEW t \in Targets, Transition(j, t)
  PROVE  /\ ctx' \in [Jobs -> States \ {"Accepted"}]
         /\ \A k \in Jobs : ctx[k] \in Inactive => ctx'[k] = ctx[k]
  <1>1. After(ctx[j], t) \in States \ {"Accepted"}
    BY DEF After, States, Targets, Terminal
  <1>2. ctx[j] \in Inactive => After(ctx[j], t) = ctx[j]
    BY DEF After, CanTransition, Inactive
  <1> QED
    BY <1>1, <1>2 DEF Transition

LEMMA BroadcastSound ==
  ASSUME news \in [Jobs -> {"none"} \cup Outcomes], NEW j \in Jobs,
         NEW o \in {"none"} \cup Outcomes, Broadcast(j, o)
  PROVE  news' \in [Jobs -> {"none"} \cup Outcomes]
  BY DEF Broadcast

LEMMA RemovalSound ==
  ASSUME docker \in [Jobs -> Containers], NEW j \in Jobs, Removal(j)
  PROVE  /\ docker' \in [Jobs -> Containers]
         /\ \A k \in Jobs : docker[k] = "none" => docker'[k] = "none"
  <1>1. \A c \in AfterRemoval(docker[j]) :
          c \in Containers /\ (docker[j] = "none" => c = "none")
    BY DEF AfterRemoval, Containers
  <1> QED
    BY <1>1 DEF Removal

-----------------------------------------------------------------------------
(* The inductive invariant *)

\* What has not been started has no container, and the reaper knows nothing of it.
Born ==
  \A j \in Jobs : create[j] = "idle" => docker[j] = "none" /\ j \notin scan \cup doomed

\* A container the reaper has condemned belongs to no active job, and cannot again:
\* only a job that was never started becomes active.
Condemned == \A j \in doomed : ctx[j] \in Inactive

\* A handle appears with its creation, and a worker's result with its report.
Reported ==
  \A j \in Jobs :
    /\ create[j] \in {"idle", "begun"} => handle[j] = NoHandle
    /\ handle[j].result \in {"ok", "stuck"} => report[j] # "none"

IInv ==
  /\ TypeOK
  /\ ctx \in [Jobs -> States \ {"Accepted"}]
  /\ Born
  /\ Condemned
  /\ Reported

LEMMA InitIInv == Init => IInv
  <1> SUFFICES ASSUME Init PROVE IInv
    OBVIOUS
  <1>1. TypeOK
    BY CrashAssumption DEF Init, TypeOK, NoHandle, Outcomes
  <1> QED
    BY <1>1 DEF Init, IInv, States, Terminal, Born, Condemned, Reported, NoHandle

-----------------------------------------------------------------------------
(* What a step does, by the part of the state it touches *)

\* Contexts, containers, reaper and creation.
CtxStep ==
  /\ ctx' \in [Jobs -> States \ {"Accepted"}]
  /\ \A k \in Jobs : ctx[k] \in Inactive => ctx'[k] = ctx[k]
DockerStep ==
  /\ docker' \in [Jobs -> Containers]
  /\ \A k \in Jobs : create'[k] = "idle" /\ docker[k] = "none" => docker'[k] = "none"
CreateStep ==
  /\ create' \in [Jobs -> {"idle", "begun", "recorded", "created", "started", "failed", "done"}]
  /\ \A k \in Jobs : create'[k] \in {"idle", "begun"} => create'[k] = create[k]

\* Handles: a result that a worker reported stays, or goes with the handle.
HandleType == [state : {"absent", "Creating", "Running", "Stopped"}, id : BOOLEAN,
               result : {"none"} \cup Outcomes]
HandleStep ==
  /\ handle' \in [Jobs -> HandleType]
  /\ report' \in [Jobs -> {"none", "stored", "removed", "done"}]
  /\ \A k \in Jobs :
       /\ create'[k] \in {"idle", "begun"} => handle'[k] = handle[k] \/ handle'[k] = NoHandle
       /\ handle'[k].result \in {"ok", "stuck"} =>
            handle'[k].result = handle[k].result \/ report'[k] # "none"
       /\ report'[k] = "none" => report[k] = "none" \/ handle'[k] = NoHandle
       /\ handle[k].result \in {"ok", "stuck"} =>
            handle'[k] = NoHandle \/ handle'[k].result = handle[k].result

\* The variables about which there is nothing to say but their type.
OtherType ==
  /\ kind \in [Jobs -> {"none", "wait", "watch", "restart"}]
  /\ token \subseteq Jobs
  /\ old \subseteq Jobs
  /\ caller \in [Jobs -> {"none", "wait", "late", "watch", "done"}]
  /\ news \in [Jobs -> {"none"} \cup Outcomes]
  /\ outcome \in [Jobs -> {"none"} \cup Outcomes]
  /\ watcher \in [Jobs -> {"none", "waiting", "forcing", "forced", "done"}]
  /\ stopping \subseteq Stoppers \X Jobs
  /\ crashes \in 0..MaxCrashes

\* A step of any task but the start of a job, the reaper's choices and a crash.
Ordinary ==
  CtxStep /\ DockerStep /\ CreateStep /\ HandleStep /\ OtherType'
  /\ UNCHANGED scan /\ doomed' \subseteq doomed

LEMMA OrdinaryIInv == ASSUME IInv, Ordinary PROVE IInv'
  <1>1. TypeOK'
    BY DEF Ordinary, IInv, TypeOK, CtxStep, DockerStep, CreateStep, HandleStep, HandleType,
           OtherType, States, Containers
  <1>2. Born'
    BY DEF Ordinary, IInv, TypeOK, Born, DockerStep, CreateStep
  <1>3. Condemned'
    BY DEF Ordinary, IInv, TypeOK, Condemned, CtxStep
  <1>4. Reported'
    BY DEF Ordinary, IInv, TypeOK, Reported, CreateStep, HandleStep, NoHandle
  <1> QED
    BY <1>1, <1>2, <1>3, <1>4 DEF IInv, Ordinary, CtxStep

\* The parts of an ordinary step that hold because their variables do not change.
LEMMA Unchanged ==
  ASSUME IInv
  PROVE  /\ UNCHANGED ctx => CtxStep
         /\ UNCHANGED docker => DockerStep
         /\ UNCHANGED create => CreateStep
         /\ UNCHANGED <<handle, report>> => HandleStep
  <1>1. UNCHANGED ctx => CtxStep
    BY DEF IInv, CtxStep
  <1>2. UNCHANGED docker => DockerStep
    BY DEF IInv, TypeOK, DockerStep, Containers
  <1>3. UNCHANGED create => CreateStep
    BY DEF IInv, TypeOK, CreateStep
  <1>4. UNCHANGED <<handle, report>> => HandleStep
    BY DEF IInv, TypeOK, HandleStep, HandleType
  <1> QED
    BY <1>1, <1>2, <1>3, <1>4

LEMMA TransitionStep ==
  ASSUME IInv, NEW j \in Jobs, NEW t \in Targets, Transition(j, t)
  PROVE  CtxStep
  BY TransitionSound DEF IInv, CtxStep

LEMMA RemovalStep ==
  ASSUME IInv, NEW j \in Jobs, Removal(j)
  PROVE  DockerStep
  BY RemovalSound DEF IInv, TypeOK, DockerStep, Containers

\* A step moves the creation of one job past its beginning.
LEMMA CreateMoves ==
  ASSUME IInv, NEW j \in Jobs,
         NEW s \in {"recorded", "created", "started", "failed", "done"},
         create' = [create EXCEPT ![j] = s]
  PROVE  CreateStep
  BY DEF IInv, TypeOK, CreateStep

\* A step forgets a handle, or changes it without touching its result.
LEMMA HandleMoves ==
  ASSUME IInv, UNCHANGED report, NEW j \in Jobs, NEW h \in HandleType,
         handle' = [handle EXCEPT ![j] = h],
         h = NoHandle \/ h.result = handle[j].result
                      \/ (handle[j].result = "none" /\ h.result = "failed"),
         h = NoHandle \/ create'[j] \notin {"idle", "begun"}
  PROVE  HandleStep
  <1>1. handle \in [Jobs -> HandleType] /\ NoHandle.result = "none"
    BY DEF IInv, TypeOK, HandleType, NoHandle
  <1>2. handle' \in [Jobs -> HandleType] /\ handle'[j] = h
    BY <1>1
  <1>3. \A k \in Jobs \ {j} : handle'[k] = handle[k]
    BY <1>1
  <1>4. report' \in [Jobs -> {"none", "stored", "removed", "done"}]
    BY DEF IInv, TypeOK
  <1> QED
    BY <1>1, <1>2, <1>3, <1>4 DEF HandleStep

-----------------------------------------------------------------------------
LEMMA CreateOrdinary == ASSUME IInv, NEW j \in Jobs, CreateNext(j) PROVE Ordinary
  <1>1. CASE RecordsHandle(j)
    <2>1. handle[j] = NoHandle
      BY <1>1 DEF RecordsHandle, IInv, Reported
    <2>2. CreateStep
      BY <1>1, CreateMoves DEF RecordsHandle
    <2>3. HandleStep
      BY <1>1, <2>1 DEF RecordsHandle, IInv, TypeOK, HandleStep, HandleType, NoHandle
    <2>4. OtherType'
      BY <1>1 DEF RecordsHandle, IInv, TypeOK, OtherType, world
    <2> QED
      BY <1>1, <2>2, <2>3, <2>4, Unchanged DEF RecordsHandle, Ordinary, reaper, world
  <1>2. CASE DockerCreates(j) \/ DockerStarts(j)
    <2>1. CreateStep
      BY <1>2, CreateMoves DEF DockerCreates, DockerStarts
    <2>2. DockerStep
      BY <1>2, SMTT(30) DEF DockerCreates, DockerStarts, IInv, TypeOK, Containers, DockerStep
    <2>3. OtherType'
      BY <1>2 DEF DockerCreates, DockerStarts, IInv, TypeOK, OtherType, memory
    <2> QED
      BY <1>2, <2>1, <2>2, <2>3, Unchanged
      DEF DockerCreates, DockerStarts, Ordinary, reaper, memory
  <1>3. CASE CreateFails(j)
    <2>1. CreateStep
      BY <1>3, CreateMoves DEF CreateFails
    <2>2. HandleStep
      BY <1>3, HandleMoves DEF CreateFails, NoHandle, HandleType
    <2>3. OtherType'
      BY <1>3 DEF CreateFails, IInv, TypeOK, OtherType, world
    <2> QED
      BY <1>3, <2>1, <2>2, <2>3, Unchanged DEF CreateFails, Ordinary, reaper, world
  <1>4. CASE FailsContext(j)
    <2>1. CreateStep /\ CtxStep
      BY <1>4, CreateMoves, TransitionStep DEF FailsContext, Targets
    <2>2. OtherType'
      BY <1>4 DEF FailsContext, IInv, TypeOK, OtherType, world
    <2> QED
      BY <1>4, <2>1, <2>2, Unchanged DEF FailsContext, Ordinary, reaper, world
  <1>5. CASE CreateReturns(j)
    <2>1. CreateStep
      BY <1>5, CreateMoves DEF CreateReturns
    <2>2. HandleStep
      BY <1>5 DEF CreateReturns, IInv, TypeOK, HandleStep, HandleType
    <2>3. OtherType'
      BY <1>5 DEF CreateReturns, IInv, TypeOK, OtherType, world
    <2> QED
      BY <1>5, <2>1, <2>2, <2>3, Unchanged DEF CreateReturns, Ordinary, reaper, world
  <1> QED
    BY <1>1, <1>2, <1>3, <1>4, <1>5 DEF CreateNext

LEMMA WorkerOrdinary ==
  ASSUME IInv, NEW j \in Jobs,
         \/ \E o \in Outcomes : WorkerPosts(j, o)
         \/ CompleteStores(j) \/ ReportNext(j) \/ Exits(j) \/ Ages(j)
  PROVE  Ordinary
  <1>1. ASSUME NEW o \in Outcomes, WorkerPosts(j, o) PROVE Ordinary
    <2>1. news' \in [Jobs -> {"none"} \cup Outcomes]
      BY <1>1, BroadcastSound DEF WorkerPosts, IInv, TypeOK
    <2>2. OtherType'
      BY <1>1, <2>1 DEF WorkerPosts, IInv, TypeOK, OtherType, memory
    <2> QED
      BY <1>1, <2>2, Unchanged DEF WorkerPosts, Ordinary, reaper, memory
  <1>2. CASE CompleteStores(j)
    <2>1. handle[j].result \notin {"ok", "stuck"}
      BY <1>2 DEF CompleteStores, IInv, Reported
    <2>2. HandleStep
      BY <1>2, <2>1 DEF CompleteStores, IInv, TypeOK, Reported, Present, HandleStep, HandleType,
                        NoHandle
    <2>3. OtherType'
      BY <1>2 DEF CompleteStores, IInv, TypeOK, OtherType, world
    <2> QED
      BY <1>2, <2>2, <2>3, Unchanged DEF CompleteStores, Ordinary, reaper, world
  <1>3. CASE CompleteRemoves(j)
    <2>1. DockerStep
      BY <1>3, RemovalStep, Unchanged DEF CompleteRemoves
    <2>2. HandleStep
      BY <1>3 DEF CompleteRemoves, IInv, TypeOK, HandleStep, HandleType
    <2>3. OtherType'
      BY <1>3 DEF CompleteRemoves, IInv, TypeOK, OtherType
    <2> QED
      BY <1>3, <2>1, <2>2, <2>3, Unchanged DEF CompleteRemoves, Ordinary, reaper
  <1>4. CASE CompleteReports(j)
    <2>1. CtxStep
      BY <1>4, TransitionStep, FinalStateType DEF CompleteReports
    <2>2. HandleStep
      BY <1>4 DEF CompleteReports, IInv, TypeOK, HandleStep, HandleType
    <2>3. news' \in [Jobs -> {"none"} \cup Outcomes]
      BY <1>4, BroadcastSound DEF CompleteReports, IInv, TypeOK
    <2>4. OtherType'
      BY <1>4, <2>3 DEF CompleteReports, IInv, TypeOK, OtherType, world
    <2> QED
      BY <1>4, <2>1, <2>2, <2>4, Unchanged DEF CompleteReports, Ordinary, reaper, world
  <1>5. CASE Exits(j)
    <2>1. DockerStep
      BY <1>5 DEF Exits, IInv, TypeOK, DockerStep, Containers
    <2>2. OtherType'
      BY <1>5 DEF Exits, IInv, TypeOK, OtherType, memory, tasks
    <2> QED
      BY <1>5, <2>1, <2>2, Unchanged DEF Exits, Ordinary, reaper, memory, tasks
  <1>6. CASE Ages(j)
    <2>1. OtherType'
      BY <1>6 DEF Ages, IInv, TypeOK, OtherType, memory, tasks
    <2> QED
      BY <1>6, <2>1, Unchanged DEF Ages, Ordinary, reaper, memory, tasks
  <1> QED
    BY <1>1, <1>2, <1>3, <1>4, <1>5, <1>6 DEF ReportNext

LEMMA WatcherOrdinary == ASSUME IInv, NEW j \in Jobs, WatcherNext(j) PROVE Ordinary
  <1>1. CASE WatcherChecks(j)
    <2>1. OtherType'
      BY <1>1 DEF WatcherChecks, IInv, TypeOK, OtherType, memory, world
    <2> QED
      BY <1>1, <2>1, Unchanged DEF WatcherChecks, Ordinary, reaper, memory, world
  <1>2. CASE WatcherForces(j)
    <2>1. HandleStep
      <3>1. CASE Present(j)
        <4>0. create'[j] \notin {"idle", "begun"}
          BY <1>2, <3>1 DEF WatcherForces, IInv, Reported, Present, NoHandle
        <4>1. handle[j] \in HandleType
          BY DEF IInv, TypeOK, HandleType
        <4> DEFINE h == [state |-> "Stopped", id |-> handle[j].id,
                         result |-> ForcedResult(handle[j].result)]
        <4>2. h \in HandleType
          BY <4>1 DEF HandleType, ForcedResult, Outcomes
        <4>3. handle' = [handle EXCEPT ![j] = h]
          BY <1>2, <3>1 DEF WatcherForces
        <4>4. \/ h.result = handle[j].result
              \/ handle[j].result = "none" /\ h.result = "failed"
          BY DEF ForcedResult
        <4> HIDE DEF h
        <4> QED
          BY <1>2, <4>0, <4>2, <4>3, <4>4, HandleMoves DEF WatcherForces
      <3>2. CASE ~Present(j)
        <4>1. handle' = handle
          BY <1>2, <3>2 DEF WatcherForces, IInv, TypeOK
        <4> QED
          BY <1>2, <4>1, Unchanged DEF WatcherForces
      <3> QED
        BY <3>1, <3>2
    <2>2. OtherType'
      BY <1>2 DEF WatcherForces, IInv, TypeOK, OtherType, world
    <2> QED
      BY <1>2, <2>1, <2>2, Unchanged DEF WatcherForces, Ordinary, reaper, world
  <1>3. CASE WatcherCleans(j)
    <2>1. CtxStep
      BY <1>3, TransitionStep DEF WatcherCleans, Targets
    <2>2. DockerStep
      BY <1>3 DEF WatcherCleans, IInv, TypeOK, DockerStep, Containers
    <2>3. news' \in [Jobs -> {"none"} \cup Outcomes]
      BY <1>3, BroadcastSound DEF WatcherCleans, IInv, TypeOK, Outcomes
    <2>4. OtherType'
      BY <1>3, <2>3 DEF WatcherCleans, IInv, TypeOK, OtherType
    <2> QED
      BY <1>3, <2>1, <2>2, <2>4, Unchanged DEF WatcherCleans, Ordinary, reaper
  <1> QED
    BY <1>1, <1>2, <1>3 DEF WatcherNext

LEMMA CallerOrdinary ==
  ASSUME IInv, NEW j \in Jobs, CallerNext(j) \/ MonitorLags(j)
  PROVE  Ordinary
  <1>1. CASE PollEnds(j) \/ PollGivesUp(j)
    <2>1. CtxStep
      BY <1>1, TransitionStep, FinalStateType DEF PollEnds, PollGivesUp, Targets
    <2>2. HandleStep
      BY <1>1, HandleMoves DEF PollEnds, PollGivesUp, NoHandle, HandleType
    <2>3. OtherType'
      BY <1>1 DEF PollEnds, PollGivesUp, IInv, TypeOK, OtherType, world
    <2> QED
      BY <1>1, <2>1, <2>2, <2>3, Unchanged DEF PollEnds, PollGivesUp, Ordinary, reaper, world
  <1>2. CASE PollTimesOut(j)
    <2>1. DockerStep
      BY <1>2, RemovalStep DEF PollTimesOut
    <2>2. OtherType'
      BY <1>2 DEF PollTimesOut, IInv, TypeOK, OtherType, Stoppers, memory
    <2> QED
      BY <1>2, <2>1, <2>2, Unchanged DEF PollTimesOut, Ordinary, reaper, memory
  <1>3. CASE MonitorHears(j) \/ MonitorTimesOut(j)
    <2>1. CtxStep
      BY <1>3, TransitionStep, FinalStateType DEF MonitorHears, MonitorTimesOut, Targets
    <2>2. OtherType'
      BY <1>3 DEF MonitorHears, MonitorTimesOut, IInv, TypeOK, OtherType, world
    <2> QED
      BY <1>3, <2>1, <2>2, Unchanged
      DEF MonitorHears, MonitorTimesOut, Ordinary, reaper, world
  <1>4. CASE MonitorLags(j)
    <2>1. OtherType'
      BY <1>4 DEF MonitorLags, IInv, TypeOK, OtherType, memory, world
    <2> QED
      BY <1>4, <2>1, Unchanged DEF MonitorLags, Ordinary, reaper, memory, world
  <1> QED
    BY <1>1, <1>2, <1>3, <1>4 DEF CallerNext

LEMMA StopOrdinary ==
  ASSUME IInv, NEW j \in Jobs,
         \/ \E web \in BOOLEAN : Cancel(j, web)
         \/ \E who \in Stoppers : StopMarks(who, j)
  PROVE  Ordinary
  <1>1. ASSUME NEW web \in BOOLEAN, Cancel(j, web) PROVE Ordinary
    <2>1. CtxStep
      BY <1>1, TransitionStep, Unchanged DEF Cancel, Targets
    <2>2. DockerStep
      BY <1>1, RemovalStep, Unchanged DEF Cancel
    <2>3. stopping' \subseteq Stoppers \X Jobs
      BY <1>1 DEF Cancel, IInv, TypeOK, Stoppers
    <2>4. OtherType'
      BY <1>1, <2>3 DEF Cancel, IInv, TypeOK, OtherType
    <2> QED
      BY <1>1, <2>1, <2>2, <2>4, Unchanged DEF Cancel, Ordinary, reaper
  <1>2. ASSUME NEW who \in Stoppers, StopMarks(who, j) PROVE Ordinary
    <2>1. HandleStep
      <3>1. CASE Present(j)
        <4>0. create'[j] \notin {"idle", "begun"}
          BY <1>2, <3>1 DEF StopMarks, IInv, Reported, Present, NoHandle
        <4> DEFINE h == [handle[j] EXCEPT !.state = "Stopped"]
        <4>1. h \in HandleType /\ h.result = handle[j].result
          BY SMTT(30) DEF IInv, TypeOK, HandleType
        <4>2. handle' = [handle EXCEPT ![j] = h]
          BY <1>2, <3>1 DEF StopMarks
        <4> HIDE DEF h
        <4> QED
          BY <1>2, <4>0, <4>1, <4>2, HandleMoves DEF StopMarks
      <3>2. CASE ~Present(j)
        <4>1. handle' = handle
          BY <1>2, <3>2 DEF StopMarks, IInv, TypeOK
        <4> QED
          BY <1>2, <4>1, Unchanged DEF StopMarks
      <3> QED
        BY <3>1, <3>2
    <2>2. OtherType'
      BY <1>2 DEF StopMarks, IInv, TypeOK, OtherType, world
    <2> QED
      BY <1>2, <2>1, <2>2, Unchanged DEF StopMarks, Ordinary, reaper, world
  <1> QED
    BY <1>1, <1>2

LEMMA ReaperRemovesOrdinary == ASSUME IInv, NEW j \in Jobs, ReaperRemoves(j) PROVE Ordinary
  <1>1. DockerStep
    BY RemovalStep DEF ReaperRemoves
  <1>2. stopping' \subseteq Stoppers \X Jobs
    BY DEF ReaperRemoves, IInv, TypeOK, Stoppers
  <1>3. OtherType'
    BY <1>2 DEF ReaperRemoves, IInv, TypeOK, OtherType, memory
  <1> QED
    BY <1>1, <1>3, Unchanged DEF ReaperRemoves, Ordinary, memory

-----------------------------------------------------------------------------
(* The steps that are not ordinary: start, the reaper's choices, a crash *)

LEMMA StartIInv ==
  ASSUME IInv, NEW j \in Jobs,
         Restart(j) \/ \E k \in {"wait", "watch"} : StartFromTool(j, k)
  PROVE  IInv'
  <1>1. /\ create[j] = "idle"
        /\ create' = [create EXCEPT ![j] = "begun"]
        /\ ctx' \in {ctx, [ctx EXCEPT ![j] = "InProgress"]}
        /\ \E k \in {"restart", "wait", "watch"} : kind' = [kind EXCEPT ![j] = k]
        /\ UNCHANGED <<handle, token, caller, news, report, watcher, stopping, reaper, world,
                       crashes>>
    BY DEF Restart, StartFromTool, memory
  <1>2. ctx' \in [Jobs -> States \ {"Accepted"}]
    BY <1>1 DEF IInv, States
  <1>3. create' \in [Jobs -> {"idle", "begun", "recorded", "created", "started", "failed", "done"}]
    BY <1>1 DEF IInv, TypeOK
  <1>4. kind' \in [Jobs -> {"none", "wait", "watch", "restart"}]
    BY <1>1 DEF IInv, TypeOK
  <1>5. TypeOK'
    BY <1>1, <1>2, <1>3, <1>4 DEF IInv, TypeOK, States, reaper, world
  <1>6. Born' /\ Reported'
    BY <1>1 DEF IInv, TypeOK, Born, Reported, reaper, world
  <1>7. Condemned'
    BY <1>1 DEF IInv, TypeOK, Born, Condemned, reaper
  <1> QED
    BY <1>2, <1>5, <1>6, <1>7 DEF IInv

LEMMA ChoiceIInv ==
  ASSUME IInv, ReaperLists \/ \E j \in Jobs : ReaperChecks(j)
  PROVE  IInv'
  <1>1. UNCHANGED <<kind, memory, tasks, world, crashes>>
    BY DEF ReaperLists, ReaperChecks
  <1>2. scan' \subseteq Jobs /\ doomed' \subseteq Jobs
    BY DEF ReaperLists, ReaperChecks, IInv, TypeOK
  <1>3. TypeOK'
    BY <1>1, <1>2 DEF IInv, TypeOK, memory, tasks, world
  <1>4. Born'
    <2>1. CASE ReaperLists
      BY <1>1, <2>1 DEF ReaperLists, IInv, Born, tasks, world
    <2>2. CASE \E j \in Jobs : ReaperChecks(j)
      BY <1>1, <2>2 DEF ReaperChecks, IInv, Born, tasks, world
    <2> QED
      BY <2>1, <2>2
  <1>5. Condemned'
    BY <1>1 DEF ReaperLists, ReaperChecks, IsActive, IInv, TypeOK, Condemned, States, Terminal,
                Inactive, memory
  <1> QED
    BY <1>1, <1>3, <1>4, <1>5 DEF IInv, Reported, memory, tasks

LEMMA CrashIInv == ASSUME IInv, Crash PROVE IInv'
  <1>1. TypeOK'
    BY CrashAssumption DEF Crash, IInv, TypeOK, NoHandle, world
  <1>2. Born' /\ Condemned'
    BY DEF Crash, IInv, TypeOK, Born, Condemned, world
  <1>3. Reported'
    BY DEF Crash, Reported, NoHandle
  <1> QED
    BY <1>1, <1>2, <1>3 DEF Crash, IInv, States, Terminal

LEMMA StepKinds ==
  ASSUME IInv, Next
  PROVE  \/ Ordinary
         \/ \E j \in Jobs : Restart(j) \/ \E k \in {"wait", "watch"} : StartFromTool(j, k)
         \/ ReaperLists \/ \E j \in Jobs : ReaperChecks(j)
         \/ Crash
  BY CreateOrdinary, WorkerOrdinary, WatcherOrdinary, CallerOrdinary, StopOrdinary,
     ReaperRemovesOrdinary
  DEF Next, ReaperNext

LEMMA NextIInv == IInv /\ [Next]_vars => IInv'
  <1> SUFFICES ASSUME IInv, [Next]_vars PROVE IInv'
    OBVIOUS
  <1>1. CASE UNCHANGED vars
    BY <1>1 DEF vars, memory, tasks, reaper, world, IInv, TypeOK, Born, Condemned, Reported
  <1>2. CASE Next
    BY <1>2, StepKinds, OrdinaryIInv, StartIInv, ChoiceIInv, CrashIInv
  <1> QED
    BY <1>1, <1>2

LEMMA IInvHolds == Spec => []IInv
  BY InitIInv, NextIInv, PTL DEF Spec

-----------------------------------------------------------------------------
\* The container jobs are type correct in every reachable state.
THEOREM TypeCorrect == Spec => []TypeOK
  <1>1. IInv => TypeOK
    BY DEF IInv
  <1> QED
    BY IInvHolds, <1>1, PTL

\* The reaper decides on a context it read and removes later (reap_container); still
\* the job of a container it removes is not active at that moment, whatever creation,
\* reports, callers and cancellations do in between.
THEOREM ReaperSparesActive == Spec => ReapsOnlyInactive
  <1>1. IInv /\ [Next]_vars =>
          [\A j \in Jobs : ReaperRemoves(j) => ctx[j] \in {"none", "Failed", "Cancelled"}]_vars
    BY DEF IInv, Condemned, Inactive, ReaperRemoves
  <1> QED
    BY IInvHolds, <1>1, PTL DEF Spec, ReapsOnlyInactive

\* A result that a worker reported as a success or as stuck is not overwritten by exit
\* watcher, cancellation, timeout, reaper or a second report: it stays until its handle
\* goes (complete_job, exit watcher, stop_job).
THEOREM ResultsAreKept == Spec => ResultKept
  <1> DEFINE Kept == \A j \in Jobs : handle[j].result \in {"ok", "stuck"} =>
                       handle'[j] = NoHandle \/ handle'[j].result = handle[j].result
  <1>1. IInv /\ [Next]_vars => [Kept]_vars
    <2> SUFFICES ASSUME IInv, Next PROVE Kept
      OBVIOUS
    <2>1. CASE Ordinary
      BY <2>1 DEF Ordinary, HandleStep
    <2>2. CASE UNCHANGED handle
      BY <2>2
    <2>3. CASE Crash
      BY <2>3 DEF Crash
    <2> QED
      BY <2>1, <2>2, <2>3, StepKinds
      DEF Restart, StartFromTool, ReaperLists, ReaperChecks, memory
  <1> QED
    BY IInvHolds, <1>1, PTL DEF Spec, ResultKept

=============================================================================
