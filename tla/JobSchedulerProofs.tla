-------------------------- MODULE JobSchedulerProofs --------------------------
(* Type correctness of the job machinery, the refinement of JobSlots, and the *)
(* agreement of database and outcome, for any set of jobs, any limit, any     *)
(* capacity of a worker's channel and any number of workers and recoveries.   *)
EXTENDS JobScheduler, FiniteSetTheorems, TLAPS

\* The type invariant by the part of the state that a step touches, with the fact that
\* an entry of the scheduler's map has had a worker.
ContextOK ==
  /\ state \in [All -> JobStates \cup {"None"}]
  /\ attempts \in [All -> Nat]
TasksOK ==
  /\ registered \subseteq {j \in Jobs : started[j] # 0}
  /\ started \in [Jobs -> 0..MaxRuns]
  /\ worker \in [Jobs -> [Runs -> Stages]]
  /\ cleaner \in [Jobs -> [Runs -> {"none", "poll", "remove"}]]
InboxOK ==
  /\ inbox \in [Jobs -> [Runs -> Seq({"User", "Stop"})]]
  /\ \A j \in Jobs, r \in Runs : Len(inbox[j][r]) <= Capacity
StopOK ==
  \/ stop = NoStop
  \/ stop \in [pc : {"send", "wait"}, job : {j \in Jobs : started[j] # 0}]
DatabaseOK ==
  /\ writes \in [Jobs -> SUBSET JobStates]
  /\ stored \in [Jobs -> JobStates \cup {"None"}]
  /\ lost \subseteq Jobs
OtherOK ==
  /\ dispatch \in [Jobs -> {"none", "saving", "scheduling", "done"}]
  /\ repair \in [listed : SUBSET All, stuck : SUBSET [job : All, attempts : Nat]]
  /\ monitor \in [Containers -> {"none", "watching", "done"}]
  /\ cancelled \subseteq All

TypeInv == ContextOK /\ TasksOK /\ InboxOK /\ StopOK /\ DatabaseOK /\ OtherOK

LEMMA TypeInvTypes == TypeInv => TypeOK
  BY DEF TypeInv, ContextOK, TasksOK, InboxOK, StopOK, DatabaseOK, OtherOK, TypeOK

LEMMA InitTypeInv == Init => TypeInv
  <1> SUFFICES ASSUME Init PROVE TypeInv
    OBVIOUS
  <1> USE JobAssumption
  <1>1. ContextOK /\ TasksOK
    BY DEF Init, ContextOK, TasksOK, Stages, Runs
  <1>2. InboxOK
    BY DEF Init, InboxOK
  <1>3. StopOK /\ DatabaseOK /\ OtherOK
    BY DEF Init, StopOK, DatabaseOK, OtherOK
  <1> QED
    BY <1>1, <1>2, <1>3 DEF TypeInv

-----------------------------------------------------------------------------
(* Types of what the operations do *)

LEMMA JobsInAll == Jobs \subseteq All /\ Containers \subseteq All
  BY DEF All

LEMMA TransitionType ==
  ASSUME ContextOK, NEW j \in All, NEW t \in JobStates, TransitionTo(j, t)
  PROVE  state' \in [All -> JobStates \cup {"None"}]
  BY DEF ContextOK, TransitionTo

LEMMA MarkType ==
  ASSUME ContextOK, DatabaseOK, NEW j \in Jobs, NEW t \in JobStates, Mark(j, t)
  PROVE  /\ state' \in [All -> JobStates \cup {"None"}]
         /\ writes' \in [Jobs -> SUBSET JobStates]
  BY TransitionType, JobsInAll DEF Mark, DatabaseOK

LEMMA GotoType ==
  ASSUME TypeInv, NEW j \in Jobs, NEW r \in Runs, NEW stage \in Stages, Goto(j, r, stage)
  PROVE  TasksOK' /\ StopOK'
  BY DEF TypeInv, TasksOK, StopOK, Goto

LEMMA InboxMoves ==
  ASSUME InboxOK, NEW j \in Jobs, NEW r \in Runs, NEW q \in Seq({"User", "Stop"}),
         Len(q) <= Capacity, inbox' = [inbox EXCEPT ![j][r] = q]
  PROVE  InboxOK'
  BY DEF InboxOK

LEMMA SendType ==
  ASSUME TasksOK, InboxOK, NEW j \in Jobs, NEW m \in {"User", "Stop"}, Send(j, m)
  PROVE  InboxOK'
  <1> DEFINE r == started[j]
             q == Append(inbox[j][r], m)
  <1>1. r \in Runs
    BY JobAssumption DEF TasksOK, Send, Worker, Runs
  <1>2. inbox[j][r] \in Seq({"User", "Stop"}) /\ Len(inbox[j][r]) < Capacity
    BY <1>1 DEF InboxOK, Send
  <1>3. q \in Seq({"User", "Stop"}) /\ Len(q) <= Capacity
    BY <1>2, JobAssumption
  <1>4. inbox' = [inbox EXCEPT ![j][r] = q]
    BY DEF Send
  <1> HIDE DEF r, q
  <1> QED
    BY <1>1, <1>3, <1>4, InboxMoves

LEMMA StartWorkerType ==
  ASSUME TypeInv, NEW j \in Jobs, StartWorker(j), UNCHANGED stop
  PROVE  TasksOK' /\ InboxOK' /\ StopOK'
  <1>1. started[j] + 1 \in 1..MaxRuns
    BY DEF StartWorker, Runs
  <1>2. started' = [started EXCEPT ![j] = started[j] + 1]
    BY DEF StartWorker
  <1>3. \A k \in Jobs : started[k] # 0 => started'[k] # 0
    BY <1>1, <1>2 DEF TypeInv, TasksOK
  <1>4. TasksOK'
    <2>1. started' \in [Jobs -> 0..MaxRuns] /\ started'[j] # 0
      BY <1>1, <1>2 DEF TypeInv, TasksOK
    <2>2. registered' \subseteq {k \in Jobs : started'[k] # 0}
      BY <1>3, <2>1 DEF StartWorker, TypeInv, TasksOK
    <2>3. worker' \in [Jobs -> [Runs -> Stages]]
      BY <1>1 DEF StartWorker, TypeInv, TasksOK, Stages
    <2>4. cleaner' \in [Jobs -> [Runs -> {"none", "poll", "remove"}]]
      BY <1>1 DEF StartWorker, TypeInv, TasksOK
    <2> QED
      BY <2>1, <2>2, <2>3, <2>4 DEF TasksOK
  <1>5. StopOK'
    BY <1>3 DEF TypeInv, StopOK
  <1>6. InboxOK'
    BY DEF StartWorker, TypeInv, InboxOK
  <1> QED
    BY <1>4, <1>5, <1>6

LEMMA CleanerType ==
  ASSUME TypeInv, NEW j \in Jobs, NEW r \in Runs, NEW c \in {"none", "remove"},
         cleaner' = [cleaner EXCEPT ![j][r] = c],
         registered' \subseteq registered, UNCHANGED <<started, worker>>
  PROVE  TasksOK'
  BY DEF TypeInv, TasksOK

LEMMA RecoveryType ==
  ASSUME ContextOK, NEW j \in All, AttemptRecovery(j)
  PROVE  ContextOK'
  BY DEF ContextOK, AttemptRecovery, JobStates, Blocking

-----------------------------------------------------------------------------
(* One lemma for each group of actions *)

LEMMA WorkerType == ASSUME TypeInv, NEW j \in Jobs, NEW r \in Runs, WorkerNext(j, r) PROVE TypeInv'
  <1> USE DEF Stages
  <1>0. ContextOK /\ DatabaseOK
    BY DEF TypeInv
  <1>1. ASSUME NEW stage \in Stages, Goto(j, r, stage), UNCHANGED cancelled,
               state' \in [All -> JobStates \cup {"None"}],
               writes' \in [Jobs -> SUBSET JobStates], InboxOK'
        PROVE  TypeInv'
    BY <1>1, GotoType DEF TypeInv, ContextOK, DatabaseOK, OtherOK, Goto
  <1>2. UNCHANGED inbox => InboxOK'
    BY DEF TypeInv, InboxOK
  <1>3. UNCHANGED <<state, writes>> =>
          /\ state' \in [All -> JobStates \cup {"None"}]
          /\ writes' \in [Jobs -> SUBSET JobStates]
    BY DEF TypeInv, ContextOK, DatabaseOK
  <1>4. {"Completed", "Failed", "Stuck"} \subseteq JobStates
    BY DEF JobStates, Blocking, Terminal
  <1>5. CASE PlanInterrupted(j, r)
    <2>1. /\ inbox[j][r] \in Seq({"User", "Stop"}) /\ inbox[j][r] # <<>>
          /\ Len(inbox[j][r]) <= Capacity
      BY <1>5 DEF PlanInterrupted, TypeInv, InboxOK
    <2>2. Tail(inbox[j][r]) \in Seq({"User", "Stop"}) /\ Len(Tail(inbox[j][r])) <= Capacity
      BY <2>1, JobAssumption
    <2>3. InboxOK'
      BY <1>5, <2>2, InboxMoves DEF PlanInterrupted, TypeInv
    <2> QED
      BY <1>1, <1>3, <1>5, <2>3 DEF PlanInterrupted, AfterPlan
  <1>6. CASE CheckSignals(j, r)
    <2>1. <<>> \in Seq({"User", "Stop"}) /\ Len(<<>>) <= Capacity
      BY JobAssumption
    <2>2. inbox' = [inbox EXCEPT ![j][r] = <<>>] /\ InboxOK
      BY <1>6 DEF CheckSignals, TypeInv
    <2>3. InboxOK'
      BY <2>1, <2>2, InboxMoves
    <2> QED
      BY <1>1, <1>3, <1>6, <2>3 DEF CheckSignals
  <1>7. CASE Begins(j, r) \/ LlmContinues(j, r) \/ LlmFails(j, r) \/ Ends(j, r)
    BY <1>1, <1>2, <1>3, <1>7 DEF Begins, LlmContinues, LlmFails, Ends
  <1>8. CASE PlanFinishes(j, r)
    BY <1>0, <1>1, <1>2, <1>3, <1>4, <1>8, MarkType DEF PlanFinishes, AfterPlan
  <1>9. CASE LlmCompletes(j, r) \/ LlmOverBudget(j, r) \/ TimesOut(j, r)
             \/ MarksCompleted(j, r) \/ MarksFailed(j, r)
    BY <1>0, <1>1, <1>2, <1>4, <1>9, MarkType
    DEF LlmCompletes, LlmOverBudget, TimesOut, MarksCompleted, MarksFailed
  <1> QED
    BY <1>5, <1>6, <1>7, <1>8, <1>9 DEF WorkerNext

LEMMA CleanerNextType ==
  ASSUME TypeInv, NEW j \in Jobs, NEW r \in Runs, CleanerNext(j, r)
  PROVE  TypeInv'
  <1>1. /\ \E c \in {"none", "remove"} :
             cleaner' = [cleaner EXCEPT ![j][r] = c]
        /\ registered' \subseteq registered
        /\ UNCHANGED <<context, dispatch, started, worker, inbox, stop, database, repair,
                       monitor, cancelled>>
    BY DEF CleanerNext, CleanerPolls, CleanerGivesUp, CleanerRemoves
  <1>2. TasksOK'
    BY <1>1, CleanerType
  <1> QED
    BY <1>1, <1>2 DEF TypeInv, ContextOK, InboxOK, StopOK, DatabaseOK, OtherOK, context, database

LEMMA CommandType == ASSUME TypeInv, NEW j \in Jobs, CommandNext(j) PROVE TypeInv'
  <1> USE DEF context, tasks, database
  <1>0. j \in All /\ {"Pending", "InProgress", "Cancelled"} \subseteq JobStates
    BY JobsInAll DEF JobStates, Blocking, Terminal
  <1>1. CASE Create(j)
    BY <1>0, <1>1 DEF Create, TypeInv, ContextOK, TasksOK, InboxOK, StopOK, DatabaseOK, OtherOK
  <1>2. CASE Save(j)
    BY <1>0, <1>2 DEF Save, TypeInv, ContextOK, TasksOK, InboxOK, StopOK, DatabaseOK, OtherOK
  <1>8. CASE SaveFails(j)
    BY <1>8 DEF SaveFails, TypeInv, ContextOK, TasksOK, InboxOK, StopOK, DatabaseOK, OtherOK
  <1>3. CASE Schedule(j)
    <2>1. ContextOK' /\ OtherOK'
      BY <1>0, <1>3 DEF Schedule, TypeInv, ContextOK, OtherOK
    <2>2. TasksOK' /\ InboxOK' /\ StopOK'
      <3>1. CASE StartWorker(j)
        BY <1>3, <3>1, StartWorkerType DEF Schedule
      <3>2. CASE UNCHANGED tasks
        BY <1>3, <3>2 DEF Schedule, TypeInv, TasksOK, InboxOK, StopOK
      <3> QED
        BY <1>3, <3>1, <3>2 DEF Schedule
    <2> QED
      BY <1>3, <2>1, <2>2 DEF Schedule, TypeInv, DatabaseOK
  <1>4. CASE SendMessage(j)
    <2>1. InboxOK'
      BY <1>4, SendType DEF SendMessage, TypeInv
    <2> QED
      BY <1>4, <2>1 DEF SendMessage, TypeInv, ContextOK, TasksOK, StopOK, DatabaseOK, OtherOK
  <1>5. CASE StopTakes(j)
    <2>1. started[j] # 0
      BY <1>5 DEF StopTakes, TypeInv, TasksOK
    <2>2. StopOK'
      BY <1>5, <2>1 DEF StopTakes, StopOK
    <2> QED
      BY <1>0, <1>5, <2>2 DEF StopTakes, TypeInv, ContextOK, TasksOK, InboxOK, DatabaseOK, OtherOK
  <1>6. CASE StopMisses(j)
    BY <1>0, <1>6 DEF StopMisses, TypeInv, ContextOK, TasksOK, InboxOK, StopOK, DatabaseOK, OtherOK
  <1>7. CASE Help(j)
    <2>1. ContextOK'
      BY <1>0, <1>7, RecoveryType DEF Help, TypeInv
    <2> QED
      BY <1>7, <2>1 DEF Help, TypeInv, TasksOK, InboxOK, StopOK, DatabaseOK, OtherOK
  <1> QED
    BY <1>1, <1>2, <1>3, <1>4, <1>5, <1>6, <1>7, <1>8 DEF CommandNext

LEMMA StopType == ASSUME TypeInv, StopSends \/ StopCancels PROVE TypeInv'
  <1> DEFINE j == stop.job
             r == started[j]
  <1>0. stop \in [pc : {"send", "wait"}, job : {k \in Jobs : started[k] # 0}]
    BY DEF TypeInv, StopOK, NoStop, StopSends, StopCancels
  <1>1. j \in Jobs /\ j \in All /\ r \in Runs
    BY <1>0, JobsInAll, JobAssumption DEF TypeInv, TasksOK, Runs
  <1>2. CASE StopSends
    <2>1. InboxOK'
      BY <1>1, <1>2, SendType DEF StopSends, TypeInv, InboxOK
    <2>2. StopOK'
      BY <1>0, <1>2 DEF StopSends, StopOK
    <2> QED
      BY <1>2, <2>1, <2>2
      DEF StopSends, TypeInv, ContextOK, TasksOK, DatabaseOK, OtherOK, context, database
  <1>3. CASE StopCancels
    <2>0. "Cancelled" \in JobStates
      BY DEF JobStates, Terminal
    <2>1. ContextOK'
      BY <1>1, <1>3, <2>0, TransitionType DEF StopCancels, TypeInv, ContextOK
    <2>2. TasksOK'
      BY <1>1, <1>3 DEF StopCancels, TypeInv, TasksOK, Stages
    <2>3. DatabaseOK'
      BY <1>1, <1>3, <2>0 DEF StopCancels, TypeInv, DatabaseOK
    <2>4. StopOK' /\ InboxOK' /\ OtherOK'
      BY <1>3 DEF StopCancels, TypeInv, StopOK, InboxOK, OtherOK
    <2> QED
      BY <2>1, <2>2, <2>3, <2>4 DEF TypeInv
  <1> QED
    BY <1>2, <1>3

LEMMA RepairType == ASSUME TypeInv, RepairNext PROVE TypeInv'
  <1> USE DEF context, tasks, database
  <1>0. ASSUME ContextOK', repair' \in [listed : SUBSET All, stuck : SUBSET [job : All, attempts : Nat]],
               UNCHANGED <<dispatch, tasks, stop, database, monitor, cancelled>>
        PROVE  TypeInv'
    BY <1>0 DEF TypeInv, TasksOK, InboxOK, StopOK, DatabaseOK, OtherOK
  <1>1. /\ repair.listed \subseteq All
        /\ repair.stuck \subseteq [job : All, attempts : Nat]
        /\ repair \in [listed : SUBSET All, stuck : SUBSET [job : All, attempts : Nat]]
    BY DEF TypeInv, OtherOK
  <1>2. UNCHANGED context => ContextOK'
    BY DEF TypeInv, ContextOK
  <1>3. CASE RepairLists
    <2>1. repair' \in [listed : SUBSET All, stuck : SUBSET [job : All, attempts : Nat]]
      BY <1>1, <1>3 DEF RepairLists
    <2> QED
      BY <1>0, <1>2, <1>3, <2>1 DEF RepairLists
  <1>4. ASSUME NEW j \in All, RepairDetects(j) PROVE TypeInv'
    <2>1. ContextOK'
      BY <1>4 DEF RepairDetects, TypeInv, ContextOK, JobStates, Blocking
    <2>2. attempts[j] \in Nat
      BY DEF TypeInv, ContextOK
    <2>3. repair' \in [listed : SUBSET All, stuck : SUBSET [job : All, attempts : Nat]]
      BY <1>1, <1>4, <2>2 DEF RepairDetects
    <2> QED
      BY <1>0, <1>4, <2>1, <2>3 DEF RepairDetects
  <1>5. CASE RepairTimesOut
    BY <1>0, <1>2, <1>5 DEF RepairTimesOut
  <1>6. CASE RepairTries
    <2>1. PICK s \in repair.stuck :
            /\ repair' = [listed |-> {}, stuck |-> repair.stuck \ {s}]
            /\ AttemptRecovery(s.job) \/ UNCHANGED context
      BY <1>6 DEF RepairTries
    <2>2. ContextOK'
      BY <1>1, <1>2, <2>1, RecoveryType DEF TypeInv
    <2> QED
      BY <1>0, <1>1, <1>6, <2>1, <2>2 DEF RepairTries
  <1> QED
    BY <1>3, <1>4, <1>5, <1>6 DEF RepairNext

LEMMA NextTypeInv == TypeInv /\ [Next]_vars => TypeInv'
  <1> SUFFICES ASSUME TypeInv, [Next]_vars PROVE TypeInv'
    OBVIOUS
  <1> USE DEF context, tasks, database
  <1>1. ASSUME NEW j \in Jobs, Persists(j) PROVE TypeInv'
    <2>1. DatabaseOK'
      BY <1>1 DEF Persists, TypeInv, DatabaseOK
    <2> QED
      BY <1>1, <2>1 DEF Persists, TypeInv, ContextOK, TasksOK, InboxOK, StopOK, OtherOK
  <1>2. ASSUME NEW j \in Containers, Register(j) \/ MonitorEnds(j) PROVE TypeInv'
    <2>0. /\ j \in All /\ ContextOK /\ OtherOK
          /\ {"InProgress", "Completed", "Stuck", "Failed"} \subseteq JobStates
      BY JobsInAll DEF TypeInv, JobStates, Blocking, Terminal
    <2>1. ContextOK'
      <3>1. CASE Register(j)
        BY <2>0, <3>1 DEF Register, ContextOK
      <3>2. CASE MonitorEnds(j)
        BY <2>0, <3>2, TransitionType DEF MonitorEnds, ContextOK
      <3> QED
        BY <1>2, <3>1, <3>2
    <2>2. OtherOK'
      BY <1>2, <2>0 DEF Register, MonitorEnds, OtherOK
    <2> QED
      BY <1>2, <2>1, <2>2 DEF Register, MonitorEnds, TypeInv, TasksOK, InboxOK, StopOK, DatabaseOK
  <1>3. ASSUME NEW j \in All, ToolCancels(j) PROVE TypeInv'
    <2>1. ContextOK'
      BY <1>3, TransitionType DEF ToolCancels, TypeInv, ContextOK, JobStates, Terminal
    <2> QED
      BY <1>3, <2>1 DEF ToolCancels, TypeInv, TasksOK, InboxOK, StopOK, DatabaseOK, OtherOK
  <1>4. CASE UNCHANGED vars
    BY <1>4 DEF vars, TypeInv, ContextOK, TasksOK, InboxOK, StopOK, DatabaseOK, OtherOK
  <1> QED
    BY <1>1, <1>2, <1>3, <1>4, WorkerType, CleanerNextType, CommandType, StopType, RepairType
    DEF Next

\* TypeOK holds in every reachable state: among the rest, no channel of a worker
\* ever holds more messages than the scheduler gave it room for, and a stop in
\* progress is about a job that has had a worker.
THEOREM TypeCorrect == Spec => []TypeOK
  BY InitTypeInv, NextTypeInv, TypeInvTypes, PTL DEF Spec

-----------------------------------------------------------------------------
(* The slots *)

Held == {j \in All : state[j] \in Blocking}
Released == {j \in All : state[j] \notin Blocking \cup {"None"}}

\* One job moves and keeps the rule: it takes a slot only from nothing and only
\* while one is free, and a state without a slot is followed by such a state.
LEMMA SlotStep ==
  ASSUME ContextOK, NEW j \in All, NEW t,
         state' = [state EXCEPT ![j] = t],
         state[j] = "None" => t = "None" \/ (t \in Blocking /\ SlotFree),
         state[j] \in Blocking => t # "None",
         state[j] \notin Blocking \cup {"None"} => t \notin Blocking \cup {"None"}
  PROVE  [Slots!Next]_(Slots!slots)
  <1> USE DEF ContextOK
  <1>1. \A k \in All \ {j} : state'[k] = state[k]
    OBVIOUS
  <1>2. state'[j] = t
    OBVIOUS
  <1>3. "None" \notin Blocking
    BY DEF Blocking
  <1>4. CASE state[j] = "None" /\ t \in Blocking
    <2>1. Held' = Held \cup {j} /\ Released' = Released
      BY <1>1, <1>2, <1>3, <1>4 DEF Held, Released
    <2>2. j \notin Held \cup Released /\ Cardinality(Held) < MaxJobs
      BY <1>3, <1>4 DEF Held, Released, SlotFree
    <2>3. Slots!Cardinality(Held) = Cardinality(Held)
      BY DEF Slots!Cardinality, Cardinality
    <2>4. Slots!Take(j)
      BY <2>1, <2>2, <2>3 DEF Slots!Take, Held, Released
    <2> QED
      BY <2>4 DEF Slots!Next
  <1>5. CASE state[j] \in Blocking /\ t \notin Blocking
    <2>1. Held' = Held \ {j} /\ Released' = Released \cup {j}
      BY <1>1, <1>2, <1>5 DEF Held, Released
    <2>2. j \in Held
      BY <1>5 DEF Held
    <2>3. Slots!Release(j)
      BY <2>1, <2>2 DEF Slots!Release, Held, Released
    <2> QED
      BY <2>3 DEF Slots!Next
  <1>6. CASE ~(state[j] = "None" /\ t \in Blocking) /\ ~(state[j] \in Blocking /\ t \notin Blocking)
    <2>1. Held' = Held /\ Released' = Released
      BY <1>1, <1>2, <1>6 DEF Held, Released
    <2> QED
      BY <2>1 DEF Slots!slots, Held, Released
  <1> QED
    BY <1>4, <1>5, <1>6

\* A transition the state machine of JobState accepts never leads back into a slot.
LEMMA TransitionSlots ==
  ASSUME NEW s, NEW t, CanTransition(s, t)
  PROVE  /\ s # "None" /\ t # "None"
         /\ s \notin Blocking => t \notin Blocking
  BY DEF CanTransition, Transitions, Blocking

LEMMA TransitionStep ==
  ASSUME ContextOK, NEW j \in All, NEW t, TransitionTo(j, t)
  PROVE  [Slots!Next]_(Slots!slots)
  <1> DEFINE u == IF CanTransition(state[j], t) THEN t ELSE state[j]
  <1>1. state' = [state EXCEPT ![j] = u]
    BY DEF TransitionTo
  <1>2. /\ state[j] = "None" => u = "None"
        /\ state[j] \in Blocking => u # "None"
        /\ state[j] \notin Blocking \cup {"None"} => u \notin Blocking \cup {"None"}
    BY TransitionSlots DEF Blocking
  <1> HIDE DEF u
  <1> QED
    BY <1>1, <1>2, SlotStep

LEMMA SameSlots == ASSUME UNCHANGED state PROVE [Slots!Next]_(Slots!slots)
  BY DEF Slots!slots

LEMMA RecoverySlots ==
  ASSUME ContextOK, NEW j \in All, AttemptRecovery(j), state[j] \in {"InProgress", "Stuck"}
  PROVE  [Slots!Next]_(Slots!slots)
  BY SlotStep DEF AttemptRecovery, Blocking

LEMMA NextSlots == TypeInv /\ [Next]_vars => [Slots!Next]_(Slots!slots)
  <1> SUFFICES ASSUME TypeInv, [Next]_vars PROVE [Slots!Next]_(Slots!slots)
    OBVIOUS
  <1> USE DEF context
  <1>0. ContextOK /\ Jobs \subseteq All /\ Containers \subseteq All
    BY JobsInAll DEF TypeInv
  <1>1. ASSUME NEW j \in Jobs, NEW r \in Runs, WorkerNext(j, r) PROVE [Slots!Next]_(Slots!slots)
    <2>1. UNCHANGED state \/ \E t \in {"Completed", "Failed", "Stuck"} : TransitionTo(j, t)
      BY <1>1 DEF WorkerNext, Begins, PlanInterrupted, PlanFinishes, CheckSignals, LlmContinues,
                  LlmCompletes, LlmOverBudget, LlmFails, TimesOut, Ends, MarksCompleted,
                  MarksFailed, Mark
    <2> QED
      BY <1>0, <2>1, SameSlots, TransitionStep
  <1>2. ASSUME NEW j \in Jobs, CommandNext(j) PROVE [Slots!Next]_(Slots!slots)
    <2>1. CASE Create(j)
      BY <1>0, <2>1, SlotStep DEF Create, Blocking
    <2>2. CASE Schedule(j)
      <3>1. CASE UNCHANGED state
        BY <3>1, SameSlots
      <3>2. CASE CanTransition(state[j], "InProgress") /\ state' = [state EXCEPT ![j] = "InProgress"]
        <4>1. state[j] # "None" /\ state[j] \in Blocking
          BY <3>2, TransitionSlots DEF Blocking
        <4> QED
          BY <1>0, <3>2, <4>1, SlotStep
      <3> QED
        BY <2>2, <3>1, <3>2 DEF Schedule
    <2>3. CASE Help(j)
      BY <1>0, <2>3, RecoverySlots DEF Help
    <2>4. CASE Save(j) \/ SaveFails(j) \/ SendMessage(j) \/ StopTakes(j) \/ StopMisses(j)
      BY <2>4, SameSlots DEF Save, SaveFails, SendMessage, StopTakes, StopMisses
    <2> QED
      BY <1>2, <2>1, <2>2, <2>3, <2>4 DEF CommandNext
  <1>3. ASSUME NEW j \in Containers, Register(j) \/ MonitorEnds(j) PROVE [Slots!Next]_(Slots!slots)
    <2>1. CASE Register(j)
      BY <1>0, <2>1, SlotStep DEF Register, Blocking
    <2>2. CASE MonitorEnds(j)
      BY <1>0, <2>2, TransitionStep DEF MonitorEnds
    <2> QED
      BY <1>3, <2>1, <2>2
  <1>4. ASSUME NEW j \in All, ToolCancels(j) PROVE [Slots!Next]_(Slots!slots)
    BY <1>0, <1>4, TransitionStep DEF ToolCancels
  <1>5. CASE StopCancels
    <2>1. stop.job \in Jobs
      BY <1>5 DEF StopCancels, TypeInv, StopOK, NoStop
    <2> QED
      BY <1>0, <1>5, <2>1, TransitionStep DEF StopCancels
  <1>6. CASE RepairNext
    <2>1. CASE RepairTries
      <3>1. PICK s \in repair.stuck :
              \/ state[s.job] \in {"InProgress", "Stuck"} /\ AttemptRecovery(s.job)
              \/ UNCHANGED state
        BY <2>1 DEF RepairTries
      <3>2. s.job \in All
        BY DEF TypeInv, OtherOK
      <3> QED
        BY <1>0, <3>1, <3>2, RecoverySlots, SameSlots
    <2>2. ASSUME NEW j \in All, RepairDetects(j) PROVE [Slots!Next]_(Slots!slots)
      <3>1. CASE UNCHANGED state
        BY <3>1, SameSlots
      <3>2. CASE state[j] \in {"InProgress", "Stuck"} /\ state' = [state EXCEPT ![j] = "Stuck"]
        BY <1>0, <3>2, SlotStep DEF Blocking
      <3> QED
        BY <2>2, <3>1, <3>2 DEF RepairDetects
    <2>3. CASE RepairLists \/ RepairTimesOut
      BY <2>3, SameSlots DEF RepairLists, RepairTimesOut
    <2> QED
      BY <1>6, <2>1, <2>2, <2>3 DEF RepairNext
  <1>7. ASSUME NEW j \in Jobs, NEW r \in Runs, CleanerNext(j, r) PROVE [Slots!Next]_(Slots!slots)
    BY <1>7, SameSlots DEF CleanerNext, CleanerPolls, CleanerGivesUp, CleanerRemoves
  <1>8. CASE UNCHANGED vars \/ StopSends \/ \E j \in Jobs : Persists(j)
    BY <1>8, SameSlots DEF vars, StopSends, Persists
  <1> QED
    BY <1>1, <1>2, <1>3, <1>4, <1>5, <1>6, <1>7, <1>8 DEF Next

LEMMA InitSlots == Init => Slots!Init
  BY DEF Init, Slots!Init, Blocking

\* SlotsRefined holds of every behaviour: whatever schedulers, workers, repair loop,
\* monitors and cancellations do to the contexts is a step of JobSlots or no step, so
\* the limit max_parallel_jobs is kept and a slot given back is not taken again.
THEOREM SlotsAreKept == Spec => SlotsRefined
  BY InitTypeInv, NextTypeInv, InitSlots, NextSlots, PTL DEF Spec, SlotsRefined, Slots!Spec

\* The limit itself, which JobSlots keeps by counting.
Limit == Cardinality(Held) <= MaxJobs

LEMMA LimitStep == Limit /\ [Slots!Next]_(Slots!slots) => Limit'
  <1> SUFFICES ASSUME Limit, [Slots!Next]_(Slots!slots) PROVE Limit'
    OBVIOUS
  <1>1. IsFiniteSet(Held)
    <2>1. IsFiniteSet(All)
      BY JobAssumption, FS_Union DEF All
    <2> QED
      BY <2>1, FS_Subset DEF Held
  <1>2. Cardinality(Held) \in Nat /\ MaxJobs \in Nat
    BY <1>1, FS_CardinalityType, JobAssumption
  <1>3. ASSUME NEW j \in All, Slots!Take(j) PROVE Limit'
    <2>1. Slots!Cardinality(Held) = Cardinality(Held)
      BY DEF Slots!Cardinality, Cardinality
    <2>2. Held' = Held \cup {j} /\ Cardinality(Held) < MaxJobs
      BY <1>3, <2>1 DEF Slots!Take, Held
    <2>3. Cardinality(Held \cup {j}) = IF j \in Held THEN Cardinality(Held) ELSE Cardinality(Held) + 1
      BY <1>1, FS_AddElement
    <2>4. Cardinality(Held \cup {j}) <= MaxJobs
      BY <1>2, <2>2, <2>3
    <2> QED
      BY <2>2, <2>4 DEF Limit
  <1>4. ASSUME NEW j \in All, Slots!Release(j) PROVE Limit'
    <2>1. Held' = Held \ {j}
      BY <1>4 DEF Slots!Release, Held
    <2>2. Cardinality(Held \ {j}) = IF j \in Held THEN Cardinality(Held) - 1 ELSE Cardinality(Held)
      BY <1>1, FS_RemoveElement
    <2>3. Cardinality(Held \ {j}) <= MaxJobs
      BY <1>2, <2>2 DEF Limit
    <2> QED
      BY <2>1, <2>3 DEF Limit
  <1>5. CASE UNCHANGED Slots!slots
    BY <1>5 DEF Slots!slots, Limit, Held
  <1> QED
    BY <1>3, <1>4, <1>5 DEF Slots!Next

\* Never more than max_parallel_jobs contexts are in a parallel-blocking state.
THEOREM LimitKept == Spec => []Limit
  <1>1. Init => Limit
    <2> SUFFICES ASSUME Init PROVE Limit
      OBVIOUS
    <2>1. Held = {}
      BY DEF Init, Held, Blocking
    <2> QED
      BY <2>1, FS_EmptySet, JobAssumption DEF Limit
  <1> QED
    BY <1>1, InitTypeInv, NextTypeInv, NextSlots, LimitStep, PTL DEF Spec

-----------------------------------------------------------------------------
(* The database and the outcome *)

\* Which workers there have been, and how far the call that created the job is.
Started(j) ==
  /\ \A r \in Runs : worker[j][r] # "none" => r <= started[j]
  /\ state[j] = "None" => started[j] = 0
  /\ dispatch[j] = "saving" => state[j] \in {"Pending", "Cancelled"} /\ started[j] = 0
  /\ attempts[j] = 0 =>
       /\ started[j] \in {0, 1}
       /\ started[j] = 1 => dispatch[j] = "done" /\ stored[j] # "None"
       /\ dispatch[j] = "scheduling" => stored[j] # "None"

\* A job with its first worker and no cancellation: nothing is written before its
\* outcome, except by a worker that is gone, so the row says Pending until then; its
\* outcome is the only thing to be written, and has been written or lost once nothing
\* is; and the worker of a completed job marks it no more.
Outcome(j) ==
  j \notin cancelled /\ attempts[j] = 0 =>
    /\ state[j] \in {"Completed", "Failed"} =>
         /\ writes[j] \subseteq {state[j]}
         /\ stored[j] \in {"None", "Pending", state[j]}
         /\ writes[j] = {} /\ stored[j] = "Pending" => j \in lost
    /\ state[j] \notin {"Completed", "Failed"} /\ worker[j][1] # "gone" =>
         writes[j] = {} /\ stored[j] \in {"None", "Pending"}
    /\ state[j] = "Completed" => worker[j][1] \in {"ended", "gone"}

OutcomeInv ==
  /\ \A j \in Jobs : Started(j) /\ Outcome(j)
  /\ stop.pc # "idle" => stop.job \in cancelled

LEMMA InitOutcomeInv == Init => OutcomeInv
  BY JobAssumption DEF Init, OutcomeInv, Started, Outcome, NoStop, Runs, All

\* What OutcomeInv says of one job depends on this, and on its cancellation.
JobView(k) ==
  <<state[k], attempts[k], dispatch[k], started[k], worker[k], writes[k], stored[k], k \in lost>>

LEMMA OneJob ==
  ASSUME OutcomeInv, NEW j, \A k \in Jobs \ {j} : UNCHANGED JobView(k),
         cancelled \subseteq cancelled', j \in Jobs => Started(j)' /\ Outcome(j)'
  PROVE  \A k \in Jobs : Started(k)' /\ Outcome(k)'
  <1>1. ASSUME NEW k \in Jobs \ {j} PROVE Started(k)' /\ Outcome(k)'
    <2>1. /\ state'[k] = state[k] /\ attempts'[k] = attempts[k] /\ dispatch'[k] = dispatch[k]
          /\ started'[k] = started[k] /\ worker'[k] = worker[k] /\ writes'[k] = writes[k]
          /\ stored'[k] = stored[k] /\ (k \in lost' <=> k \in lost)
      BY <1>1 DEF JobView
    <2>2. Started(k) /\ Outcome(k)
      BY DEF OutcomeInv
    <2>3. Started(k)'
      BY <2>1, <2>2 DEF Started
    <2>4. Outcome(k)'
      BY <2>1, <2>2 DEF Outcome
    <2> QED
      BY <2>3, <2>4
  <1> QED
    BY <1>1

\* A step of a worker that is neither the first of its job nor gone is of no concern
\* to Outcome; the first worker of a job that was saved is.
LEMMA LiveWorker ==
  ASSUME TypeInv, OutcomeInv, NEW j \in Jobs, NEW r \in Runs, worker[j][r] \notin {"none", "gone"}
  PROVE  /\ started[j] # 0 /\ r <= started[j] /\ state[j] # "None" /\ dispatch[j] # "saving"
         /\ attempts[j] = 0 => r = 1 /\ started[j] = 1 /\ stored[j] # "None"
         /\ attempts[j] = 0 /\ j \notin cancelled /\ state[j] \notin {"Completed", "Failed"} =>
              writes[j] = {} /\ stored[j] \in {"None", "Pending"}
  <1>1. Started(j) /\ Outcome(j) /\ started[j] \in 0..MaxRuns /\ r \in 1..MaxRuns
    BY DEF OutcomeInv, TypeInv, TasksOK, Runs
  <1>2. r <= started[j] /\ started[j] # 0
    BY <1>1 DEF Started
  <1>3. attempts[j] = 0 => r = 1 /\ started[j] = 1 /\ stored[j] # "None"
    BY <1>1, <1>2, JobAssumption DEF Started
  <1> QED
    BY <1>1, <1>2, <1>3 DEF Started, Outcome

\* a step that leaves the context alone
LEMMA QuietStep ==
  ASSUME TypeInv, OutcomeInv, NEW j \in Jobs, NEW r \in Runs, NEW stage \in Stages,
         worker[j][r] \notin {"none", "gone"}, Goto(j, r, stage),
         UNCHANGED <<state, writes, cancelled>>,
         attempts[j] = 0 /\ j \notin cancelled /\ state[j] = "Completed" => stage \in {"ended", "gone"}
  PROVE  OutcomeInv'
  <1>1. /\ worker' = [worker EXCEPT ![j][r] = stage]
        /\ UNCHANGED <<attempts, dispatch, started, stop, stored, lost>>
    BY DEF Goto
  <1>2. /\ worker'[j][r] = stage
        /\ \A q \in Runs \ {r} : worker'[j][q] = worker[j][q]
        /\ \A k \in Jobs \ {j} : worker'[k] = worker[k]
    BY <1>1 DEF TypeInv, TasksOK
  <1>3. Started(j) /\ Outcome(j)
    BY DEF OutcomeInv
  <1>4. Started(j)'
    BY <1>1, <1>2, <1>3, LiveWorker DEF Started
  <1>5. Outcome(j)'
    BY <1>1, <1>2, <1>3, LiveWorker DEF Outcome
  <1>6. \A k \in Jobs \ {j} : UNCHANGED JobView(k)
    BY <1>1, <1>2 DEF JobView
  <1>7. \A k \in Jobs : Started(k)' /\ Outcome(k)'
    BY <1>4, <1>5, <1>6, OneJob
  <1> QED
    BY <1>1, <1>7 DEF OutcomeInv

\* a step that marks the job: never one that is completed already, and one that
\* completes it is the worker's last
LEMMA MarkingStep ==
  ASSUME TypeInv, OutcomeInv, NEW j \in Jobs, NEW r \in Runs, NEW stage \in Stages,
         NEW t \in {"Completed", "Failed", "Stuck"},
         worker[j][r] \notin {"none", "ended", "gone"}, Goto(j, r, stage), Mark(j, t),
         UNCHANGED cancelled,
         t = "Stuck" => stage = "gone",
         t = "Completed" /\ CanTransition(state[j], t) => stage \in {"ended", "gone"}
  PROVE  OutcomeInv'
  <1>1. /\ worker' = [worker EXCEPT ![j][r] = stage]
        /\ UNCHANGED <<attempts, dispatch, started, stop, stored, lost>>
    BY DEF Goto
  <1>2. /\ worker'[j][r] = stage
        /\ \A q \in Runs \ {r} : worker'[j][q] = worker[j][q]
        /\ \A k \in Jobs \ {j} : worker'[k] = worker[k]
    BY <1>1 DEF TypeInv, TasksOK
  <1>3. Started(j) /\ Outcome(j)
    BY DEF OutcomeInv
  <1>4. /\ state'[j] = (IF CanTransition(state[j], t) THEN t ELSE state[j])
        /\ writes'[j] = (IF CanTransition(state[j], t) THEN writes[j] \cup {t} ELSE writes[j])
        /\ \A k \in Jobs \ {j} : state'[k] = state[k] /\ writes'[k] = writes[k]
    BY JobsInAll DEF Mark, TransitionTo, TypeInv, ContextOK, DatabaseOK
  <1>5. worker[j][r] \notin {"none", "gone"}
    OBVIOUS
  <1>6. CanTransition(state[j], t) => state[j] # "Failed" /\ t # "None"
    BY DEF CanTransition, Transitions
  <1>7. Started(j)'
    BY <1>1, <1>2, <1>3, <1>4, <1>5, LiveWorker DEF Started
  <1>8. Outcome(j)'
    <2> SUFFICES ASSUME j \notin cancelled, attempts[j] = 0 PROVE Outcome(j)'
      BY <1>1 DEF Outcome
    <2>1. r = 1 /\ state[j] # "Completed"
      BY <1>3, <1>5, LiveWorker DEF Outcome
    <2>2. CASE CanTransition(state[j], t)
      <3>1. writes[j] = {} /\ stored[j] \in {"None", "Pending"}
        BY <1>5, <1>6, <2>1, <2>2, LiveWorker
      <3>2. state'[j] = t /\ writes'[j] = {t} /\ stored'[j] = stored[j]
        BY <1>1, <1>4, <2>2, <3>1
      <3> QED
        BY <1>2, <2>1, <2>2, <3>1, <3>2 DEF Outcome
    <2>3. CASE ~CanTransition(state[j], t)
      <3>1. state'[j] = state[j] /\ writes'[j] = writes[j]
        BY <1>4, <2>3
      <3> QED
        BY <1>1, <1>2, <1>3, <1>5, <2>1, <3>1, LiveWorker DEF Outcome
    <2> QED
      BY <2>2, <2>3
  <1>9. \A k \in Jobs \ {j} : UNCHANGED JobView(k)
    BY <1>1, <1>2, <1>4 DEF JobView
  <1>10. \A k \in Jobs : Started(k)' /\ Outcome(k)'
    BY <1>7, <1>8, <1>9, OneJob
  <1> QED
    BY <1>1, <1>10 DEF OutcomeInv

LEMMA WorkerOutcome ==
  ASSUME TypeInv, OutcomeInv, NEW j \in Jobs, NEW r \in Runs, WorkerNext(j, r)
  PROVE  OutcomeInv'
  <1> USE DEF Stages
  <1>1. worker[j][r] \notin {"none", "gone"}
    BY DEF WorkerNext, Begins, PlanInterrupted, PlanFinishes, CheckSignals, LlmContinues,
           LlmCompletes, LlmOverBudget, LlmFails, TimesOut, Ends, MarksCompleted, MarksFailed
  <1>2. worker[j][r] # "ended" /\ attempts[j] = 0 /\ j \notin cancelled => state[j] # "Completed"
    BY <1>1, LiveWorker DEF OutcomeInv, Outcome
  <1>3. ASSUME NEW stage \in Stages, worker[j][r] # "ended", Goto(j, r, stage),
               UNCHANGED <<state, writes, cancelled>>
        PROVE  OutcomeInv'
    BY <1>1, <1>2, <1>3, QuietStep
  <1>4. ASSUME NEW stage \in Stages, NEW t \in {"Completed", "Failed", "Stuck"},
               worker[j][r] # "ended", Goto(j, r, stage), Mark(j, t), UNCHANGED cancelled,
               t = "Stuck" => stage = "gone",
               t = "Completed" /\ CanTransition(state[j], t) => stage \in {"ended", "gone"}
        PROVE  OutcomeInv'
    BY <1>1, <1>4, MarkingStep
  <1>5. CASE Begins(j, r) \/ PlanInterrupted(j, r) \/ CheckSignals(j, r) \/ LlmContinues(j, r)
             \/ LlmFails(j, r)
    BY <1>3, <1>5 DEF Begins, PlanInterrupted, AfterPlan, CheckSignals, LlmContinues, LlmFails
  <1>6. CASE Ends(j, r)
    BY <1>1, <1>6, QuietStep DEF Ends
  <1>7. CASE PlanFinishes(j, r)
    BY <1>3, <1>4, <1>7 DEF PlanFinishes, AfterPlan
  <1>8. CASE LlmCompletes(j, r)
    BY <1>4, <1>8 DEF LlmCompletes
  <1>9. CASE LlmOverBudget(j, r)
    BY <1>4, <1>9 DEF LlmOverBudget
  <1>10. CASE TimesOut(j, r)
    BY <1>4, <1>10 DEF TimesOut
  <1>11. CASE MarksCompleted(j, r) \/ MarksFailed(j, r)
    BY <1>4, <1>11 DEF MarksCompleted, MarksFailed
  <1> QED
    BY <1>5, <1>6, <1>7, <1>8, <1>9, <1>10, <1>11 DEF WorkerNext

\* what touches neither a job nor a cancellation
LEMMA SameOutcome ==
  ASSUME OutcomeInv, \A k \in Jobs : UNCHANGED JobView(k), UNCHANGED <<stop, cancelled>>
  PROVE  OutcomeInv'
  <1>1. ASSUME NEW k \in Jobs PROVE Started(k)' /\ Outcome(k)'
    <2>1. Started(k) /\ Outcome(k)
      BY DEF OutcomeInv
    <2> QED
      BY <2>1 DEF JobView, Started, Outcome
  <1> QED
    BY <1>1 DEF OutcomeInv

LEMMA CommandOutcome ==
  ASSUME TypeInv, OutcomeInv, NEW j \in Jobs, CommandNext(j) \/ Persists(j)
  PROVE  OutcomeInv'
  <1> USE DEF context, tasks, database
  <1>0. /\ Started(j) /\ Outcome(j) /\ 1 \in Runs
        /\ ContextOK /\ TasksOK /\ DatabaseOK /\ OtherOK
        /\ Jobs \subseteq All
    BY JobAssumption, JobsInAll DEF OutcomeInv, TypeInv, Runs
  <1>1. ASSUME \A k \in Jobs \ {j} : UNCHANGED JobView(k), cancelled \subseteq cancelled',
               UNCHANGED stop, Started(j)', Outcome(j)'
        PROVE  OutcomeInv'
    <2>1. \A k \in Jobs : Started(k)' /\ Outcome(k)'
      BY <1>1, OneJob
    <2> QED
      BY <1>1, <2>1 DEF OutcomeInv
  <1>2. CASE Create(j)
    <2>1. \A k \in Jobs \ {j} : UNCHANGED JobView(k)
      BY <1>0, <1>2 DEF Create, JobView, ContextOK, OtherOK
    <2>2. state'[j] = "Pending" /\ dispatch'[j] = "saving" /\ started[j] = 0
      BY <1>0, <1>2 DEF Create, ContextOK, OtherOK, Started
    <2>3. Started(j)'
      BY <1>0, <1>2, <2>2 DEF Create, Started
    <2>4. Outcome(j)'
      BY <1>0, <1>2, <2>2 DEF Create, Outcome
    <2> QED
      BY <1>1, <1>2, <2>1, <2>3, <2>4 DEF Create
  <1>3. CASE Save(j)
    <2>1. \A k \in Jobs \ {j} : UNCHANGED JobView(k)
      BY <1>0, <1>3 DEF Save, JobView, DatabaseOK, OtherOK
    <2>2. /\ stored'[j] = "Pending" /\ dispatch'[j] = "scheduling" /\ started[j] = 0
          /\ state[j] \in {"Pending", "Cancelled"}
      BY <1>0, <1>3 DEF Save, DatabaseOK, OtherOK, Started
    <2>3. Started(j)'
      BY <1>0, <1>3, <2>2 DEF Save, Started
    <2>4. Outcome(j)'
      BY <1>0, <1>3, <2>2 DEF Save, Outcome
    <2> QED
      BY <1>1, <1>3, <2>1, <2>3, <2>4 DEF Save
  <1>4. CASE SaveFails(j)
    <2>1. \A k \in Jobs \ {j} : UNCHANGED JobView(k)
      BY <1>0, <1>4 DEF SaveFails, JobView, OtherOK
    <2>2. dispatch'[j] = "done" /\ started[j] = 0
      BY <1>0, <1>4 DEF SaveFails, OtherOK, Started
    <2>3. Started(j)' /\ Outcome(j)'
      BY <1>0, <1>4, <2>2 DEF SaveFails, Started, Outcome
    <2> QED
      BY <1>1, <1>4, <2>1, <2>3 DEF SaveFails
  <1>5. CASE Schedule(j)
    <2>1. CASE UNCHANGED <<state, tasks>>
      <3>1. \A k \in Jobs \ {j} : UNCHANGED JobView(k)
        BY <1>0, <1>5, <2>1 DEF Schedule, JobView, OtherOK
      <3>2. dispatch[j] = "scheduling" /\ dispatch'[j] = "done"
        BY <1>0, <1>5 DEF Schedule, OtherOK
      <3>3. Started(j)' /\ Outcome(j)'
        BY <1>0, <1>5, <2>1, <3>2 DEF Schedule, Started, Outcome
      <3> QED
        BY <1>1, <1>5, <2>1, <3>1, <3>3 DEF Schedule
    <2>2. CASE /\ CanTransition(state[j], "InProgress")
               /\ state' = [state EXCEPT ![j] = "InProgress"]
               /\ StartWorker(j)
      <3> DEFINE q == started[j] + 1
      <3>1. /\ started' = [started EXCEPT ![j] = q]
            /\ worker' = [worker EXCEPT ![j][q] = "start"]
            /\ q \in Runs
        BY <2>2 DEF StartWorker
      <3>2. \A k \in Jobs \ {j} : UNCHANGED JobView(k)
        BY <1>0, <1>5, <2>2, <3>1 DEF Schedule, JobView, OtherOK, ContextOK, TasksOK
      <3>3. /\ dispatch[j] = "scheduling" /\ dispatch'[j] = "done" /\ state'[j] = "InProgress"
            /\ started'[j] = q /\ worker'[j] = [worker[j] EXCEPT ![q] = "start"]
            /\ UNCHANGED <<attempts, writes, stored, lost, cancelled, stop>>
        BY <1>0, <1>5, <2>2, <3>1 DEF Schedule, OtherOK, ContextOK, TasksOK
      <3>4. /\ worker[j] \in [Runs -> Stages] /\ started[j] \in 0..MaxRuns
        BY <1>0 DEF TasksOK
      <3>5. /\ attempts[j] = 0 => started[j] = 0 /\ q = 1 /\ stored[j] # "None"
            /\ state[j] \notin {"Completed", "Failed"}
        BY <1>0, <2>2, <3>3, <3>4 DEF Started, CanTransition, Transitions
      <3>6. Started(j)'
        BY <1>0, <3>1, <3>3, <3>4, <3>5, JobAssumption DEF Started, Runs
      <3>7. attempts[j] = 0 => worker[j][1] = "none"
        BY <1>0, <3>5 DEF Started, Runs
      <3>8. Outcome(j)'
        BY <1>0, <3>3, <3>4, <3>5, <3>7 DEF Outcome
      <3> QED
        BY <1>1, <3>2, <3>3, <3>6, <3>8
    <2> QED
      BY <1>5, <2>1, <2>2 DEF Schedule
  <1>6. CASE SendMessage(j)
    BY <1>6, SameOutcome DEF SendMessage, JobView
  <1>7. CASE StopTakes(j) \/ StopMisses(j)
    <2>1. j \in cancelled' /\ cancelled \subseteq cancelled'
      BY <1>7 DEF StopTakes, StopMisses
    <2>2. \A k \in Jobs \ {j} : UNCHANGED JobView(k)
      BY <1>0, <1>7 DEF StopTakes, StopMisses, JobView, DatabaseOK
    <2>3. Started(j)'
      BY <1>0, <1>7 DEF StopTakes, StopMisses, Started
    <2>4. Outcome(j)'
      BY <2>1 DEF Outcome
    <2>5. \A k \in Jobs : Started(k)' /\ Outcome(k)'
      BY <2>1, <2>2, <2>3, <2>4, OneJob
    <2>6. stop' = stop \/ stop'.job = j
      BY <1>7 DEF StopTakes, StopMisses
    <2> QED
      BY <2>1, <2>5, <2>6 DEF OutcomeInv
  <1>8. CASE Help(j)
    <2>1. \A k \in Jobs \ {j} : UNCHANGED JobView(k)
      BY <1>0, <1>8 DEF Help, AttemptRecovery, JobView, ContextOK, OtherOK
    <2>2. attempts'[j] # 0 /\ state'[j] = "InProgress" /\ dispatch'[j] = "scheduling"
      BY <1>0, <1>8 DEF Help, AttemptRecovery, ContextOK, OtherOK
    <2>3. Started(j)' /\ Outcome(j)'
      BY <1>0, <1>8, <2>2 DEF Help, Started, Outcome
    <2> QED
      BY <1>1, <1>8, <2>1, <2>3 DEF Help
  <1>9. CASE Persists(j)
    <2>1. PICK t \in writes[j] :
            /\ writes' = [writes EXCEPT ![j] = @ \ {t}]
            /\ \/ /\ stored' = [stored EXCEPT ![j] = IF @ = "None" THEN @ ELSE t]
                  /\ lost' = lost
               \/ lost' = lost \cup ({j} \ cancelled) /\ stored' = stored
      BY <1>9 DEF Persists
    <2>2. UNCHANGED <<state, attempts, dispatch, started, worker, stop, cancelled>>
      BY <1>9 DEF Persists
    <2>3. \A k \in Jobs \ {j} : UNCHANGED JobView(k)
      BY <1>0, <2>1, <2>2 DEF JobView, DatabaseOK
    <2>4. /\ \/ stored'[j] = (IF stored[j] = "None" THEN "None" ELSE t) /\ lost' = lost
             \/ stored'[j] = stored[j] /\ j \in lost' \cup cancelled
          /\ writes'[j] = writes[j] \ {t}
          /\ t # "None"
      BY <1>0, <2>1 DEF DatabaseOK, JobStates, Blocking, Terminal
    <2>5. Started(j)'
      BY <1>0, <2>2, <2>4 DEF Started
    <2>6. Outcome(j)'
      BY <1>0, <2>2, <2>4 DEF Outcome
    <2> QED
      BY <1>1, <2>2, <2>3, <2>5, <2>6
  <1> QED
    BY <1>2, <1>3, <1>4, <1>5, <1>6, <1>7, <1>8, <1>9 DEF CommandNext

\* what changes the context of one job: it is recovered, it stays out of an outcome,
\* or somebody cancels it
LEMMA ContextOutcome ==
  ASSUME TypeInv, OutcomeInv, NEW j \in All, NEW t \in JobStates,
         state' = [state EXCEPT ![j] = t], state[j] # "None", dispatch' = dispatch,
         cancelled \subseteq cancelled',
         t = "Cancelled" \/ (j \in Jobs => dispatch[j] # "saving"),
         \/ attempts' = [attempts EXCEPT ![j] = @ + 1]
         \/ attempts' = attempts /\ j \in cancelled'
         \/ attempts' = attempts /\ {state[j], t} \cap {"Completed", "Failed"} = {},
         UNCHANGED <<started, worker, writes, stored, lost, stop>>
  PROVE  OutcomeInv'
  <1>1. ContextOK /\ Jobs \subseteq All
    BY JobsInAll DEF TypeInv
  <1>2. \A k \in Jobs \ {j} : UNCHANGED JobView(k)
    BY <1>1 DEF JobView, ContextOK
  <1>3. ASSUME j \in Jobs PROVE Started(j)' /\ Outcome(j)'
    <2>1. Started(j) /\ Outcome(j)
      BY <1>3 DEF OutcomeInv
    <2>2. /\ state'[j] = t /\ t # "None"
          /\ attempts'[j] # 0 \/ attempts'[j] = attempts[j]
      BY <1>1 DEF ContextOK, JobStates, Blocking, Terminal
    <2>3. Started(j)'
      BY <1>3, <2>1, <2>2 DEF Started
    <2>4. attempts'[j] # 0 \/ j \in cancelled'
          \/ (attempts'[j] = attempts[j] /\ {state[j], t} \cap {"Completed", "Failed"} = {})
      BY <1>1 DEF ContextOK
    <2>5. Outcome(j)'
      BY <2>1, <2>2, <2>4 DEF Outcome
    <2> QED
      BY <2>3, <2>5
  <1>4. \A k \in Jobs : Started(k)' /\ Outcome(k)'
    BY <1>2, <1>3, OneJob
  <1> QED
    BY <1>4 DEF OutcomeInv

\* Scheduler::stop works on a job that is cancelled already
LEMMA StopOutcome == ASSUME TypeInv, OutcomeInv, StopCancels PROVE OutcomeInv'
  <1>1. stop \in [pc : {"send", "wait"}, job : {k \in Jobs : started[k] # 0}]
    BY DEF TypeInv, StopOK, NoStop, StopCancels
  <1>2. PICK j \in Jobs : j = stop.job
    BY <1>1
  <1> DEFINE r == started[j]
  <1>3. j \in All /\ r \in Runs /\ j \in cancelled
    BY <1>1, <1>2, JobsInAll, JobAssumption DEF TypeInv, TasksOK, Runs, OutcomeInv
  <1>4. /\ worker' = [worker EXCEPT ![j][r] = "gone"]
        /\ state' = [state EXCEPT ![j] = IF CanTransition(@, "Cancelled") THEN "Cancelled" ELSE @]
        /\ writes' = [writes EXCEPT ![j] = @ \cup {"Cancelled"}]
        /\ stop'.pc = "idle"
        /\ UNCHANGED <<attempts, dispatch, started, stored, lost, cancelled>>
    BY <1>2 DEF StopCancels, TransitionTo, NoStop
  <1>5. \A k \in Jobs \ {j} : UNCHANGED JobView(k)
    BY <1>3, <1>4, JobsInAll DEF JobView, TypeInv, ContextOK, TasksOK, DatabaseOK
  <1>6. Started(j)
    BY <1>3 DEF OutcomeInv
  <1>7. /\ \A q \in Runs : worker'[j][q] # "none" => worker[j][q] # "none" \/ q = started[j]
        /\ state'[j] = "Cancelled" \/ state'[j] = state[j]
    BY <1>3, <1>4 DEF TypeInv, ContextOK, TasksOK
  <1>8. r <= started[j] /\ started[j] # 0
    BY <1>1, <1>3, <1>2 DEF Runs
  <1>9. Started(j)' /\ Outcome(j)'
    BY <1>3, <1>4, <1>6, <1>7, <1>8 DEF Started, Outcome
  <1>10. \A k \in Jobs : Started(k)' /\ Outcome(k)'
    BY <1>4, <1>5, <1>9, OneJob
  <1> QED
    BY <1>4, <1>10 DEF OutcomeInv

LEMMA RepairOutcome == ASSUME TypeInv, OutcomeInv, RepairNext PROVE OutcomeInv'
  <1> USE DEF context, tasks, database
  <1>0. {"InProgress", "Stuck"} \subseteq JobStates
    BY DEF JobStates, Blocking
  <1>1. \A k \in Jobs : state[k] \in {"InProgress", "Stuck"} => dispatch[k] # "saving"
    BY DEF OutcomeInv, Started
  <1>2. ASSUME UNCHANGED <<context, dispatch, tasks, stop, database, cancelled>> PROVE OutcomeInv'
    BY <1>2, SameOutcome DEF JobView
  <1>3. CASE RepairLists \/ RepairTimesOut
    BY <1>2, <1>3 DEF RepairLists, RepairTimesOut
  <1>4. ASSUME NEW j \in All, RepairDetects(j) PROVE OutcomeInv'
    <2>1. CASE UNCHANGED state
      BY <1>2, <1>4, <2>1 DEF RepairDetects
    <2>2. CASE state[j] \in {"InProgress", "Stuck"} /\ state' = [state EXCEPT ![j] = "Stuck"]
      <3>1. /\ {state[j], "Stuck"} \cap {"Completed", "Failed"} = {}
            /\ UNCHANGED <<attempts, dispatch, cancelled, started, worker, writes, stored, lost, stop>>
        BY <1>4, <2>2 DEF RepairDetects
      <3> QED
        BY <1>0, <1>1, <2>2, <3>1, ContextOutcome
    <2> QED
      BY <1>4, <2>1, <2>2 DEF RepairDetects
  <1>5. CASE RepairTries
    <2>1. PICK s \in repair.stuck :
            \/ state[s.job] \in {"InProgress", "Stuck"} /\ AttemptRecovery(s.job)
            \/ UNCHANGED context
      BY <1>5 DEF RepairTries
    <2>2. s.job \in All
      BY DEF TypeInv, OtherOK
    <2>3. CASE UNCHANGED context
      BY <1>2, <1>5, <2>3 DEF RepairTries
    <2>4. CASE state[s.job] \in {"InProgress", "Stuck"} /\ AttemptRecovery(s.job)
      <3>1. /\ state' = [state EXCEPT ![s.job] = "InProgress"]
            /\ attempts' = [attempts EXCEPT ![s.job] = @ + 1]
            /\ UNCHANGED <<dispatch, cancelled, started, worker, writes, stored, lost, stop>>
        BY <1>5, <2>4 DEF RepairTries, AttemptRecovery
      <3> QED
        BY <1>0, <1>1, <2>2, <2>4, <3>1, ContextOutcome
    <2> QED
      BY <2>1, <2>3, <2>4
  <1> QED
    BY <1>3, <1>4, <1>5 DEF RepairNext

LEMMA NextOutcomeInv == TypeInv /\ OutcomeInv /\ [Next]_vars => OutcomeInv'
  <1> SUFFICES ASSUME TypeInv, OutcomeInv, [Next]_vars PROVE OutcomeInv'
    OBVIOUS
  <1> USE DEF context, tasks, database
  <1>1. ASSUME NEW j \in Containers, Register(j) \/ MonitorEnds(j) PROVE OutcomeInv'
    <2>1. j \notin Jobs
      BY JobAssumption
    <2>2. \A k \in Jobs : UNCHANGED JobView(k)
      BY <1>1, <2>1, JobsInAll DEF Register, MonitorEnds, TransitionTo, JobView, TypeInv, ContextOK
    <2> QED
      BY <1>1, <2>2, SameOutcome DEF Register, MonitorEnds
  <1>2. ASSUME NEW j \in All, ToolCancels(j) PROVE OutcomeInv'
    <2>1. /\ state' = [state EXCEPT ![j] = "Cancelled"]
          /\ state[j] # "None" /\ j \in cancelled' /\ cancelled \subseteq cancelled'
          /\ UNCHANGED <<attempts, dispatch, started, worker, writes, stored, lost, stop>>
      BY <1>2, TransitionSlots DEF ToolCancels, TransitionTo
    <2>2. "Cancelled" \in JobStates
      BY DEF JobStates, Terminal
    <2> QED
      BY <2>1, <2>2, ContextOutcome
  <1>3. CASE StopSends
    <2>1. stop'.job = stop.job /\ UNCHANGED cancelled /\ stop.pc # "idle"
      BY <1>3 DEF StopSends, TypeInv, StopOK, NoStop
    <2>2. ASSUME NEW k \in Jobs PROVE Started(k)' /\ Outcome(k)'
      <3>1. Started(k) /\ Outcome(k)
        BY DEF OutcomeInv
      <3> QED
        BY <1>3, <3>1 DEF StopSends, Started, Outcome
    <2> QED
      BY <2>1, <2>2 DEF OutcomeInv
  <1>4. ASSUME NEW j \in Jobs, NEW r \in Runs, CleanerNext(j, r) PROVE OutcomeInv'
    BY <1>4, SameOutcome DEF CleanerNext, CleanerPolls, CleanerGivesUp, CleanerRemoves, JobView
  <1>5. CASE UNCHANGED vars
    BY <1>5, SameOutcome DEF vars, JobView
  <1> QED
    BY <1>1, <1>2, <1>3, <1>4, <1>5, WorkerOutcome, CommandOutcome, StopOutcome, RepairOutcome
    DEF Next

LEMMA OutcomeInvAgrees == OutcomeInv => StoredAgrees
  BY DEF OutcomeInv, Outcome, StoredAgrees

\* StoredAgrees holds in every reachable state: the row of a job that nobody cancelled
\* or recovered ends with its outcome, or with Pending if an update failed, and never
\* with another outcome, in whatever order the spawned updates reach the database.
THEOREM DatabaseAgrees == Spec => []StoredAgrees
  BY InitTypeInv, NextTypeInv, InitOutcomeInv, NextOutcomeInv, OutcomeInvAgrees, PTL DEF Spec

=============================================================================
