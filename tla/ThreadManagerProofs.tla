-------------------------- MODULE ThreadManagerProofs --------------------------
(* Type correctness of the thread manager, and that two runs of a thread      *)
(* overlap only after an outcome was recorded twice: for any handlers,        *)
(* overlapping and aborted at any await, any number of runs and signals, and  *)
(* any capacity of the signal channels.                                       *)
EXTENDS ThreadManager, TLAPS

\* The steps in which a handler holds a run.
Holding == {"register_new", "register", "injecting", "stopping", "handle", "record"}
HoldsRun == \A h \in Handlers : handler[h].pc \in Holding => handler[h].run \in Runs

TypeInv == TypeOK /\ HoldsRun

Pcs == {"idle", "register_new", "register", "tag", "tag_save", "resume", "resume_save",
        "injecting", "stopping", "await", "join", "take", "handle", "record"}
HandlerRecord == [pc : Pcs, run : 0..MaxRuns, held : ThreadState]
HistoryRecord == [signals : 0..MaxSignals, recorded : SUBSET Runs, twice : BOOLEAN]

LEMMA InitTypeInv == Init => TypeInv
  BY ManagerAssumption DEF Init, TypeInv, TypeOK, HoldsRun, Holding, Idle, ThreadState, Runs

\* Where a handler goes: the record it gets, the others keep theirs.
LEMMA WithType ==
  ASSUME TypeInv, NEW h \in Handlers, NEW pc \in Pcs, NEW r \in 0..MaxRuns, NEW t \in ThreadState,
         handler' = [handler EXCEPT ![h] = [pc |-> pc, run |-> r, held |-> t]],
         pc \in Holding => r \in Runs
  PROVE  /\ handler' \in [Handlers -> HandlerRecord]
         /\ HoldsRun'
         /\ handler'[h] = [pc |-> pc, run |-> r, held |-> t]
         /\ \A g \in Handlers \ {h} : handler'[g] = handler[g]
  <1>1. handler \in [Handlers -> HandlerRecord] /\ HoldsRun
    BY DEF TypeInv, TypeOK, HandlerRecord, Pcs
  <1>2. [pc |-> pc, run |-> r, held |-> t] \in HandlerRecord
    BY DEF HandlerRecord
  <1>3. handler'[h] = [pc |-> pc, run |-> r, held |-> t]
    BY <1>1
  <1> QED
    BY <1>1, <1>2, <1>3 DEF HoldsRun

\* A step of a task leaves the handlers alone.
LEMMA TaskType == ASSUME TypeInv, NEW r \in Runs, TaskStep(r) PROVE TypeInv'
  <1> USE ManagerAssumption DEF TypeInv, TypeOK
  <1>0. r \in 0..MaxRuns /\ UNCHANGED <<handler, gate, used>> /\ HoldsRun'
    BY DEF Runs, TaskStep, TaskStarts, TaskReads, TaskEnds, TaskFinalSave, TaskPublishes,
           TaskRemoves, HoldsRun
  <1>1. CASE TaskStarts(r)
    BY <1>0, <1>1 DEF TaskStarts, TaskAt, SaveCopy, ThreadState
  <1>2. CASE TaskReads(r)
    BY <1>0, <1>2 DEF TaskReads
  <1>3. CASE TaskEnds(r)
    BY <1>0, <1>3 DEF TaskEnds, TaskAt, SaveCopy, ThreadState
  <1>4. CASE TaskFinalSave(r)
    <2>1. Transition(copy[r], "Done") \in ThreadState
      BY DEF Transition, ThreadState
    <2> QED
      BY <1>0, <1>4, <2>1 DEF TaskFinalSave, TaskAt, SaveCopy
  <1>5. CASE TaskPublishes(r) \/ TaskRemoves(r)
    BY <1>0, <1>5 DEF TaskPublishes, TaskRemoves, TaskAt
  <1> QED
    BY <1>1, <1>2, <1>3, <1>4, <1>5 DEF TaskStep

\* A step of a handler that starts no run.
LEMMA HandlerType ==
  ASSUME TypeInv, handler' \in [Handlers -> HandlerRecord], HoldsRun', store' \in ThreadState,
         chan' \in [Runs -> 0..Capacity], running' \in 0..MaxRuns, completed' \in 0..MaxRuns,
         gate' \in {"none", "waiting"}, used' \in HistoryRecord, UNCHANGED <<task, copy>>
  PROVE  TypeInv'
  BY DEF TypeInv, TypeOK, HandlerRecord, HistoryRecord, Pcs

LEMMA StartType ==
  ASSUME TypeInv, NEW h \in Handlers, NEW r \in Runs, NEW t \in ThreadState,
         NEW pc \in {"register_new", "register"}, StartRun(h, r, t, pc),
         UNCHANGED <<chan, running, completed, gate, used>>
  PROVE  TypeInv'
  <1>0. pc \in Pcs /\ r \in 0..MaxRuns /\ "Created" \in ThreadState
    BY ManagerAssumption DEF Pcs, ThreadState, Runs
  <1>1. handler' \in [Handlers -> HandlerRecord] /\ HoldsRun'
    BY <1>0, WithType DEF StartRun, With
  <1> QED
    BY <1>1 DEF StartRun, TypeInv, TypeOK, HandlerRecord, Pcs

\* What a step of a handler needs of the state before it.
LEMMA Typed ==
  ASSUME TypeInv, NEW h \in Handlers
  PROVE  /\ handler \in [Handlers -> HandlerRecord] /\ handler[h] \in HandlerRecord
         /\ handler[h].held \in ThreadState
         /\ handler[h].pc \in Holding => handler[h].run \in Runs
         /\ store \in ThreadState /\ "Created" \in ThreadState
         /\ chan \in [Runs -> 0..Capacity]
         /\ running \in 0..MaxRuns /\ completed \in 0..MaxRuns
         /\ gate \in {"none", "waiting"} /\ used \in HistoryRecord
         /\ 0 \in 0..MaxRuns /\ Runs \subseteq 0..MaxRuns /\ 1 \in Runs
  BY ManagerAssumption DEF TypeInv, TypeOK, HoldsRun, HandlerRecord, HistoryRecord, Pcs,
     ThreadState, Runs

LEMMA HandlerStepType == ASSUME TypeInv, NEW h \in Handlers, HandlerStep(h) PROVE TypeInv'
  <1> USE Typed
  <1>1. ASSUME NEW pc \in Pcs \ Holding, Goto(h, pc)
        PROVE  handler' \in [Handlers -> HandlerRecord] /\ HoldsRun'
    BY <1>1, WithType DEF Goto, With
  <1>2. ASSUME NEW pc \in Pcs, NEW r \in Runs, With(h, pc, r)
        PROVE  handler' \in [Handlers -> HandlerRecord] /\ HoldsRun'
    BY <1>2, WithType DEF With
  <1>3. ASSUME NEW pc \in Pcs \ Holding, Hold(h, pc)
        PROVE  handler' \in [Handlers -> HandlerRecord] /\ HoldsRun'
    BY <1>3, WithType DEF Hold
  <1> USE DEF Pcs, Holding
  <1>4. CASE Register(h)
    BY <1>1, <1>4, HandlerType DEF Register
  <1>5. CASE TagLoad(h) \/ TagSave(h) \/ ResumeLoad(h)
    BY <1>1, <1>3, <1>5, HandlerType DEF TagLoad, TagSave, ResumeLoad
  <1>6. CASE ResumeSave(h)
    BY <1>6, StartType DEF ResumeSave
  <1>7. CASE SendReturns(h)
    <2>1. handler[h].run \in Runs
      BY <1>7 DEF SendReturns, Readers
    <2>2. chan' \in [Runs -> 0..Capacity]
      BY <1>7, <2>1, ManagerAssumption DEF SendReturns
    <2> QED
      BY <1>1, <1>7, <2>2, HandlerType DEF SendReturns, After
  <1>8. CASE StopWaiting(h) \/ JoinMiss(h)
    BY <1>1, <1>8, HandlerType DEF StopWaiting, JoinMiss
  <1>9. CASE JoinCompleted(h)
    <2>1. completed \in Runs
      BY <1>9, ManagerAssumption DEF JoinCompleted, Runs
    <2> QED
      BY <1>2, <1>9, <2>1, HandlerType DEF JoinCompleted
  <1>10. CASE JoinTake(h)
    <2>1. running # 0 => running \in Runs
      BY ManagerAssumption DEF Runs
    <2>2. handler' \in [Handlers -> HandlerRecord] /\ HoldsRun'
      BY <1>1, <1>2, <1>10, <2>1 DEF JoinTake
    <2> QED
      BY <1>10, <2>2, HandlerType DEF JoinTake
  <1>11. CASE JoinHandle(h)
    BY <1>2, <1>11, HandlerType DEF JoinHandle, At
  <1>12. CASE RecordOutcome(h)
    <2>1. handler[h].run \in Runs
      BY <1>12 DEF RecordOutcome, At
    <2>2. used' \in HistoryRecord
      BY <1>12, <2>1 DEF RecordOutcome, HistoryRecord
    <2> QED
      BY <1>1, <1>12, <2>2, HandlerType DEF RecordOutcome
  <1> QED
    BY <1>4, <1>5, <1>6, <1>7, <1>8, <1>9, <1>10, <1>11, <1>12 DEF HandlerStep

LEMMA MessageType ==
  ASSUME TypeInv, NEW h \in Handlers,
         \/ Spawn(h) \/ ResumeCheck(h) \/ Abort(h)
         \/ \E call \in {"injecting", "stopping"} : Send(h, call)
  PROVE  TypeInv'
  <1> USE Typed DEF Pcs, Holding
  <1>1. ASSUME NEW pc \in Pcs \ Holding, Goto(h, pc)
        PROVE  handler' \in [Handlers -> HandlerRecord] /\ HoldsRun'
    BY <1>1, WithType DEF Goto, With
  <1>2. CASE Spawn(h)
    BY <1>2, StartType DEF Spawn
  <1>3. CASE ResumeCheck(h) \/ Abort(h)
    BY <1>1, <1>3, HandlerType DEF ResumeCheck, Abort
  <1>4. ASSUME NEW call \in {"injecting", "stopping"}, Send(h, call) PROVE TypeInv'
    <2>1. running \in Runs
      BY <1>4, ManagerAssumption DEF Send, IsRunning, Runs
    <2>2. chan' \in [Runs -> 0..Capacity]
      BY <1>4, <2>1, ManagerAssumption DEF Send
    <2>3. used' \in HistoryRecord
      BY <1>4, ManagerAssumption DEF Send, HistoryRecord
    <2>4. CASE Goto(h, After(call))
      BY <1>1, <1>4, <2>2, <2>3, <2>4, HandlerType DEF Send, After
    <2>5. CASE With(h, call, running)
      <3>1. handler' \in [Handlers -> HandlerRecord] /\ HoldsRun'
        BY <2>1, <2>5, WithType DEF With
      <3> QED
        BY <1>4, <2>2, <2>3, <3>1, HandlerType DEF Send
    <2> QED
      BY <1>4, <2>4, <2>5 DEF Send
  <1> QED
    BY <1>2, <1>3, <1>4

LEMMA NextTypeInv == TypeInv /\ [Next]_vars => TypeInv'
  <1> SUFFICES ASSUME TypeInv, [Next]_vars PROVE TypeInv'
    OBVIOUS
  <1>1. CASE UNCHANGED vars
    BY <1>1 DEF vars, TypeInv, TypeOK, HoldsRun
  <1> QED
    BY <1>1, TaskType, HandlerStepType, MessageType DEF Next

\* TypeOK holds in every reachable state: no channel holds more signals than its
\* capacity and no map names a run that was never started, for any handlers.
THEOREM TypeCorrect == Spec => []TypeOK
  <1>1. TypeInv => TypeOK
    BY DEF TypeInv
  <1> QED
    BY <1>1, InitTypeInv, NextTypeInv, PTL DEF Spec

-----------------------------------------------------------------------------
(* A run's outcome, once recorded, may open the gate; the gate is taken by one *)
(* answer; the answer starts one run.  While no outcome is recorded twice      *)
(* there is one of these at a time: a started run whose outcome is not yet     *)
(* recorded, the open gate, or the answer that took it.                        *)

Started(r) == task[r] # "none"
Finished(r) == task[r] \in {"publish", "remove", "end"}
Resuming(h) == handler[h].pc \in {"resume", "resume_save"}
Unrecorded(r) == Started(r) /\ r \notin used.recorded

\* Runs are started in order, and an outcome exists only of a finished run.
OutcomesOK ==
  /\ \A r, s \in Runs : r < s /\ Started(s) => Started(r)
  /\ \A r \in used.recorded : Finished(r)
  /\ completed # 0 => Finished(completed)
  /\ \A h \in Handlers : handler[h].pc = "record" => Finished(handler[h].run)
  /\ gate = "waiting" => Started(1)
  /\ \A h \in Handlers : Resuming(h) => Started(1)

OneToken ==
  /\ \A r, s \in Runs : Unrecorded(r) /\ Unrecorded(s) => r = s
  /\ gate = "waiting" => /\ \A h \in Handlers : ~Resuming(h)
                         /\ \A r \in Runs : ~Unrecorded(r)
  /\ \A h \in Handlers : Resuming(h) => /\ \A g \in Handlers : Resuming(g) => g = h
                                        /\ \A r \in Runs : ~Unrecorded(r)

IInv == TypeInv /\ OutcomesOK /\ (~used.twice => OneToken)

LEMMA InitIInv == Init => IInv
  <1> SUFFICES ASSUME Init PROVE OutcomesOK /\ OneToken
    BY InitTypeInv DEF IInv
  <1> QED
    BY DEF Init, OutcomesOK, OneToken, Started, Finished, Resuming, Unrecorded, Idle

\* A run that is started is the only one whose outcome is not recorded.
LEMMA StartOK ==
  ASSUME IInv, TypeInv', NEW h \in Handlers, NEW r \in Runs, NEW t,
         NEW pc \in {"register_new", "register"}, StartRun(h, r, t, pc),
         UNCHANGED <<chan, running, completed, gate, used>>,
         ~used.twice => /\ gate = "none"
                        /\ \A g \in Handlers : Resuming(g) => g = h
                        /\ \A s \in Runs : ~Unrecorded(s)
  PROVE  IInv'
  <1>1. /\ task[r] = "none" /\ task'[r] = "queued"
        /\ \A s \in Runs \ {r} : task'[s] = task[s]
        /\ \A s \in Runs : s < r => task[s] # "none"
    BY DEF StartRun, IInv, TypeInv, TypeOK
  <1>2. /\ handler'[h].pc = pc
        /\ \A g \in Handlers \ {h} : handler'[g] = handler[g]
    BY DEF StartRun, With, IInv, TypeInv, TypeOK
  <1>3. \A s \in Runs : s < r \/ s = r \/ r < s
    BY ManagerAssumption DEF Runs
  <1>4. 1 \in Runs /\ used.recorded \subseteq Runs /\ completed \in Runs \cup {0}
    BY ManagerAssumption DEF IInv, TypeInv, TypeOK, Runs
  <1>5. \A g \in Handlers : handler[g].pc = "record" => handler[g].run \in Runs
    BY DEF IInv, TypeInv, HoldsRun, Holding
  <1>6. OutcomesOK'
    <2>1. \A q, s \in Runs : q < s /\ Started(s)' => Started(q)'
      BY <1>1, <1>3 DEF IInv, OutcomesOK, Started
    <2>2. \A s \in Runs : Finished(s) => Finished(s)'
      BY <1>1 DEF Finished
    <2>3. Started(1) => Started(1)'
      BY <1>1, <1>4 DEF Started
    <2> QED
      BY <1>2, <1>4, <1>5, <2>1, <2>2, <2>3 DEF IInv, OutcomesOK, Resuming
  <1>7. ASSUME ~used'.twice PROVE OneToken'
    <2>1. \A s \in Runs : Unrecorded(s)' => s = r
      BY <1>1, <1>7 DEF Unrecorded, Started
    <2>2. gate' = "none" /\ \A g \in Handlers : ~Resuming(g)'
      BY <1>2, <1>7 DEF Resuming
    <2> QED
      BY <2>1, <2>2 DEF OneToken
  <1> QED
    BY <1>6, <1>7 DEF IInv

\* A run that goes on stays started and finished, and nothing else changes hands.
LEMMA TaskOK == ASSUME IInv, NEW r \in Runs, TaskStep(r) PROVE IInv'
  <1>1. TypeInv'
    BY TaskType DEF IInv
  <1>2. /\ UNCHANGED <<handler, gate, used>>
        /\ \A s \in Runs : Started(s)' = Started(s)
        /\ \A s \in Runs : Finished(s) => Finished(s)'
        /\ completed' = completed \/ (completed' = r /\ Finished(r)')
    BY DEF TaskStep, TaskStarts, TaskReads, TaskEnds, TaskFinalSave, TaskPublishes, TaskRemoves,
           TaskAt, Started, Finished, IInv, TypeInv, TypeOK
  <1>3. 1 \in Runs /\ used.recorded \subseteq Runs /\ completed \in Runs \cup {0}
    BY ManagerAssumption DEF IInv, TypeInv, TypeOK, Runs
  <1>4. \A g \in Handlers : handler[g].pc = "record" => handler[g].run \in Runs
    BY DEF IInv, TypeInv, HoldsRun, Holding
  <1>5. OutcomesOK'
    BY <1>2, <1>3, <1>4 DEF IInv, OutcomesOK, Resuming
  <1>6. OneToken => OneToken'
    BY <1>2 DEF OneToken, Unrecorded, Resuming
  <1> QED
    BY <1>1, <1>2, <1>5, <1>6 DEF IInv

\* A step of a handler that starts no run, records nothing and takes no gate.
LEMMA MovesOK ==
  ASSUME IInv, TypeInv', NEW h \in Handlers, NEW pc, handler'[h].pc = pc,
         \A g \in Handlers \ {h} : handler'[g] = handler[g],
         UNCHANGED <<task, gate>>, UNCHANGED <<used.recorded, used.twice>>,
         completed' \in {completed, 0},
         pc \in {"resume", "resume_save"} => Resuming(h),
         pc = "record" => Finished(handler'[h].run)
  PROVE  IInv'
  <1>1. OutcomesOK'
    BY DEF IInv, OutcomesOK, Started, Finished, Resuming
  <1>2. OneToken => OneToken'
    BY DEF OneToken, Unrecorded, Started, Resuming
  <1> QED
    BY <1>1, <1>2 DEF IInv

\* The handler after Goto, With and Hold.
LEMMA HandlerMoves ==
  ASSUME TypeInv, NEW h \in Handlers, NEW pc, NEW r, NEW t,
         handler' = [handler EXCEPT ![h] = [pc |-> pc, run |-> r, held |-> t]]
  PROVE  /\ handler'[h].pc = pc /\ handler'[h].run = r
         /\ \A g \in Handlers \ {h} : handler'[g] = handler[g]
  BY DEF TypeInv, TypeOK

LEMMA HandlerStepOK == ASSUME IInv, NEW h \in Handlers, HandlerStep(h) PROVE IInv'
  <1>0. TypeInv'
    BY HandlerStepType DEF IInv
  <1>1. TypeInv /\ OutcomesOK /\ (~used.twice => OneToken)
    BY DEF IInv
  <1>2. ASSUME NEW pc, Goto(h, pc) \/ Hold(h, pc)
        PROVE  handler'[h].pc = pc /\ \A g \in Handlers \ {h} : handler'[g] = handler[g]
    BY <1>1, <1>2, HandlerMoves DEF Goto, With, Hold
  <1>3. ASSUME NEW pc, NEW r, With(h, pc, r)
        PROVE  /\ handler'[h].pc = pc /\ handler'[h].run = r
               /\ \A g \in Handlers \ {h} : handler'[g] = handler[g]
    BY <1>1, <1>3, HandlerMoves DEF With
  <1>4. CASE Register(h) \/ TagLoad(h) \/ TagSave(h) \/ SendReturns(h) \/ StopWaiting(h) \/ JoinMiss(h)
    <2>1. PICK pc \in {"tag", "tag_save", "await", "idle", "join", "take"} :
            Goto(h, pc) \/ Hold(h, pc)
      BY <1>4 DEF Register, TagLoad, TagSave, SendReturns, StopWaiting, JoinMiss, After
    <2>2. UNCHANGED <<task, gate, completed, used>>
      BY <1>4 DEF Register, TagLoad, TagSave, SendReturns, StopWaiting, JoinMiss
    <2> QED
      BY <1>0, <1>2, <2>1, <2>2, MovesOK
  <1>5. CASE ResumeLoad(h)
    <2>1. PICK pc \in {"resume_save", "idle"} : Goto(h, pc) \/ Hold(h, pc)
      BY <1>5 DEF ResumeLoad
    <2>2. UNCHANGED <<task, gate, completed, used>> /\ Resuming(h)
      BY <1>5 DEF ResumeLoad, At, Resuming
    <2> QED
      BY <1>0, <1>2, <2>1, <2>2, MovesOK
  <1>6. CASE ResumeSave(h)
    <2>1. PICK r \in Runs : StartRun(h, r, handler[h].held, "register")
      BY <1>6 DEF ResumeSave
    <2>2. Resuming(h) /\ UNCHANGED <<chan, running, completed, gate, used>>
      BY <1>6 DEF ResumeSave, At, Resuming
    <2>3. ~used.twice => /\ gate = "none"
                         /\ \A g \in Handlers : Resuming(g) => g = h
                         /\ \A s \in Runs : ~Unrecorded(s)
      BY <1>1, <2>2 DEF OneToken, TypeInv, TypeOK
    <2> QED
      BY <1>0, <2>1, <2>2, <2>3, StartOK
  <1>7. CASE JoinCompleted(h)
    <2>1. With(h, "record", completed) /\ Finished(completed) /\ UNCHANGED <<task, gate, used>>
      BY <1>1, <1>7 DEF JoinCompleted, OutcomesOK
    <2>2. completed' = 0
      BY <1>7 DEF JoinCompleted
    <2> QED
      BY <1>0, <1>3, <2>1, <2>2, MovesOK
  <1>8. CASE JoinTake(h)
    <2>1. PICK pc \in {"idle", "handle"} : \E r : With(h, pc, r)
      BY <1>8 DEF JoinTake, Goto
    <2>2. UNCHANGED <<task, gate, completed, used>>
      BY <1>8 DEF JoinTake
    <2> QED
      BY <1>0, <1>3, <2>1, <2>2, MovesOK
  <1>9. CASE JoinHandle(h)
    <2>1. With(h, "record", handler[h].run) /\ Finished(handler[h].run)
      BY <1>9 DEF JoinHandle, Finished
    <2>2. completed' = 0 /\ UNCHANGED <<task, gate, used>>
      BY <1>9 DEF JoinHandle
    <2> QED
      BY <1>0, <1>3, <2>1, <2>2, MovesOK
  <1>10. CASE RecordOutcome(h)
    <2> DEFINE r == handler[h].run
    <2>1. /\ r \in Runs /\ Finished(r) /\ Started(r)
      BY <1>1, <1>10 DEF RecordOutcome, At, TypeInv, HoldsRun, Holding, OutcomesOK, Finished, Started
    <2>2. /\ used'.recorded = used.recorded \cup {r}
          /\ used'.twice = (used.twice \/ r \in used.recorded)
          /\ UNCHANGED <<task, completed>> /\ gate' \in {"waiting", gate}
      BY <1>1, <1>10 DEF RecordOutcome, TypeInv, TypeOK
    <2>3. handler'[h].pc = "idle" /\ \A g \in Handlers \ {h} : handler'[g] = handler[g]
      BY <1>2, <1>10 DEF RecordOutcome
    <2> HIDE DEF r
    <2>4. Started(1)
      <3>1. 1 \in Runs /\ (r = 1 \/ 1 < r)
        BY <2>1, ManagerAssumption DEF Runs
      <3> QED
        BY <1>1, <2>1, <3>1 DEF OutcomesOK
    <2>5. OutcomesOK'
      BY <1>1, <2>1, <2>2, <2>3, <2>4 DEF OutcomesOK, Started, Finished, Resuming
    <2>6. ASSUME ~used'.twice PROVE OneToken'
      <3>1. OneToken /\ Unrecorded(r)
        BY <1>1, <2>1, <2>2, <2>6 DEF Unrecorded
      <3>2. \A s \in Runs : ~Unrecorded(s)'
        BY <2>2, <3>1, <2>1 DEF OneToken, Unrecorded, Started
      <3>3. \A g \in Handlers : ~Resuming(g)
        BY <2>1, <3>1 DEF OneToken
      <3>4. \A g \in Handlers : ~Resuming(g)'
        BY <2>3, <3>3 DEF Resuming
      <3> QED
        BY <3>2, <3>4 DEF OneToken
    <2> QED
      BY <1>0, <2>5, <2>6 DEF IInv
  <1> QED
    BY <1>4, <1>5, <1>6, <1>7, <1>8, <1>9, <1>10 DEF HandlerStep

LEMMA MessageOK ==
  ASSUME IInv, NEW h \in Handlers,
         \/ Spawn(h) \/ ResumeCheck(h) \/ Abort(h)
         \/ \E call \in {"injecting", "stopping"} : Send(h, call)
  PROVE  IInv'
  <1>0. TypeInv'
    BY MessageType DEF IInv
  <1>1. TypeInv /\ OutcomesOK /\ (~used.twice => OneToken)
    BY DEF IInv
  <1>2. ASSUME NEW pc, NEW r, With(h, pc, r)
        PROVE  handler'[h].pc = pc /\ \A g \in Handlers \ {h} : handler'[g] = handler[g]
    BY <1>1, <1>2, HandlerMoves DEF With
  <1>3. CASE Spawn(h)
    <2>1. 1 \in Runs /\ task[1] = "none" /\ UNCHANGED <<chan, running, completed, gate, used>>
      BY <1>3, ManagerAssumption DEF Spawn, StartRun, Runs
    <2>2. \A s \in Runs : ~Started(s)
      <3> SUFFICES ASSUME NEW s \in Runs, Started(s) PROVE FALSE
        OBVIOUS
      <3>1. s = 1 \/ 1 < s
        BY ManagerAssumption DEF Runs
      <3> QED
        BY <1>1, <2>1, <3>1 DEF OutcomesOK, Started
    <2>3. gate = "none" /\ \A g \in Handlers : ~Resuming(g)
      BY <1>1, <2>1, <2>2 DEF OutcomesOK, TypeInv, TypeOK
    <2> QED
      BY <1>0, <1>3, <2>1, <2>2, <2>3, StartOK DEF Spawn, Unrecorded
  <1>4. CASE ResumeCheck(h)
    <2>1. /\ gate = "waiting" /\ gate' = "none" /\ UNCHANGED <<task, completed, used>>
          /\ handler'[h].pc \in {"idle", "resume"}
          /\ \A g \in Handlers \ {h} : handler'[g] = handler[g]
      BY <1>2, <1>4 DEF ResumeCheck, Goto
    <2>2. OutcomesOK'
      BY <1>1, <2>1 DEF OutcomesOK, Started, Finished, Resuming
    <2>3. OneToken => OneToken'
      BY <2>1 DEF OneToken, Unrecorded, Started, Resuming
    <2> QED
      BY <1>0, <1>1, <2>1, <2>2, <2>3 DEF IInv
  <1>5. CASE Abort(h)
    BY <1>0, <1>2, <1>5, MovesOK DEF Abort, Goto
  <1>6. ASSUME NEW call \in {"injecting", "stopping"}, Send(h, call) PROVE IInv'
    <2>1. PICK pc \in {"injecting", "stopping", "await", "idle"} : \E r : With(h, pc, r)
      BY <1>6 DEF Send, After, Goto
    <2>2. /\ UNCHANGED <<task, gate, completed>>
          /\ used'.recorded = used.recorded /\ used'.twice = used.twice
      BY <1>1, <1>6 DEF Send, TypeInv, TypeOK
    <2> QED
      BY <1>0, <1>2, <2>1, <2>2, MovesOK
  <1> QED
    BY <1>3, <1>4, <1>5, <1>6

LEMMA NextIInv == IInv /\ [Next]_vars => IInv'
  <1> SUFFICES ASSUME IInv, [Next]_vars PROVE IInv'
    OBVIOUS
  <1>1. CASE UNCHANGED vars
    <2>1. TypeInv'
      BY <1>1, NextTypeInv DEF IInv
    <2> QED
      BY <1>1, <2>1 DEF vars, IInv, OutcomesOK, OneToken, Unrecorded, Started, Finished, Resuming
  <1> QED
    BY <1>1, TaskOK, HandlerStepOK, MessageOK DEF Next

\* OneExecution holds in every reachable state, for any number of handlers, overlapping
\* and aborted at whatever await: unless the outcome of a run was recorded by two
\* handlers, a run is started only when every earlier run has written the thread for
\* the last time.
THEOREM OneRunAtATime == Spec => []OneExecution
  <1>1. IInv => OneExecution
    <2> SUFFICES ASSUME IInv, ~used.twice, NEW r \in Runs, NEW s \in Runs, Executing(r), Executing(s)
                 PROVE  r = s
      BY DEF OneExecution
    <2>1. Unrecorded(r) /\ Unrecorded(s)
      BY DEF Executing, Unrecorded, Started, Finished, IInv, OutcomesOK
    <2> QED
      BY <2>1 DEF IInv, OneToken
  <1> QED
    BY <1>1, InitIInv, NextIInv, PTL DEF Spec

=============================================================================
