---------------------------- MODULE ThreadManager ----------------------------
(***************************************************************************)
(* ThreadManager (runtime/manager.rs) around one foreground thread: the    *)
(* `running` and `completed` maps, the signal channel of each run, the     *)
(* background task of each run, and the message handlers that call the     *)
(* manager concurrently (ConversationManager::handle_user_message and      *)
(* await_thread_outcome of the router).                                    *)
(*                                                                         *)
(* A handler goes on after the agent's soft timeout while the next message *)
(* is handled, and is aborted at whatever await it is in a little later,   *)
(* so handlers overlap and may vanish.  Every await is a step boundary.    *)
(*                                                                         *)
(* What a run does between its first and its last save is left to          *)
(* ExecutionLoop; here it reads signals and ends in some state.            *)
(***************************************************************************)
EXTENDS Naturals, FiniteSets, ThreadTypes

CONSTANTS
  Handlers,    \* tasks handling a message
  MaxRuns,     \* bound: starts of the thread
  Capacity,    \* capacity of a signal channel (32 in start_thread)
  MaxSignals   \* bound: signals sent

ASSUME ManagerAssumption ==
  /\ MaxRuns \in Nat \ {0}
  /\ Capacity \in Nat \ {0}
  /\ MaxSignals \in Nat

Runs == 1..MaxRuns

VARIABLES
  store,      \* the stored thread: its state
  task,       \* stage of each run's background task
  copy,       \* the thread as each task holds it
  chan,       \* signals waiting in each run's channel
  running,    \* the run registered in `running`, 0 if none
  completed,  \* the run whose outcome is in `completed`, 0 if none
  handler,    \* each handler: where it is, the run and the thread it holds
  gate,       \* a gate of the thread waits for the user
  used        \* history: signals sent, runs whose outcome was recorded, and
              \* whether one was recorded twice

vars == <<store, task, copy, chan, running, completed, handler, gate, used>>

Idle == [pc |-> "idle", run |-> 0, held |-> "Created"]

Init ==
  /\ store = "Created"
  /\ task = [r \in Runs |-> "none"]
  /\ copy = [r \in Runs |-> "Created"]
  /\ chan = [r \in Runs |-> 0]
  /\ running = 0
  /\ completed = 0
  /\ handler = [h \in Handlers |-> Idle]
  /\ gate = "none"
  /\ used = [signals |-> 0, recorded |-> {}, twice |-> FALSE]

-----------------------------------------------------------------------------
(* The locks *)

\* send().await on a full channel keeps the read guard; nobody else holds the
\* lock across an await.
Readers == {h \in Handlers : handler[h].pc \in {"injecting", "stopping"}}

WriteLockFree == Readers = {}

\* handle_user_message holds the write lock on the conversations from its
\* beginning to its end.
ConversationsFree ==
  \A h \in Handlers : handler[h].pc \notin {"register_new", "tag", "tag_save", "injecting"}

\* JoinHandle::is_finished: the task has run to its end.
IsRunning == running # 0 /\ task[running] # "end"

At(h, pc) == handler[h].pc = pc

\* The handler goes on to a step for which it needs no more than a run, or the
\* thread it has just loaded.
With(h, pc, r) == handler' = [handler EXCEPT ![h] = [pc |-> pc, run |-> r, held |-> "Created"]]
Goto(h, pc) == With(h, pc, 0)
Hold(h, pc) == handler' = [handler EXCEPT ![h] = [pc |-> pc, run |-> 0, held |-> store]]

-----------------------------------------------------------------------------
(* start_thread and what follows it in a handler *)

\* The task is spawned before the run is registered.
StartRun(h, r, t, pc) ==
  /\ task[r] = "none"
  /\ \A s \in Runs : s < r => task[s] # "none"
  /\ store' = t
  /\ copy' = [copy EXCEPT ![r] = t]
  /\ task' = [task EXCEPT ![r] = "queued"]
  /\ With(h, pc, r)

\* handle_user_message without an active thread: spawn_thread_with_history.
Spawn(h) ==
  /\ At(h, "idle")
  /\ ConversationsFree
  /\ StartRun(h, 1, "Created", "register_new")
  /\ UNCHANGED <<chan, running, completed, gate, used>>

\* The map entry is keyed by the thread: an older run's entry is replaced.
Register(h) ==
  /\ handler[h].pc \in {"register_new", "register"}
  /\ WriteLockFree
  /\ running' = handler[h].run
  /\ Goto(h, IF At(h, "register_new") THEN "tag" ELSE "await")
  /\ UNCHANGED <<store, task, copy, chan, completed, gate, used>>

\* set_thread_metadata loads the thread, then saves what it loaded with a tag.
TagLoad(h) ==
  /\ At(h, "tag")
  /\ Hold(h, "tag_save")
  /\ UNCHANGED <<store, task, copy, chan, running, completed, gate, used>>

TagSave(h) ==
  /\ At(h, "tag_save")
  /\ store' = handler[h].held
  /\ Goto(h, "await")
  /\ UNCHANGED <<task, copy, chan, running, completed, gate, used>>

\* The bound on runs: every resume under way gets one.
RunsLeft ==
  Cardinality({r \in Runs : task[r] = "none"}) >
    Cardinality({h \in Handlers : handler[h].pc \in {"resume", "resume_save"}})

\* Mutant of ResumeCheck: the gate is looked up and not taken.
ResumePeek(h) ==
  /\ At(h, "idle")
  /\ gate = "waiting"
  /\ RunsLeft
  /\ Goto(h, IF IsRunning THEN "idle" ELSE "resume")
  /\ UNCHANGED <<store, task, copy, chan, running, completed, gate, used>>

\* resume_thread refuses a running thread and one that is not resumable; the
\* router has taken the gate by then.
ResumeCheck(h) ==
  /\ At(h, "idle")
  /\ gate = "waiting"
  /\ RunsLeft
  /\ gate' = "none"
  /\ Goto(h, IF IsRunning THEN "idle" ELSE "resume")
  /\ UNCHANGED <<store, task, copy, chan, running, completed, used>>

ResumeLoad(h) ==
  /\ At(h, "resume")
  /\ IF store \in {"Waiting", "Suspended"} THEN Hold(h, "resume_save") ELSE Goto(h, "idle")
  /\ UNCHANGED <<store, task, copy, chan, running, completed, gate, used>>

ResumeSave(h) ==
  /\ At(h, "resume_save")
  /\ \E r \in Runs : StartRun(h, r, handler[h].held, "register")
  /\ UNCHANGED <<chan, running, completed, gate, used>>

-----------------------------------------------------------------------------
(* stop_thread, inject_message *)

\* inject_message from handle_user_message ("injecting"), whose handler then
\* waits for the outcome, or stop_thread from handle_interrupt ("stopping").
After(call) == IF call = "injecting" THEN "await" ELSE "idle"

\* Mutant of Send: the channel is unbounded.
SendUnbounded(h, call) ==
  /\ At(h, "idle")
  /\ ConversationsFree
  /\ IsRunning
  /\ used.signals < MaxSignals
  /\ used' = [used EXCEPT !.signals = @ + 1]
  /\ chan' = [chan EXCEPT ![running] = @ + 1]
  /\ Goto(h, After(call))
  /\ UNCHANGED <<store, task, copy, running, completed, gate>>

Send(h, call) ==
  /\ At(h, "idle")
  /\ ConversationsFree
  /\ IsRunning
  /\ used.signals < MaxSignals
  /\ used' = [used EXCEPT !.signals = @ + 1]
  /\ IF chan[running] < Capacity
       THEN /\ chan' = [chan EXCEPT ![running] = @ + 1]
            /\ Goto(h, After(call))
       ELSE /\ With(h, call, running)
            /\ UNCHANGED chan
  /\ UNCHANGED <<store, task, copy, running, completed, gate>>

\* Room in the channel, or its receiver is gone with the task.
SendReturns(h) ==
  /\ h \in Readers
  /\ \/ /\ chan[handler[h].run] < Capacity
        /\ chan' = [chan EXCEPT ![handler[h].run] = @ + 1]
     \/ /\ task[handler[h].run] = "end"
        /\ UNCHANGED chan
  /\ Goto(h, After(handler[h].pc))
  /\ UNCHANGED <<store, task, copy, running, completed, gate, used>>

-----------------------------------------------------------------------------
(* await_thread_outcome and join_thread *)

\* The poll finds the thread not running, or the five minutes are over.
StopWaiting(h) ==
  /\ At(h, "await")
  /\ Goto(h, "join")
  /\ UNCHANGED <<store, task, copy, chan, running, completed, gate, used>>

JoinCompleted(h) ==
  /\ At(h, "join")
  /\ completed # 0
  /\ With(h, "record", completed)
  /\ completed' = 0
  /\ UNCHANGED <<store, task, copy, chan, running, gate, used>>

JoinMiss(h) ==
  /\ At(h, "join")
  /\ completed = 0
  /\ Goto(h, "take")
  /\ UNCHANGED <<store, task, copy, chan, running, completed, gate, used>>

\* Without an entry join_thread returns ThreadNotFound.
JoinTake(h) ==
  /\ At(h, "take")
  /\ WriteLockFree
  /\ IF running = 0 THEN Goto(h, "idle") ELSE With(h, "handle", running)
  /\ running' = 0
  /\ UNCHANGED <<store, task, copy, chan, completed, gate, used>>

\* The task has ended; whatever outcome of the thread is in `completed` goes.
JoinHandle(h) ==
  /\ At(h, "handle")
  /\ task[handler[h].run] = "end"
  /\ With(h, "record", handler[h].run)
  /\ completed' = 0
  /\ UNCHANGED <<store, task, copy, chan, running, gate, used>>

\* record_thread_outcome and, for a paused run, the insertion of its gate
\* (refused while there is one).  A run's outcome reaches two handlers when one
\* of them has taken the JoinHandle and the other finds it in `completed`.
RecordOutcome(h) ==
  /\ At(h, "record")
  /\ ConversationsFree
  /\ Goto(h, "idle")
  /\ gate' = IF copy[handler[h].run] = "Waiting" THEN "waiting" ELSE gate
  /\ used' = [used EXCEPT !.recorded = @ \cup {handler[h].run},
                          !.twice = @ \/ handler[h].run \in used.recorded]
  /\ UNCHANGED <<store, task, copy, chan, running, completed>>

\* Mutant of Abort: no timer is armed for a handler that sends a signal.
AbortSparesSenders(h) ==
  /\ ~At(h, "idle")
  /\ h \notin Readers
  /\ Goto(h, "idle")
  /\ UNCHANGED <<store, task, copy, chan, running, completed, gate, used>>

\* The hard timeout drops the handler at an await: its read guard is released,
\* a JoinHandle it holds is detached, a run it did not register stays so.
Abort(h) ==
  /\ ~At(h, "idle")
  /\ Goto(h, "idle")
  /\ UNCHANGED <<store, task, copy, chan, running, completed, gate, used>>

-----------------------------------------------------------------------------
(* The background task *)

TaskAt(r, from, to) == task[r] = from /\ task' = [task EXCEPT ![r] = to]

\* Every save of a task writes the whole thread as the task has it.
SaveCopy(r, s) ==
  /\ copy' = [copy EXCEPT ![r] = s]
  /\ store' = s

TaskStarts(r) ==
  /\ TaskAt(r, "queued", "run")
  /\ SaveCopy(r, "Running")
  /\ UNCHANGED <<chan, running, completed, handler, gate, used>>

TaskReads(r) ==
  /\ task[r] = "run"
  /\ chan[r] > 0
  /\ chan' = [chan EXCEPT ![r] = @ - 1]
  /\ UNCHANGED <<store, task, copy, running, completed, handler, gate, used>>

TaskEnds(r) ==
  /\ TaskAt(r, "run", "save")
  /\ \E s \in {"Waiting", "Completed", "Failed"} : SaveCopy(r, s)
  /\ UNCHANGED <<chan, running, completed, handler, gate, used>>

TaskFinalSave(r) ==
  /\ TaskAt(r, "save", "publish")
  /\ SaveCopy(r, Transition(copy[r], "Done"))
  /\ UNCHANGED <<chan, running, completed, handler, gate, used>>

TaskPublishes(r) ==
  /\ TaskAt(r, "publish", "remove")
  /\ completed' = r
  /\ UNCHANGED <<store, copy, chan, running, handler, gate, used>>

\* The entry of the thread is removed, whichever run it is of.  The receiver
\* of the channel lives until the task ends.
TaskRemoves(r) ==
  /\ TaskAt(r, "remove", "end")
  /\ WriteLockFree
  /\ running' = 0
  /\ UNCHANGED <<store, copy, chan, completed, handler, gate, used>>

-----------------------------------------------------------------------------

TaskStep(r) ==
  \/ TaskStarts(r) \/ TaskReads(r) \/ TaskEnds(r) \/ TaskFinalSave(r)
  \/ TaskPublishes(r) \/ TaskRemoves(r)

\* The steps a handler takes on its own once it has begun to handle a message.
HandlerStep(h) ==
  \/ Register(h) \/ TagLoad(h) \/ TagSave(h) \/ ResumeLoad(h) \/ ResumeSave(h)
  \/ SendReturns(h) \/ StopWaiting(h)
  \/ JoinCompleted(h) \/ JoinMiss(h) \/ JoinTake(h) \/ JoinHandle(h)
  \/ RecordOutcome(h)

Next ==
  \/ \E r \in Runs : TaskStep(r)
  \/ \E h \in Handlers :
       \/ HandlerStep(h)
       \/ Spawn(h)
       \/ ResumeCheck(h)
       \/ \E call \in {"injecting", "stopping"} : Send(h, call)
       \/ Abort(h)

Spec == Init /\ [][Next]_vars

\* tokio runs every task and wakes those that wait for a lock, a channel or a
\* JoinHandle; a run ends, as ExecutionLoop shows; and the hard-timeout timer of
\* a handler fires unless the handler is done by then.
FairSpec ==
  /\ Spec
  /\ \A r \in Runs : WF_vars(TaskStep(r)) /\ SF_vars(TaskEnds(r))
  /\ \A h \in Handlers : WF_vars(HandlerStep(h)) /\ WF_vars(Abort(h))

-----------------------------------------------------------------------------

\* The run has not yet written the thread for the last time.
Executing(r) == task[r] \in {"queued", "run", "save"}

TypeOK ==
  /\ store \in ThreadState
  /\ task \in [Runs -> {"none", "queued", "run", "save", "publish", "remove", "end"}]
  /\ copy \in [Runs -> ThreadState]
  /\ chan \in [Runs -> 0..Capacity]
  /\ running \in 0..MaxRuns
  /\ completed \in 0..MaxRuns
  /\ handler \in
       [Handlers -> [pc : {"idle", "register_new", "register", "tag", "tag_save", "resume",
                           "resume_save", "injecting", "stopping", "await", "join", "take",
                           "handle", "record"},
                     run : 0..MaxRuns, held : ThreadState]]
  /\ gate \in {"none", "waiting"}
  /\ used \in [signals : 0..MaxSignals, recorded : SUBSET Runs, twice : BOOLEAN]

\* Two runs of a thread execute at the same time only after the outcome of one
\* run was recorded by two handlers: the gate that an outcome opens is taken by
\* one answer, and a run is started for it only when every earlier run has
\* written the thread for the last time, however handlers overlap, a run ends
\* before it is registered, and handlers are aborted between the check of
\* resume_thread and its registration of the new run.
OneExecution ==
  ~used.twice => \A r, s \in Runs : Executing(r) /\ Executing(s) => r = s

\* Every run comes to its end: its task gets the write lock on `running` although
\* a sender keeps the read lock while it waits for room in the task's own channel
\* and a joiner queues behind it.
RunsFinish == \A r \in Runs : task[r] # "none" ~> task[r] = "end"

=============================================================================
