--------------------------- MODULE ChatAgentProofs ---------------------------
(* Type correctness of the chat agent, at-most-once execution of approved     *)
(* tools and the bound on the message queue, for any number of overlapping    *)
(* handlers, any queue limit and any number of approval requests.             *)
EXTENDS ChatAgent, FiniteSetTheorems, TLAPS

\* The part of TypeOK about handlers and main loop, which every action changes, with
\* the fact that an answer being processed has its request.
TasksOK ==
  /\ pc \in [Handlers -> Places]
  /\ merged \subseteq Handlers
  /\ held \in [Handlers -> Requests \cup {None}]
  /\ main \in {"reading", "waiting", "snapshot", "reset", "stopped"}
  /\ current \in Handlers \cup {None}
  /\ armed \subseteq Handlers /\ timers \in Nat
  /\ \A h \in Handlers : pc[h] = "taken" => held[h] # None

TypeInv == TypeOK /\ TasksOK

LEMMA LeaveTasks ==
  ASSUME TasksOK, NEW h \in Handlers, NEW m \in {"reading", "stopped", "reset"}, Leave(h, m)
  PROVE  TasksOK'
  BY DEF Leave, TasksOK, Places, Requests, None

LEMMA ReplyTasks ==
  ASSUME TasksOK, NEW h \in Handlers, Reply(h) \/ NoReply(h)
  PROVE  TasksOK'
  BY LeaveTasks DEF Reply, NoReply

LEMMA GotoTasks ==
  ASSUME TasksOK, NEW h \in Handlers, NEW l \in Places \ {"taken"}, Goto(h, l)
  PROVE  TasksOK'
  BY DEF Goto, TasksOK, loop

LEMMA NotResponseTasks ==
  ASSUME TasksOK, NEW h \in Handlers, NotResponse(h)
  PROVE  TasksOK'
  BY ReplyTasks, GotoTasks DEF NotResponse, Places

LEMMA InitTypeInv == Init => TypeInv
  BY BoundAssumption DEF Init, TypeInv, TypeOK, TasksOK, Places, None

LEMMA StepTasks == TypeInv /\ [Next]_vars => TasksOK'
  <1> SUFFICES ASSUME TypeInv, [Next]_vars PROVE TasksOK'
    OBVIOUS
  <1>0. TasksOK
    BY DEF TypeInv
  <1>1. ASSUME NEW h \in Handlers, StartInput(h) \/ StartControl(h) PROVE TasksOK'
    BY <1>0, <1>1, ReplyTasks, GotoTasks DEF StartInput, StartControl, Controls, Places
  <1>2. ASSUME NEW h \in Handlers, InputStep(h) PROVE TasksOK'
    <2>1. CASE SnapshotState(h) \/ QueueMessage(h) \/ Admit(h) \/ AutoCompacted(h)
      BY <1>0, <2>1, ReplyTasks, GotoTasks, NotResponseTasks
      DEF SnapshotState, QueueMessage, Admit, AutoCompacted, Places
    <2>2. CASE CheckpointLocks(h) \/ CheckpointMade(h) \/ StartTurn(h)
      BY <1>0, <2>2, GotoTasks DEF CheckpointLocks, CheckpointMade, StartTurn, Places
    <2>3. CASE TurnInterrupted(h) \/ TurnFails(h) \/ TurnNeedsApproval(h)
      BY <1>0, <2>3, NotResponseTasks DEF TurnInterrupted, TurnFails, TurnNeedsApproval
    <2>4. CASE TurnResponds(h)
      BY <1>0, <2>4 DEF TurnResponds, TasksOK, Places, loop
    <2>5. CASE Drain(h)
      <3>1. CASE Suppressed(h)
        BY <1>0, <2>5, <3>1, GotoTasks DEF Drain, Places
      <3>2. CASE ~Suppressed(h)
        BY <1>0, <2>5, <3>2 DEF Drain, TasksOK, Places, loop
      <3> QED
        BY <3>1, <3>2
    <2>6. CASE DrainEmpty(h) \/ Discard(h) \/ Requeue(h)
      BY <1>0, <2>6, ReplyTasks DEF DrainEmpty, Discard, Requeue
    <2> QED
      BY <1>2, <2>1, <2>2, <2>3, <2>4, <2>5, <2>6 DEF InputStep
  <1>3. ASSUME NEW h \in Handlers, ApprovalStep(h) PROVE TasksOK'
    <2>1. CASE TakePending(h)
      <3>1. CASE state = "AwaitingApproval" /\ pending # None
        BY <2>1, <3>1 DEF TypeInv, TypeOK, TakePending, TasksOK, Places, loop
      <3>2. CASE ~(state = "AwaitingApproval" /\ pending # None)
        BY <1>0, <2>1, <3>2, ReplyTasks DEF TakePending
      <3> QED
        BY <3>1, <3>2
    <2>2. CASE Approve(h)
      BY <1>0, <2>2, GotoTasks DEF Approve, Places
    <2>3. CASE PutBack(h) \/ Reject(h) \/ NextApproval(h) \/ ApprovalEnds(h)
      BY <1>0, <2>3, ReplyTasks DEF PutBack, Reject, NextApproval, ApprovalEnds
    <2> QED
      BY <1>3, <2>1, <2>2, <2>3 DEF ApprovalStep
  <1>4. ASSUME NEW h \in Handlers, CommandStep(h) PROVE TasksOK'
    BY <1>0, <1>4, ReplyTasks, GotoTasks
    DEF CommandStep, Interrupt, UndoLocks, UndoRestores, ClearThread, ClearUndo,
        CompactLocks, CompactEnds, Places
  <1>5. ASSUME NEW h \in Handlers, Receive(h) PROVE TasksOK'
    BY <1>0, <1>5 DEF Receive, TasksOK, Places
  <1>6. ASSUME NEW h \in Handlers, HardKill(h) \/ Panic(h) PROVE TasksOK'
    BY <1>0, <1>6, LeaveTasks DEF HardKill, Panic
  <1>7. CASE Shutdown \/ SoftTimeout \/ ResetAfterPanic
    BY <1>0, <1>7 DEF Shutdown, SoftTimeout, ResetAfterPanic, FailStuckTurn, TasksOK, handlers
  <1>8. CASE ArmTimer
    BY <1>0, <1>8 DEF ArmTimer, TasksOK, handlers
  <1>9. CASE TimerResets
    BY <1>0, <1>9 DEF TimerResets, FailStuckTurn, TasksOK, handlers
  <1>10. CASE UNCHANGED vars
    BY <1>0, <1>10 DEF vars, handlers, loop, TasksOK
  <1> QED
    BY <1>1, <1>2, <1>3, <1>4, <1>5, <1>6, <1>7, <1>8, <1>9, <1>10
    DEF Next, HandlerStep, Exited

LEMMA NextTypeInv == TypeInv /\ [Next]_vars => TypeInv'
  <1> SUFFICES ASSUME TypeInv, [Next]_vars PROVE TypeInv'
    OBVIOUS
  <1> DEFINE Rest == /\ state \in {"Idle", "Processing", "AwaitingApproval", "Interrupted"}
                     /\ pending \in Requests \cup {None} /\ queued \in Nat
                     /\ issued \in 0..MaxRequests
                     /\ ran \subseteq Requests /\ refused \subseteq Requests
  <1>0. TasksOK /\ Rest
    BY DEF TypeInv, TypeOK
  <1>1. Rest'
    <2> USE <1>0, BoundAssumption DEF TasksOK, Requests, None
    <2>1. ASSUME NEW h \in Handlers, StartInput(h) \/ StartControl(h) PROVE Rest'
      BY <2>1 DEF StartInput, StartControl, thread, history
    <2>2. ASSUME NEW h \in Handlers, InputStep(h) PROVE Rest'
      <3>1. CASE SnapshotState(h) \/ Admit(h) \/ AutoCompacted(h) \/ CheckpointLocks(h)
                 \/ CheckpointMade(h) \/ TurnInterrupted(h) \/ DrainEmpty(h)
        BY <3>1 DEF SnapshotState, Admit, AutoCompacted, CheckpointLocks, CheckpointMade,
                    TurnInterrupted, DrainEmpty, thread, history
      <3>2. CASE Drain(h) \/ Discard(h) \/ Requeue(h)
        <4>1. queued' \in {0, queued + 1}
          BY <3>2 DEF Drain, Discard, Requeue
        <4>2. UNCHANGED <<state, pending, history>>
          BY <3>2 DEF Drain, Discard, Requeue
        <4> QED
          BY <4>1, <4>2 DEF history
      <3>5. CASE QueueMessage(h)
        <4>1. queued' \in {queued, queued + 1} /\ UNCHANGED <<state, pending, history>>
          BY <3>5 DEF QueueMessage
        <4> QED
          BY <4>1 DEF history
      <3>3. CASE StartTurn(h) \/ TurnResponds(h) \/ TurnFails(h)
        BY <3>3 DEF StartTurn, TurnResponds, TurnFails, history
      <3>4. CASE TurnNeedsApproval(h)
        BY <3>4 DEF TurnNeedsApproval, AwaitApproval
      <3> QED
        BY <2>2, <3>1, <3>2, <3>3, <3>4, <3>5 DEF InputStep
    <2>3. ASSUME NEW h \in Handlers, ApprovalStep(h) PROVE Rest'
      <3>1. CASE TakePending(h)
        <4>1. pending' \in {pending, None} /\ UNCHANGED <<state, queued, history>>
          BY <3>1 DEF TakePending
        <4> QED
          BY <4>1 DEF history
      <3>2. CASE PutBack(h) \/ ApprovalEnds(h)
        BY <3>2 DEF PutBack, ApprovalEnds, AwaitApproval, history
      <3>3. CASE Approve(h) \/ Reject(h)
        BY <3>3 DEF Approve, Reject
      <3>4. CASE NextApproval(h)
        BY <3>4 DEF NextApproval, AwaitApproval
      <3> QED
        BY <2>3, <3>1, <3>2, <3>3, <3>4 DEF ApprovalStep
    <2>4. ASSUME NEW h \in Handlers, CommandStep(h) PROVE Rest'
      <3>1. CASE Interrupt(h)
        <4>1. state' \in {state, "Interrupted"} /\ queued' \in {queued, 0}
          BY <3>1 DEF Interrupt
        <4>2. refused' \in {refused, refused \cup {pending}} /\ (refused' # refused => pending # None)
          BY <3>1 DEF Interrupt, Refuse
        <4> QED
          BY <3>1, <4>1, <4>2 DEF Interrupt
      <3>2. CASE UndoRestores(h) \/ ClearThread(h)
        <4>1. state' = "Idle" /\ queued' \in {queued, 0} /\ UNCHANGED <<pending, issued, ran>>
          BY <3>2 DEF UndoRestores, ClearThread
        <4>2. refused' \in {refused, refused \cup {pending}} /\ (refused' # refused => pending # None)
          BY <3>2 DEF UndoRestores, ClearThread, Refuse
        <4> QED
          BY <4>1, <4>2
      <3>3. CASE UndoLocks(h) \/ ClearUndo(h) \/ CompactLocks(h) \/ CompactEnds(h)
        BY <3>3 DEF UndoLocks, ClearUndo, CompactLocks, CompactEnds, thread, history
      <3> QED
        BY <2>4, <3>1, <3>2, <3>3 DEF CommandStep
    <2>5. ASSUME NEW h \in Handlers, Receive(h) \/ HardKill(h) \/ Panic(h) PROVE Rest'
      BY <2>5 DEF Receive, HardKill, Panic, thread, history
    <2>6. CASE Shutdown \/ SoftTimeout \/ ArmTimer \/ TimerResets \/ ResetAfterPanic
      BY <2>6 DEF Shutdown, SoftTimeout, ArmTimer, TimerResets, ResetAfterPanic,
                  FailStuckTurn, thread, history
    <2>7. CASE UNCHANGED vars
      BY <2>7 DEF vars, thread, history
    <2> QED
      BY <2>1, <2>2, <2>3, <2>4, <2>5, <2>6, <2>7 DEF Next, HandlerStep, Exited
  <1> QED
    BY <1>1, StepTasks DEF TypeInv, TypeOK, TasksOK

\* The chat agent is type correct in every reachable state: in particular no thread
\* state, place of a handler or hard-kill timer is ever made up.
THEOREM TypeCorrect == Spec => []TypeOK
  <1>1. TypeInv => TypeOK
    BY DEF TypeInv
  <1> QED
    BY InitTypeInv, NextTypeInv, <1>1, PTL DEF Spec

-----------------------------------------------------------------------------
(* Approvals.  RunsOnce and RefusedNeverRuns are not inductive: a new request *)
(* must be new (Fresh), a request in an answer's hands must be undecided, and *)
(* a refused one may only stay in the thread while the thread does not await  *)
(* an approval (Undecided).                                                   *)

OnePlace ==
  \A h \in Handlers : held[h] # None =>
    held[h] # pending /\ \A g \in Handlers \ {h} : held[g] # held[h]

Fresh ==
  /\ pending <= issued
  /\ \A h \in Handlers : held[h] <= issued
  /\ \A r \in ran \cup refused : r <= issued

Undecided ==
  /\ pending \notin ran
  /\ pending \in refused => state # "AwaitingApproval"
  /\ \A h \in Handlers : pc[h] = "taken" => held[h] \notin ran \cup refused
  /\ ran \cap refused = {}

AInv == TypeInv /\ OnePlace /\ Fresh /\ Undecided

LEMMA InitAInv == Init => AInv
  BY InitTypeInv DEF Init, AInv, OnePlace, Fresh, Undecided, None

\* What almost every step does to the requests in the handlers' hands: it may drop them,
\* and it puts none there.
Moves ==
  \A g \in Handlers :
    held'[g] \in {held[g], None} /\ (pc'[g] = "taken" => pc[g] = "taken" /\ held'[g] = held[g])

LEMMA LeaveMoves ==
  ASSUME TasksOK, NEW h \in Handlers, NEW m, Leave(h, m)
  PROVE  Moves /\ held'[h] = None /\ pc'[h] # "taken"
  BY DEF Leave, TasksOK, Moves

LEMMA ReplyMoves ==
  ASSUME TasksOK, NEW h \in Handlers, Reply(h) \/ NoReply(h)
  PROVE  Moves /\ held'[h] = None /\ pc'[h] # "taken"
  BY LeaveMoves DEF Reply, NoReply

LEMMA GotoMoves ==
  ASSUME TasksOK, NEW h \in Handlers, NEW l \in Places \ {"taken"}, Goto(h, l)
  PROVE  Moves /\ pc'[h] # "taken" /\ UNCHANGED held
  BY DEF Goto, TasksOK, Moves

LEMMA NotResponseMoves ==
  ASSUME TasksOK, NEW h \in Handlers, NotResponse(h)
  PROVE  Moves
  BY ReplyMoves, GotoMoves DEF NotResponse, Places

\* Such a step keeps the invariant if no request comes to await an approval,
LEMMA QuietStep ==
  ASSUME AInv, TypeInv', Moves, UNCHANGED <<pending, history>>,
         state' = "AwaitingApproval" => state = "AwaitingApproval"
  PROVE  AInv'
  BY DEF AInv, OnePlace, Fresh, Undecided, Moves, history, TypeInv, TasksOK, TypeOK,
         Requests, None

\* if a new one does,
LEMMA AskingStep ==
  ASSUME AInv, TypeInv', Moves, issued' = issued + 1, AwaitApproval(issued + 1),
         UNCHANGED <<ran, refused>>
  PROVE  AInv'
  <1>1. issued \in Nat /\ held \in [Handlers -> Requests \cup {None}]
    BY DEF AInv, TypeInv, TypeOK, Requests
  <1> QED
    BY <1>1 DEF AInv, OnePlace, Fresh, Undecided, Moves, AwaitApproval, TypeInv, TasksOK,
                TypeOK, Requests, None

\* and if the user's command refuses the one that does.
LEMMA RefusingStep ==
  ASSUME AInv, TypeInv', Moves, state' # "AwaitingApproval", Refuse,
         UNCHANGED <<pending, issued, ran>>
  PROVE  AInv'
  BY DEF AInv, OnePlace, Fresh, Undecided, Moves, Refuse, TypeInv, TasksOK, TypeOK,
         Requests, None

LEMMA NextAInv == AInv /\ [Next]_vars => AInv'
  <1> SUFFICES ASSUME AInv, [Next]_vars PROVE AInv'
    OBVIOUS
  <1>0. TasksOK /\ TypeInv'
    BY NextTypeInv DEF AInv, TypeInv
  <1>1. ASSUME NEW h \in Handlers, StartInput(h) \/ StartControl(h) PROVE AInv'
    <2>1. Moves
      BY <1>0, <1>1, ReplyMoves, GotoMoves DEF StartInput, StartControl, Controls, Places
    <2> QED
      BY <1>0, <1>1, <2>1, QuietStep DEF StartInput, StartControl, thread
  <1>2. ASSUME NEW h \in Handlers, InputStep(h) PROVE AInv'
    <2>1. CASE SnapshotState(h) \/ Admit(h) \/ AutoCompacted(h)
      <3>1. Moves
        BY <1>0, <2>1, ReplyMoves, GotoMoves, NotResponseMoves
        DEF SnapshotState, Admit, AutoCompacted, Places
      <3> QED
        BY <1>0, <2>1, <3>1, QuietStep DEF SnapshotState, Admit, AutoCompacted, thread
    <2>2. CASE QueueMessage(h)
      <3>1. Moves
        BY <1>0, <2>2, GotoMoves, NotResponseMoves DEF QueueMessage, Places
      <3> QED
        BY <1>0, <2>2, <3>1, QuietStep DEF QueueMessage
    <2>3. CASE CheckpointLocks(h) \/ CheckpointMade(h) \/ StartTurn(h)
      <3>1. Moves
        BY <1>0, <2>3, GotoMoves DEF CheckpointLocks, CheckpointMade, StartTurn, Places
      <3> QED
        BY <1>0, <2>3, <3>1, QuietStep DEF CheckpointLocks, CheckpointMade, StartTurn, thread
    <2>4. CASE TurnInterrupted(h) \/ TurnFails(h)
      <3>1. Moves
        BY <1>0, <2>4, NotResponseMoves DEF TurnInterrupted, TurnFails
      <3> QED
        BY <1>0, <2>4, <3>1, QuietStep DEF TurnInterrupted, TurnFails, thread
    <2>5. CASE TurnResponds(h)
      <3>1. Moves
        BY <1>0, <2>5 DEF TurnResponds, TasksOK, Moves
      <3> QED
        BY <1>0, <2>5, <3>1, QuietStep DEF TurnResponds
    <2>6. CASE TurnNeedsApproval(h)
      <3>1. Moves
        BY <1>0, <2>6, NotResponseMoves DEF TurnNeedsApproval
      <3> QED
        BY <1>0, <2>6, <3>1, AskingStep DEF TurnNeedsApproval
    <2>7. CASE Drain(h)
      <3>1. CASE Suppressed(h)
        <4>1. Moves
          BY <1>0, <2>7, <3>1, GotoMoves DEF Drain, Places
        <4> QED
          BY <1>0, <2>7, <4>1, QuietStep DEF Drain
      <3>2. CASE ~Suppressed(h)
        <4>1. Moves
          BY <1>0, <2>7, <3>2 DEF Drain, TasksOK, Moves
        <4> QED
          BY <1>0, <2>7, <4>1, QuietStep DEF Drain
      <3> QED
        BY <3>1, <3>2
    <2>8. CASE DrainEmpty(h) \/ Discard(h) \/ Requeue(h)
      <3>1. Moves
        BY <1>0, <2>8, ReplyMoves DEF DrainEmpty, Discard, Requeue
      <3> QED
        BY <1>0, <2>8, <3>1, QuietStep DEF DrainEmpty, Discard, Requeue, thread
    <2> QED
      BY <1>2, <2>1, <2>2, <2>3, <2>4, <2>5, <2>6, <2>7, <2>8 DEF InputStep
  <1>3. ASSUME NEW h \in Handlers, ApprovalStep(h) PROVE AInv'
    <2>1. CASE TakePending(h)
      <3>1. CASE state = "AwaitingApproval" /\ pending # None
        BY <1>0, <2>1, <3>1 DEF TakePending, AInv, OnePlace, Fresh, Undecided, TasksOK,
           TypeInv, TypeOK, history, Requests, None
      <3>2. CASE ~(state = "AwaitingApproval" /\ pending # None)
        <4>1. Reply(h) /\ UNCHANGED <<pending, state, history>>
          BY <2>1, <3>2 DEF TakePending
        <4> QED
          BY <1>0, <4>1, ReplyMoves, QuietStep
      <3> QED
        BY <3>1, <3>2
    <2>2. CASE PutBack(h)
      <3>1. Moves /\ held'[h] = None /\ pc'[h] # "taken"
        BY <1>0, <2>2, ReplyMoves DEF PutBack
      <3> QED
        BY <1>0, <2>2, <3>1 DEF PutBack, AwaitApproval, Moves, AInv, OnePlace, Fresh,
           Undecided, TasksOK, TypeInv, TypeOK, history, Requests, None
    <2>3. CASE Approve(h)
      <3>1. Moves /\ pc'[h] # "taken" /\ UNCHANGED held
        BY <1>0, <2>3, GotoMoves DEF Approve, Places
      <3> QED
        BY <1>0, <2>3, <3>1 DEF Approve, Moves, AInv, OnePlace, Fresh, Undecided, TasksOK,
           TypeInv, TypeOK, Requests, None
    <2>4. CASE Reject(h)
      <3>1. Moves /\ held'[h] = None /\ pc'[h] # "taken"
        BY <1>0, <2>4, ReplyMoves DEF Reject
      <3> QED
        BY <1>0, <2>4, <3>1 DEF Reject, Moves, AInv, OnePlace, Fresh, Undecided, TasksOK,
           TypeInv, TypeOK, Requests, None
    <2>5. CASE NextApproval(h)
      BY <1>0, <2>5, ReplyMoves, AskingStep DEF NextApproval
    <2>6. CASE ApprovalEnds(h)
      BY <1>0, <2>6, ReplyMoves, QuietStep DEF ApprovalEnds
    <2> QED
      BY <1>3, <2>1, <2>2, <2>3, <2>4, <2>5, <2>6 DEF ApprovalStep
  <1>4. ASSUME NEW h \in Handlers, CommandStep(h) PROVE AInv'
    <2>1. CASE Interrupt(h)
      <3>1. Moves
        BY <1>0, <2>1, ReplyMoves DEF Interrupt
      <3>2. CASE state \in {"Processing", "AwaitingApproval"}
        BY <1>0, <2>1, <3>1, <3>2, RefusingStep DEF Interrupt
      <3>3. CASE state \notin {"Processing", "AwaitingApproval"}
        BY <1>0, <2>1, <3>1, <3>3, QuietStep DEF Interrupt, history
      <3> QED
        BY <3>2, <3>3
    <2>2. CASE UndoRestores(h)
      BY <1>0, <2>2, ReplyMoves, RefusingStep DEF UndoRestores
    <2>3. CASE ClearThread(h)
      <3>1. Moves
        BY <1>0, <2>3, GotoMoves DEF ClearThread, Places
      <3> QED
        BY <1>0, <2>3, <3>1, RefusingStep DEF ClearThread
    <2>4. CASE UndoLocks(h) \/ ClearUndo(h) \/ CompactLocks(h) \/ CompactEnds(h)
      <3>1. Moves
        BY <1>0, <2>4, ReplyMoves, GotoMoves
        DEF UndoLocks, ClearUndo, CompactLocks, CompactEnds, Places
      <3> QED
        BY <1>0, <2>4, <3>1, QuietStep
        DEF UndoLocks, ClearUndo, CompactLocks, CompactEnds, thread
    <2> QED
      BY <1>4, <2>1, <2>2, <2>3, <2>4 DEF CommandStep
  <1>5. ASSUME NEW h \in Handlers, Receive(h) PROVE AInv'
    <2>1. Moves
      BY <1>0, <1>5 DEF Receive, TasksOK, Moves
    <2> QED
      BY <1>0, <1>5, <2>1, QuietStep DEF Receive, thread
  <1>6. ASSUME NEW h \in Handlers, HardKill(h) \/ Panic(h) PROVE AInv'
    <2>1. Moves
      BY <1>0, <1>6, LeaveMoves DEF HardKill, Panic
    <2> QED
      BY <1>0, <1>6, <2>1, QuietStep DEF HardKill, Panic, thread
  <1>7. CASE Shutdown \/ SoftTimeout \/ ArmTimer \/ TimerResets \/ ResetAfterPanic
    <2>1. UNCHANGED <<handlers, pending, history>>
      BY <1>7 DEF Shutdown, SoftTimeout, ArmTimer, TimerResets, ResetAfterPanic,
                  FailStuckTurn, thread
    <2>2. state' \in {state, "Idle"}
      BY <1>7 DEF Shutdown, SoftTimeout, ArmTimer, TimerResets, ResetAfterPanic,
                  FailStuckTurn, thread
    <2>3. Moves
      BY <2>1 DEF handlers, Moves
    <2> QED
      BY <1>0, <2>1, <2>2, <2>3, QuietStep
  <1>8. CASE UNCHANGED vars
    <2>1. Moves
      BY <1>8 DEF vars, handlers, Moves
    <2> QED
      BY <1>0, <1>8, <2>1, QuietStep DEF vars, thread
  <1> QED
    BY <1>1, <1>2, <1>3, <1>4, <1>5, <1>6, <1>7, <1>8 DEF Next, HandlerStep, Exited

\* However answers, put-backs, aborts, panics and new requests of any number of
\* overlapping handlers interleave, process_approval runs the tool of a request at
\* most once.
THEOREM ToolsRunOnce == Spec => []RunsOnce
  <1>1. AInv => RunsOnce
    BY DEF AInv, OnePlace, Undecided, RunsOnce
  <1> QED
    BY InitAInv, NextAInv, <1>1, PTL DEF Spec

\* A tool whose request was rejected, or waited in the thread when the user
\* interrupted, undid or cleared, is not run by a late answer.
THEOREM RefusedToolsNeverRun == Spec => []RefusedNeverRuns
  <1>1. AInv => RefusedNeverRuns
    BY DEF AInv, Undecided, RefusedNeverRuns
  <1> QED
    BY InitAInv, NextAInv, <1>1, PTL DEF Spec

-----------------------------------------------------------------------------
(* The queue.  A handler that puts content back must be counted among those   *)
(* that drained (Requeuing); then a put-back moves one from the handlers to    *)
(* the queue, and everything else either empties the queue, or shortens both,  *)
(* or finds the queue below its limit.                                         *)

Requeuing == \A h \in Handlers : pc[h] \in {"requeue", "requeue_quit"} => h \in merged

QInv == TypeInv /\ Requeuing /\ QueueBounded

LEMMA MergedFinite ==
  ASSUME NEW S \in SUBSET Handlers
  PROVE  IsFiniteSet(S) /\ Cardinality(S) \in Nat /\ Cardinality(S) <= MaxHandlers
  <1>1. IsFiniteSet(Handlers) /\ Cardinality(Handlers) = MaxHandlers
    BY FS_Interval, BoundAssumption DEF Handlers
  <1>2. IsFiniteSet(S) /\ Cardinality(S) <= Cardinality(Handlers)
    BY <1>1, FS_Subset
  <1> QED
    BY <1>1, <1>2, FS_CardinalityType

LEMMA InitQInv == Init => QInv
  <1> SUFFICES ASSUME Init PROVE QInv
    OBVIOUS
  <1>1. Cardinality(merged) <= MaxHandlers /\ Cardinality(merged) \in Nat
    BY MergedFinite DEF Init
  <1> QED
    BY <1>1, InitTypeInv, BoundAssumption DEF Init, QInv, Requeuing, QueueBounded

\* Steps that fill neither the queue nor the set of handlers that drained it.
LEMMA ShrinkingStep ==
  ASSUME QInv, TypeInv', Requeuing', queued' <= queued, merged' \subseteq merged
  PROVE  QInv'
  <1>1. Cardinality(merged') <= Cardinality(merged)
    BY MergedFinite, FS_Subset DEF QInv, TypeInv, TasksOK
  <1>2. Cardinality(merged') \in Nat /\ Cardinality(merged) \in Nat
    BY MergedFinite DEF QInv, TypeInv, TasksOK
  <1> QED
    BY <1>1, <1>2, BoundAssumption DEF QInv, QueueBounded, TypeInv, TypeOK

\* Steps that leave the queue within its limit.
LEMMA FillingStep ==
  ASSUME QInv, TypeInv', Requeuing', queued' <= QueueLimit
  PROVE  QInv'
  <1>1. Cardinality(merged') \in Nat /\ Cardinality(merged') <= MaxHandlers
    BY MergedFinite DEF TypeInv, TasksOK
  <1> QED
    BY <1>1, BoundAssumption DEF QInv, QueueBounded, TypeInv, TypeOK

LEMMA LeaveRequeuing ==
  ASSUME QInv, NEW h \in Handlers, NEW m, Leave(h, m)
  PROVE  Requeuing' /\ merged' \subseteq merged /\ merged' = merged \ {h}
  BY DEF Leave, QInv, Requeuing, TypeInv, TasksOK

LEMMA ReplyRequeuing ==
  ASSUME QInv, NEW h \in Handlers, Reply(h) \/ NoReply(h)
  PROVE  Requeuing' /\ merged' \subseteq merged /\ merged' = merged \ {h}
  BY LeaveRequeuing DEF Reply, NoReply

LEMMA GotoRequeuing ==
  ASSUME QInv, NEW h \in Handlers, NEW l, Goto(h, l),
         l \in {"requeue", "requeue_quit"} => h \in merged
  PROVE  Requeuing' /\ merged' \subseteq merged
  BY DEF Goto, QInv, Requeuing, TypeInv, TasksOK

LEMMA NotResponseRequeuing ==
  ASSUME QInv, NEW h \in Handlers, NotResponse(h)
  PROVE  Requeuing' /\ merged' \subseteq merged
  BY ReplyRequeuing, GotoRequeuing DEF NotResponse

LEMMA NextQInv == QInv /\ [Next]_vars => QInv'
  <1> SUFFICES ASSUME QInv, [Next]_vars PROVE QInv'
    OBVIOUS
  <1>0. TypeInv' /\ queued \in Nat
    BY NextTypeInv DEF QInv, TypeInv, TypeOK
  <1>1. ASSUME NEW h \in Handlers, StartInput(h) \/ StartControl(h) PROVE QInv'
    <2>1. Requeuing' /\ merged' \subseteq merged
      BY <1>1, ReplyRequeuing, GotoRequeuing DEF StartInput, StartControl, Controls
    <2> QED
      BY <1>0, <1>1, <2>1, ShrinkingStep DEF StartInput, StartControl, thread
  <1>2. ASSUME NEW h \in Handlers, InputStep(h) PROVE QInv'
    <2>1. CASE SnapshotState(h) \/ AutoCompacted(h) \/ CheckpointLocks(h) \/ CheckpointMade(h)
      <3>1. Requeuing' /\ merged' \subseteq merged
        BY <2>1, NotResponseRequeuing, GotoRequeuing
        DEF SnapshotState, AutoCompacted, CheckpointLocks, CheckpointMade
      <3> QED
        BY <1>0, <2>1, <3>1, ShrinkingStep
        DEF SnapshotState, AutoCompacted, CheckpointLocks, CheckpointMade, thread
    <2>2. CASE Admit(h)
      <3>1. Requeuing' /\ merged' \subseteq merged
        BY <2>2, NotResponseRequeuing, GotoRequeuing, ReplyRequeuing DEF Admit
      <3> QED
        BY <1>0, <2>2, <3>1, ShrinkingStep DEF Admit, thread
    <2>3. CASE QueueMessage(h)
      <3>1. Requeuing' /\ merged' \subseteq merged
        BY <2>3, NotResponseRequeuing, GotoRequeuing DEF QueueMessage
      <3>2. queued' = queued \/ (queued < QueueLimit /\ queued' = queued + 1)
        BY <2>3 DEF QueueMessage
      <3>3. queued' <= queued \/ queued' <= QueueLimit
        BY <1>0, <3>2, BoundAssumption
      <3> QED
        BY <1>0, <3>1, <3>3, ShrinkingStep, FillingStep
    <2>4. CASE StartTurn(h)
      <3>1. Requeuing' /\ merged' \subseteq merged
        BY <2>4, GotoRequeuing DEF StartTurn
      <3> QED
        BY <1>0, <2>4, <3>1, ShrinkingStep DEF StartTurn
    <2>5. CASE TurnInterrupted(h) \/ TurnFails(h) \/ TurnNeedsApproval(h)
      <3>1. Requeuing' /\ merged' \subseteq merged
        BY <2>5, NotResponseRequeuing DEF TurnInterrupted, TurnFails, TurnNeedsApproval
      <3> QED
        BY <1>0, <2>5, <3>1, ShrinkingStep
        DEF TurnInterrupted, TurnFails, TurnNeedsApproval, thread
    <2>6. CASE TurnResponds(h)
      <3>1. Requeuing' /\ merged' \subseteq merged
        BY <2>6 DEF TurnResponds, QInv, Requeuing, TypeInv, TasksOK
      <3> QED
        BY <1>0, <2>6, <3>1, ShrinkingStep DEF TurnResponds
    <2>7. CASE Drain(h)
      <3>1. Requeuing'
        <4>1. CASE Suppressed(h)
          BY <2>7, <4>1, GotoRequeuing DEF Drain
        <4>2. CASE ~Suppressed(h)
          BY <2>7, <4>2 DEF Drain, QInv, Requeuing, TypeInv, TasksOK
        <4> QED
          BY <4>1, <4>2
      <3> QED
        BY <1>0, <2>7, <3>1, FillingStep, BoundAssumption DEF Drain
    <2>8. CASE DrainEmpty(h) \/ Discard(h)
      <3>1. Requeuing' /\ merged' \subseteq merged
        BY <2>8, ReplyRequeuing DEF DrainEmpty, Discard
      <3>2. queued' <= queued
        BY <1>0, <2>8 DEF DrainEmpty, Discard, thread
      <3> QED
        BY <1>0, <3>1, <3>2, ShrinkingStep
    <2>9. CASE Requeue(h)
      <3>1. Requeuing' /\ merged' = merged \ {h} /\ h \in merged
        BY <2>9, ReplyRequeuing DEF Requeue, QInv, Requeuing
      <3>2. Cardinality(merged') = Cardinality(merged) - 1
        BY <3>1, MergedFinite, FS_RemoveElement DEF QInv, TypeInv, TasksOK
      <3>3. Cardinality(merged) \in Nat
        BY MergedFinite DEF QInv, TypeInv, TasksOK
      <3>4. queued' = queued + 1
        BY <2>9 DEF Requeue
      <3> QED
        BY <1>0, <3>1, <3>2, <3>3, <3>4, BoundAssumption DEF QInv, QueueBounded
    <2> QED
      BY <1>2, <2>1, <2>2, <2>3, <2>4, <2>5, <2>6, <2>7, <2>8, <2>9 DEF InputStep
  <1>3. ASSUME NEW h \in Handlers, ApprovalStep(h) PROVE QInv'
    <2>1. queued' = queued
      BY <1>3 DEF ApprovalStep, TakePending, PutBack, Approve, Reject, NextApproval, ApprovalEnds
    <2>2. Requeuing' /\ merged' \subseteq merged
      <3>1. CASE TakePending(h)
        <4>1. CASE state = "AwaitingApproval" /\ pending # None
          BY <3>1, <4>1 DEF TakePending, QInv, Requeuing, TypeInv, TasksOK
        <4>2. CASE ~(state = "AwaitingApproval" /\ pending # None)
          BY <3>1, <4>2, ReplyRequeuing DEF TakePending
        <4> QED
          BY <4>1, <4>2
      <3>2. CASE Approve(h)
        BY <3>2, GotoRequeuing DEF Approve
      <3>3. CASE PutBack(h) \/ Reject(h) \/ NextApproval(h) \/ ApprovalEnds(h)
        BY <3>3, ReplyRequeuing DEF PutBack, Reject, NextApproval, ApprovalEnds
      <3> QED
        BY <1>3, <3>1, <3>2, <3>3 DEF ApprovalStep
    <2> QED
      BY <1>0, <2>1, <2>2, ShrinkingStep
  <1>4. ASSUME NEW h \in Handlers, CommandStep(h) PROVE QInv'
    <2>1. queued' \in {queued, 0}
      BY <1>4 DEF CommandStep, Interrupt, UndoLocks, UndoRestores, ClearThread, ClearUndo,
                  CompactLocks, CompactEnds, thread
    <2>2. Requeuing' /\ merged' \subseteq merged
      BY <1>4, ReplyRequeuing, GotoRequeuing
      DEF CommandStep, Interrupt, UndoLocks, UndoRestores, ClearThread, ClearUndo,
          CompactLocks, CompactEnds
    <2> QED
      BY <1>0, <2>1, <2>2, ShrinkingStep
  <1>5. ASSUME NEW h \in Handlers, Receive(h) PROVE QInv'
    <2>1. Requeuing' /\ merged' \subseteq merged /\ queued' = queued
      BY <1>5 DEF Receive, QInv, Requeuing, TypeInv, TasksOK, thread
    <2> QED
      BY <1>0, <2>1, ShrinkingStep
  <1>6. ASSUME NEW h \in Handlers, HardKill(h) \/ Panic(h) PROVE QInv'
    <2>1. Requeuing' /\ merged' \subseteq merged /\ queued' = queued
      BY <1>6, LeaveRequeuing DEF HardKill, Panic, thread
    <2> QED
      BY <1>0, <2>1, ShrinkingStep
  <1>7. CASE Shutdown \/ SoftTimeout \/ ArmTimer \/ TimerResets \/ ResetAfterPanic
    <2>1. UNCHANGED <<handlers, queued>>
      BY <1>7 DEF Shutdown, SoftTimeout, ArmTimer, TimerResets, ResetAfterPanic,
                  FailStuckTurn, thread
    <2>2. Requeuing' /\ merged' \subseteq merged
      BY <2>1 DEF handlers, QInv, Requeuing
    <2> QED
      BY <1>0, <2>1, <2>2, ShrinkingStep
  <1>8. CASE UNCHANGED vars
    BY <1>8 DEF vars, handlers, thread, QInv, TypeInv, TypeOK, TasksOK, Requeuing,
                QueueBounded, loop, history
  <1> QED
    BY <1>1, <1>2, <1>3, <1>4, <1>5, <1>6, <1>7, <1>8 DEF Next, HandlerStep, Exited

\* requeue_drained bypasses MAX_PENDING_MESSAGES; still a thread's queue never holds
\* more than the limit and one entry for each handler alive.
THEOREM QueueIsBounded == Spec => []QueueBounded
  <1>1. QInv => QueueBounded
    BY DEF QInv
  <1> QED
    BY InitQInv, NextQInv, <1>1, PTL DEF Spec

=============================================================================
