----------------------------- MODULE ChatAgent -----------------------------
(***************************************************************************)
(* One thread of one user, as the agent serves it: the main loop with its  *)
(* soft timeout and hard-kill timer (agent/agent_loop.rs), handle_message  *)
(* and its drain loop, user input, approvals, interrupt, undo, clear and   *)
(* compaction (agent/thread_ops.rs), the thread record (agent/session.rs)  *)
(* and the agentic loop as far as it changes that record                   *)
(* (agent/dispatcher.rs).                                                  *)
(*                                                                         *)
(* A handler is a spawned handle_message.  Two of them run at the same     *)
(* time only after a soft timeout, when the main loop reads on while the   *)
(* handler it gave up on still works.  All of them share the session, a    *)
(* mutex that some steps hold across an await, and the thread's undo       *)
(* manager, another mutex.  A step is what happens between two awaits that *)
(* another task can tell apart; abort() is taken to land at an await.      *)
(*                                                                         *)
(* Turns, texts and undo stacks are left out: what the LLM, the tools, the *)
(* validation and the user answer is a choice.  Approval requests are      *)
(* numbered in the order they are made.                                    *)
(***************************************************************************)
EXTENDS Naturals, FiniteSets

CONSTANTS
  MaxHandlers, \* bound: handlers alive at the same time
  QueueLimit,  \* MAX_PENDING_MESSAGES
  MaxRequests  \* bound: approval requests made

ASSUME BoundAssumption ==
  MaxHandlers \in Nat /\ QueueLimit \in Nat /\ MaxRequests \in Nat

Handlers == 1..MaxHandlers
Requests == 1..MaxRequests
None == 0

VARIABLES
  state,    \* Thread.state; Completed is never set
  pending,  \* Thread.pending_approval
  queued,   \* length of Thread.pending_messages
  pc,       \* where a handler is
  merged,   \* handlers that process content drained from the queue
  held,     \* request a handler took from the thread
  main,     \* where the main loop is
  current,  \* the handler the main loop waits for, or has just given up on
  armed,    \* handlers with a hard-kill timer
  timers,   \* hard-kill timers whose handler is gone and that have not looked at the thread
  issued,   \* requests made so far
  ran,      \* history: requests whose tool was executed
  refused   \* history: requests rejected, or pending when the user cancelled

thread == <<state, pending, queued>>
handlers == <<pc, merged, held>>
loop == <<main, current, armed, timers>>
history == <<issued, ran, refused>>
vars == <<thread, handlers, loop, history>>

Init ==
  /\ state = "Idle" /\ pending = None /\ queued = 0
  /\ pc = [h \in Handlers |-> "free"]
  /\ merged = {}
  /\ held = [h \in Handlers |-> None]
  /\ main = "reading"
  /\ current = None
  /\ armed = {} /\ timers = 0
  /\ issued = 0 /\ ran = {} /\ refused = {}

-----------------------------------------------------------------------------
(* Locks, and how a handler goes on *)

\* places where a handler keeps the session mutex over an await
HoldsSession == {"compacting", "checkpoint", "clearing", "compact"}
SessionFree == \A h \in Handlers : pc[h] \notin HoldsSession

\* undo, redo and resume keep the undo manager while they wait for the session
UndoFree == \A h \in Handlers : pc[h] # "undoing"

\* the soft timeout has fired for this handler
Suppressed(h) == h \in armed \/ (main = "snapshot" /\ current = h)

Goto(h, l) == pc' = [pc EXCEPT ![h] = l] /\ UNCHANGED <<merged, held, loop>>

\* the handler's task is over, with what it held; a main loop that waits for it
\* goes on with m, and its timer, if it has one, still fires
Leave(h, m) ==
  /\ pc' = [pc EXCEPT ![h] = "free"]
  /\ merged' = merged \ {h}
  /\ held' = [held EXCEPT ![h] = None]
  /\ main' = IF main = "waiting" /\ current = h THEN m ELSE main
  /\ current' = IF current = h THEN None ELSE current
  /\ armed' = armed \ {h}
  /\ timers' = IF h \in armed THEN timers + 1 ELSE timers

\* handle_message returns Some(text) or an error; or None, which the main loop
\* takes for the shutdown command
Reply(h) == Leave(h, "reading")
NoReply(h) == Leave(h, "stopped")

\* process_user_input returned something else than a response: content that came
\* from the queue goes back to it
NotResponse(h) == IF h \in merged THEN Goto(h, "requeue") ELSE Reply(h)

\* Thread::await_approval
AwaitApproval(r) == state' = "AwaitingApproval" /\ pending' = r

\* a user's command makes the request that waits void
Refuse == refused' = IF state = "AwaitingApproval" /\ pending # None
                     THEN refused \cup {pending} ELSE refused

-----------------------------------------------------------------------------
(* handle_message, by kind of submission *)

\* UserInput: a hook may reject it, in auth mode it is a token, a routine may consume
\* it; anything else goes on to process_user_input
StartInput(h) ==
  /\ pc[h] = "new"
  /\ Reply(h) \/ (SessionFree /\ Goto(h, "input"))
  /\ UNCHANGED <<thread, history>>

Controls == {"approval", "interrupt", "undo", "clear", "compactor"}

\* the commands that do not touch the thread, and quit, end here
StartControl(h) ==
  /\ pc[h] = "new" /\ SessionFree
  /\ \/ \E l \in Controls : Goto(h, l)
     \/ Reply(h)
     \/ NoReply(h)
  /\ UNCHANGED <<thread, history>>


-----------------------------------------------------------------------------
(* process_user_input *)

SnapshotState(h) ==
  /\ pc[h] = "input" /\ SessionFree
  /\ \/ state = "Processing" /\ Goto(h, "queueing")
     \/ state = "AwaitingApproval" /\ NotResponse(h)
     \/ state \in {"Idle", "Interrupted"} /\ Goto(h, "admitted")
  /\ UNCHANGED <<thread, history>>

\* the state is read again; a message may be refused, and is when the queue is full
QueueMessage(h) ==
  /\ pc[h] = "queueing" /\ SessionFree
  /\ \/ state # "Processing" /\ Goto(h, "admitted") /\ UNCHANGED queued
     \/ /\ state = "Processing"
        /\ queued' = IF queued < QueueLimit THEN queued + 1 ELSE queued
        /\ NotResponse(h)
     \/ state = "Processing" /\ NotResponse(h) /\ UNCHANGED queued
  /\ UNCHANGED <<state, pending, history>>

\* validation fails; or the content is a command, answered, or one of those that
\* return nothing; or the session is locked to compact the context if that is needed
Admit(h) ==
  /\ pc[h] = "admitted"
  /\ \/ NotResponse(h)
     \/ Goto(h, "drain")
     \/ IF h \in merged THEN Goto(h, "requeue_quit") ELSE NoReply(h)
     \/ SessionFree /\ Goto(h, "compacting")
  /\ UNCHANGED <<thread, history>>

AutoCompacted(h) ==
  /\ pc[h] = "compacting"
  /\ Goto(h, "compacted")
  /\ UNCHANGED <<thread, history>>

\* the checkpoint is made with the session locked
CheckpointLocks(h) ==
  /\ pc[h] = "compacted" /\ SessionFree
  /\ Goto(h, "checkpoint")
  /\ UNCHANGED <<thread, history>>

CheckpointMade(h) ==
  /\ pc[h] = "checkpoint" /\ UndoFree
  /\ Goto(h, "starting")
  /\ UNCHANGED <<thread, history>>

StartTurn(h) ==
  /\ pc[h] = "starting" /\ SessionFree
  /\ state' = "Processing"
  /\ Goto(h, "running")
  /\ UNCHANGED <<pending, queued, history>>

\* the turn was interrupted; what the loop returned is dropped
TurnInterrupted(h) ==
  /\ pc[h] = "running" /\ SessionFree
  /\ state = "Interrupted"
  /\ NotResponse(h)
  /\ UNCHANGED <<thread, history>>

TurnResponds(h) ==
  /\ pc[h] = "running" /\ SessionFree
  /\ state # "Interrupted"
  /\ state' = "Idle"
  /\ pc' = [pc EXCEPT ![h] = "drain"]
  /\ merged' = merged \ {h}
  /\ UNCHANGED <<pending, queued, held, loop, history>>

TurnFails(h) ==
  /\ pc[h] = "running" /\ SessionFree
  /\ state # "Interrupted"
  /\ state' = "Idle"
  /\ NotResponse(h)
  /\ UNCHANGED <<pending, queued, history>>

TurnNeedsApproval(h) ==
  /\ pc[h] = "running" /\ SessionFree
  /\ state # "Interrupted"
  /\ issued < MaxRequests
  /\ issued' = issued + 1
  /\ AwaitApproval(issued + 1)
  /\ NotResponse(h)
  /\ UNCHANGED <<queued, ran, refused>>

-----------------------------------------------------------------------------
(* The drain loop: only a response gets here *)

\* nothing queued: the last response is the answer, unless it is the silent one
DrainEmpty(h) ==
  /\ pc[h] = "drain" /\ SessionFree
  /\ queued = 0
  /\ Reply(h) \/ NoReply(h)
  /\ UNCHANGED <<thread, history>>

\* Mutant: what is processed stays in the queue.
DrainByPeek(h) ==
  /\ pc[h] = "drain" /\ SessionFree
  /\ queued > 0
  /\ IF Suppressed(h)
     THEN Goto(h, "discard")
     ELSE /\ pc' = [pc EXCEPT ![h] = "input"]
          /\ merged' = merged \cup {h}
          /\ UNCHANGED <<held, loop>>
  /\ UNCHANGED <<thread, history>>

Drain(h) ==
  /\ pc[h] = "drain" /\ SessionFree
  /\ queued > 0
  /\ queued' = 0
  /\ IF Suppressed(h)
     THEN Goto(h, "discard")
     ELSE /\ pc' = [pc EXCEPT ![h] = "input"]
          /\ merged' = merged \cup {h}
          /\ UNCHANGED <<held, loop>>
  /\ UNCHANGED <<state, pending, history>>

Discard(h) ==
  /\ pc[h] = "discard" /\ SessionFree
  /\ queued' = 0
  /\ Reply(h)
  /\ UNCHANGED <<state, pending, history>>

\* requeue_drained ignores the limit
Requeue(h) ==
  /\ SessionFree
  /\ \/ pc[h] = "requeue" /\ Reply(h)
     \/ pc[h] = "requeue_quit" /\ NoReply(h)
  /\ queued' = queued + 1
  /\ UNCHANGED <<state, pending, history>>

-----------------------------------------------------------------------------
(* process_approval *)

\* Mutant: the request is copied, not taken.
TakeByClone(h) ==
  /\ pc[h] = "approval" /\ SessionFree
  /\ IF state = "AwaitingApproval" /\ pending # None
     THEN /\ held' = [held EXCEPT ![h] = pending]
          /\ pc' = [pc EXCEPT ![h] = "taken"]
          /\ UNCHANGED <<pending, merged, loop>>
     ELSE Reply(h) /\ UNCHANGED pending
  /\ UNCHANGED <<state, queued, history>>

\* Mutant: the thread's state is not looked at.
TakeInAnyState(h) ==
  /\ pc[h] = "approval" /\ SessionFree
  /\ IF pending # None
     THEN /\ held' = [held EXCEPT ![h] = pending]
          /\ pending' = None
          /\ pc' = [pc EXCEPT ![h] = "taken"]
          /\ UNCHANGED <<merged, loop>>
     ELSE Reply(h) /\ UNCHANGED pending
  /\ UNCHANGED <<state, queued, history>>

\* take_pending_approval
TakePending(h) ==
  /\ pc[h] = "approval" /\ SessionFree
  /\ IF state = "AwaitingApproval" /\ pending # None
     THEN /\ held' = [held EXCEPT ![h] = pending]
          /\ pending' = None
          /\ pc' = [pc EXCEPT ![h] = "taken"]
          /\ UNCHANGED <<merged, loop>>
     ELSE Reply(h) /\ UNCHANGED pending
  /\ UNCHANGED <<state, queued, history>>

\* the answer names another request
PutBack(h) ==
  /\ pc[h] = "taken" /\ SessionFree
  /\ AwaitApproval(held[h])
  /\ Reply(h)
  /\ UNCHANGED <<queued, history>>

Approve(h) ==
  /\ pc[h] = "taken" /\ SessionFree
  /\ state' = "Processing"
  /\ ran' = ran \cup {held[h]}
  /\ Goto(h, "executing")
  /\ UNCHANGED <<pending, queued, issued, refused>>

Reject(h) ==
  /\ pc[h] = "taken" /\ SessionFree
  /\ state' = "Idle"
  /\ pending' = None
  /\ refused' = refused \cup {held[h]}
  /\ Reply(h)
  /\ UNCHANGED <<queued, issued, ran>>

\* a deferred call, or a call of the loop that follows, needs an approval
NextApproval(h) ==
  /\ pc[h] = "executing" /\ SessionFree
  /\ issued < MaxRequests
  /\ issued' = issued + 1
  /\ AwaitApproval(issued + 1)
  /\ Reply(h)
  /\ UNCHANGED <<queued, ran, refused>>

\* Mutant: the turn is left open, as an early return would.
ApprovalLeavesTurn(h) ==
  /\ pc[h] = "executing" /\ SessionFree
  /\ Reply(h) \/ NoReply(h)
  /\ UNCHANGED <<thread, history>>

\* the loop that follows the tool has ended, or the tool wants a token and there is no
\* loop; an interrupt is not looked for here, and the queue is not drained
ApprovalEnds(h) ==
  /\ pc[h] = "executing" /\ SessionFree
  /\ state' = "Idle"
  /\ Reply(h) \/ NoReply(h)
  /\ UNCHANGED <<pending, queued, history>>

-----------------------------------------------------------------------------
(* The other commands *)

Interrupt(h) ==
  /\ pc[h] = "interrupt" /\ SessionFree
  /\ IF state \in {"Processing", "AwaitingApproval"}
     THEN state' = "Interrupted" /\ queued' = 0 /\ Refuse
     ELSE UNCHANGED <<state, queued, refused>>
  /\ Reply(h)
  /\ UNCHANGED <<pending, issued, ran>>

\* process_undo, process_redo and process_resume
UndoLocks(h) ==
  /\ pc[h] = "undo" /\ UndoFree
  /\ Reply(h) \/ Goto(h, "undoing")
  /\ UNCHANGED <<thread, history>>

UndoRestores(h) ==
  /\ pc[h] = "undoing" /\ SessionFree
  /\ state' = "Idle"
  /\ Refuse
  /\ Reply(h)
  /\ UNCHANGED <<pending, queued, issued, ran>>

ClearThread(h) ==
  /\ pc[h] = "clear" /\ SessionFree
  /\ state' = "Idle" /\ queued' = 0
  /\ Refuse
  /\ Goto(h, "clearing")
  /\ UNCHANGED <<pending, issued, ran>>

ClearUndo(h) ==
  /\ pc[h] = "clearing" /\ UndoFree
  /\ Reply(h)
  /\ UNCHANGED <<thread, history>>

CompactLocks(h) ==
  /\ pc[h] = "compactor" /\ SessionFree
  /\ Goto(h, "compact")
  /\ UNCHANGED <<thread, history>>

CompactEnds(h) ==
  /\ pc[h] = "compact"
  /\ Reply(h)
  /\ UNCHANGED <<thread, history>>

-----------------------------------------------------------------------------
(* The main loop and its timers *)

Receive(h) ==
  /\ main = "reading"
  /\ pc[h] = "free" /\ \A g \in 1..(h - 1) : pc[g] # "free"
  /\ pc' = [pc EXCEPT ![h] = "new"]
  /\ main' = "waiting" /\ current' = h
  /\ UNCHANGED <<thread, merged, held, armed, timers, history>>

\* a signal, or the end of all channels
Shutdown ==
  /\ main = "reading"
  /\ main' = "stopped"
  /\ UNCHANGED <<thread, handlers, current, armed, timers, history>>

\* the number of timers is bounded by that of the handlers
SoftTimeout ==
  /\ main = "waiting"
  /\ timers + Cardinality(armed) < MaxHandlers
  /\ main' = "snapshot"
  /\ UNCHANGED <<thread, handlers, current, armed, timers, history>>

\* the state is logged, under the session's lock, before the timer is set
ArmTimer ==
  /\ main = "snapshot" /\ SessionFree
  /\ main' = "reading" /\ current' = None
  /\ IF current = None
     THEN timers' = timers + 1 /\ UNCHANGED armed
     ELSE armed' = armed \cup {current} /\ UNCHANGED timers
  /\ UNCHANGED <<thread, handlers, history>>

\* Mutant: the handler is not aborted.
HardKillSpares(h) ==
  /\ h \in armed
  /\ armed' = armed \ {h} /\ timers' = timers + 1
  /\ UNCHANGED <<thread, handlers, main, current, history>>

\* the grace period is over: abort() drops the handler with its locks
HardKill(h) ==
  /\ h \in armed
  /\ Leave(h, "reading")
  /\ UNCHANGED <<thread, history>>

\* Mutant: the thread is closed with its turn.
FailStuckTurnCompleted ==
  /\ state' = IF state = "Processing" THEN "Completed" ELSE state
  /\ UNCHANGED <<pending, queued, handlers, history>>

\* fail_turn, if a turn is being processed
FailStuckTurn ==
  /\ state' = IF state = "Processing" THEN "Idle" ELSE state
  /\ UNCHANGED <<pending, queued, handlers, history>>

TimerResets ==
  /\ timers > 0 /\ SessionFree
  /\ timers' = timers - 1
  /\ UNCHANGED <<main, current, armed>>
  /\ FailStuckTurn

Panic(h) ==
  /\ pc[h] # "free"
  /\ Leave(h, "reset")
  /\ UNCHANGED <<thread, history>>

ResetAfterPanic ==
  /\ main = "reset" /\ SessionFree
  /\ main' = "reading"
  /\ UNCHANGED <<current, armed, timers>>
  /\ FailStuckTurn

-----------------------------------------------------------------------------
InputStep(h) ==
  \/ SnapshotState(h) \/ QueueMessage(h) \/ Admit(h) \/ AutoCompacted(h)
  \/ CheckpointLocks(h) \/ CheckpointMade(h) \/ StartTurn(h)
  \/ TurnInterrupted(h) \/ TurnResponds(h) \/ TurnFails(h) \/ TurnNeedsApproval(h)
  \/ DrainEmpty(h) \/ Drain(h) \/ Discard(h) \/ Requeue(h)

ApprovalStep(h) ==
  \/ TakePending(h) \/ PutBack(h) \/ Approve(h) \/ Reject(h)
  \/ NextApproval(h) \/ ApprovalEnds(h)

CommandStep(h) ==
  \/ Interrupt(h) \/ UndoLocks(h) \/ UndoRestores(h) \/ ClearThread(h) \/ ClearUndo(h)
  \/ CompactLocks(h) \/ CompactEnds(h)

HandlerStep(h) ==
  \/ StartInput(h) \/ StartControl(h) \/ InputStep(h) \/ ApprovalStep(h) \/ CommandStep(h)

\* the process ends with its main loop
Exited == main = "stopped" /\ UNCHANGED vars

Next ==
  \/ /\ main # "stopped"
     /\ \/ \E h \in Handlers : HandlerStep(h) \/ Receive(h) \/ HardKill(h) \/ Panic(h)
        \/ Shutdown \/ SoftTimeout \/ ArmTimer \/ TimerResets \/ ResetAfterPanic
  \/ Exited

Spec == Init /\ [][Next]_vars

\* tokio's mutexes serve waiters in order of arrival, LLM calls and tools have
\* timeouts, and timers fire.
Live(A) == main # "stopped" /\ A
Fairness ==
  /\ \A h \in Handlers : SF_vars(Live(HandlerStep(h))) /\ WF_vars(Live(HardKill(h)))
  /\ WF_vars(Live(SoftTimeout)) /\ WF_vars(Live(ArmTimer)) /\ WF_vars(Live(ResetAfterPanic))
  /\ SF_vars(Live(TimerResets))

FairSpec == Spec /\ Fairness

-----------------------------------------------------------------------------
(* Properties *)

Places ==
  {"free", "new", "input", "queueing", "admitted", "compacting",
   "compacted", "checkpoint", "starting", "running", "drain", "discard",
   "requeue", "requeue_quit", "taken", "executing", "undoing", "clearing",
   "compact"} \cup Controls

\* Every variable has its type.
TypeOK ==
  /\ state \in {"Idle", "Processing", "AwaitingApproval", "Interrupted"}
  /\ pending \in Requests \cup {None}
  /\ queued \in Nat
  /\ pc \in [Handlers -> Places]
  /\ merged \subseteq Handlers
  /\ held \in [Handlers -> Requests \cup {None}]
  /\ main \in {"reading", "waiting", "snapshot", "reset", "stopped"}
  /\ current \in Handlers \cup {None}
  /\ armed \subseteq Handlers /\ timers \in Nat
  /\ issued \in 0..MaxRequests /\ ran \subseteq Requests /\ refused \subseteq Requests

\* An approved tool runs once: a request is in one place only, the thread or one
\* handler, and is nowhere to be approved again once its tool ran, however answers,
\* put-backs, timeouts and new requests overlap.
RunsOnce ==
  /\ pending \notin ran
  /\ \A h \in Handlers : held[h] # None =>
       /\ held[h] # pending
       /\ \A g \in Handlers \ {h} : held[g] # held[h]
       /\ held[h] \in ran => pc[h] # "taken"

\* A tool the user rejected, or whose request waited when the user interrupted, undid
\* or cleared, never runs.  The request stays in the thread then: only the thread's
\* state keeps an answer from reaching it.
RefusedNeverRuns == ran \cap refused = {}

\* Re-queueing ignores the queue's limit: the queue still exceeds it by no more than one
\* entry for each handler alive, counting those that have drained it.
QueueBounded ==
  queued + Cardinality(merged) <= QueueLimit + MaxHandlers

\* "This prevents the thread from getting stuck in Processing state forever."
ProcessingEnds == state = "Processing" ~> state # "Processing" \/ main = "stopped"

\* The main loop gets back to its messages after every one of them, although input and
\* undo take the session and the undo manager in opposite orders.
LoopReturns == main # "reading" ~> main \in {"reading", "stopped"}

=============================================================================
