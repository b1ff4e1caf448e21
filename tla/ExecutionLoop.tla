---------------------------- MODULE ExecutionLoop ----------------------------
(***************************************************************************)
(* One engine thread from its creation to a terminal state: the task       *)
(* ThreadManager::start_thread spawns, ExecutionLoop::run, and the         *)
(* iteration the bundled orchestrator (orchestrator/default.py, run_loop)  *)
(* drives through the host functions of executor/orchestrator.rs.          *)
(*                                                                         *)
(* A thread is run, paused at an execution gate and resumed several times; *)
(* each run loads the thread from the store and writes it back.  Runs of   *)
(* one thread do not overlap here (ThreadManager.tla is about that).       *)
(*                                                                         *)
(* LLM answers, the outcome of code and of tool calls, and the time budget *)
(* are inputs.  A call uses one token, or none when the provider reports   *)
(* no usage, and costs one unit of money.                                  *)
(***************************************************************************)
EXTENDS Naturals, Sequences, ThreadTypes

CONSTANTS
  MaxIterations,   \* ThreadConfig.max_iterations
  MaxNudges,       \* max_tool_intent_nudges
  MaxObligations,  \* max_action_requirement_nudges
  MaxErrors,       \* max_consecutive_errors
  MaxTokens,       \* max_tokens_total
  MaxCost,         \* max_budget_usd
  RequireAction,   \* require_action_attempt
  Mailbox,         \* capacity of the signal channel
  MaxSignals       \* bound: signals sent during the life of the thread

ASSUME LoopAssumption ==
  /\ MaxIterations \in Nat
  /\ MaxNudges \in Nat
  /\ MaxObligations \in Nat
  /\ MaxErrors \in Nat
  /\ MaxTokens \in Nat
  /\ MaxCost \in Nat
  /\ RequireAction \in BOOLEAN
  /\ Mailbox \in Nat
  /\ MaxSignals \in Nat

VARIABLES
  pc,        \* where the task is; "idle": no task
  thread,    \* the task's copy: state, step_count, total_tokens_used,
             \* total_cost_usd, has it a runtime_checkpoint
  loop,      \* locals of run_loop: the two nudge counters, consecutive
             \* errors, and the action-attempt obligation
  resp,      \* class of the LLM answer being handled
  outcome,   \* how the latest run ended
  mailbox,   \* signals sent and not yet read
  saved,     \* the thread as the store has it
  up,        \* the process runs
  ghost      \* history: LLM calls made for the thread, signals sent to it, and
             \* whether a write to the store ever failed

vars == <<pc, thread, loop, resp, outcome, mailbox, saved, up, ghost>>

Outcomes == {"Completed", "Stopped", "MaxIterations", "Failed", "GatePaused"}
Responses == {"final", "intent", "text", "code", "actions"}

FreshLoop == [nudges |-> 0, errors |-> 0, owed |-> "nothing", obligations |-> 0]

NewThread == [state |-> "Created", steps |-> 0, tokens |-> 0, cost |-> 0, ckpt |-> "none"]

\* spawn_thread_with_history: the thread is saved, then its task is started.
Init ==
  /\ pc = "start"
  /\ thread = NewThread
  /\ loop = FreshLoop
  /\ resp = "none"
  /\ outcome = "none"
  /\ mailbox = <<>>
  /\ saved = NewThread
  /\ up = TRUE
  /\ ghost = [calls |-> 0, sent |-> 0, store |-> "ok"]

-----------------------------------------------------------------------------
(* Persistence *)

\* persist_runtime_state writes the step, the events and the thread side by
\* side and fails if any of the three does, so a failure may leave the new
\* thread in the store as well as the old one.
PersistOk(t) == saved' = t /\ ghost' = ghost
PersistFails(t) == saved' \in {saved, t} /\ ghost' = [ghost EXCEPT !.store = "failed"]

-----------------------------------------------------------------------------
(* ExecutionLoop::run up to the orchestrator *)

\* The obligation is enabled by the configuration or by the wording of the
\* latest user message; every counter of run_loop starts from zero.
Start ==
  /\ pc = "start"
  /\ CanTransition(thread.state, "Running")
  /\ thread' = [thread EXCEPT !.state = "Running"]
  /\ loop' \in {FreshLoop, [FreshLoop EXCEPT !.owed = "action"]}
  /\ RequireAction => loop'.owed = "action"
  /\ \/ PersistOk(thread') /\ pc' = "head" /\ UNCHANGED outcome
     \/ PersistFails(thread') /\ pc' = "record" /\ outcome' = "Failed"
  /\ UNCHANGED <<resp, mailbox, up>>

-----------------------------------------------------------------------------
(* One iteration of run_loop *)

\* __transition_to__ followed by a return: the orchestrator's result.
Finish(state, result) ==
  /\ thread' = [thread EXCEPT !.state = state]
  /\ outcome' = result
  /\ pc' = "cleanup"

\* __save_checkpoint__ puts the checkpoint into the task's copy.
Checkpointed(t) == [t EXCEPT !.ckpt = "set"]

Exhausted ==
  /\ pc = "head"
  /\ thread.steps >= MaxIterations
  /\ Finish("Completed", "MaxIterations")
  /\ UNCHANGED <<loop, resp, mailbox, saved, up, ghost>>

\* __check_signals__ reads at most one signal per iteration; Suspend is
\* treated as Stop.
Stop ==
  /\ pc = "head"
  /\ thread.steps < MaxIterations
  /\ mailbox # <<>>
  /\ Head(mailbox) \in {"stop", "suspend"}
  /\ mailbox' = Tail(mailbox)
  /\ Finish("Completed", "Stopped")
  /\ UNCHANGED <<loop, resp, saved, up, ghost>>

\* An injected message joins the transcript and may renew the obligation.
ReadInjected ==
  \/ /\ mailbox = <<>>
     /\ UNCHANGED <<mailbox, loop>>
  \/ /\ mailbox # <<>>
     /\ Head(mailbox) = "inject"
     /\ mailbox' = Tail(mailbox)
     /\ loop' \in {loop, [loop EXCEPT !.owed = "action", !.obligations = 0]}

OverBudget == thread.tokens >= MaxTokens \/ thread.cost >= MaxCost

\* The time budget may run out at any iteration.
BudgetExhausted ==
  /\ pc = "head"
  /\ thread.steps < MaxIterations
  /\ ReadInjected
  /\ Finish("Completed", "Completed")
  /\ UNCHANGED <<resp, saved, up, ghost>>

Proceed ==
  /\ pc = "head"
  /\ thread.steps < MaxIterations
  /\ ReadInjected
  /\ ~OverBudget
  /\ pc' = "llm"
  /\ UNCHANGED <<thread, resp, outcome, saved, up, ghost>>

\* __llm_complete__ and the step_completed event, which counts the step and
\* its tokens but not its cost.
LlmAnswers ==
  /\ pc = "llm"
  /\ resp' \in Responses
  /\ \E used \in 0..1 : thread' = [thread EXCEPT !.steps = @ + 1, !.tokens = @ + used]
  /\ ghost' = [ghost EXCEPT !.calls = @ + 1]
  /\ pc' = "act"
  /\ UNCHANGED <<loop, outcome, mailbox, saved, up>>

\* signals_tool_intent, while nudges are left.
MayNudge == resp = "intent" /\ loop.nudges < MaxNudges

\* An owed action attempt; it is asked for only when an action is available.
MayOblige ==
  /\ resp \in {"intent", "text"}
  /\ ~MayNudge
  /\ loop.owed = "action"
  /\ loop.nudges = 0
  /\ loop.obligations < MaxObligations

\* FINAL(), or text that is neither nudged nor (with no action available)
\* held against the obligation, is the answer.
TextAnswer ==
  /\ pc = "act"
  /\ resp \in {"final", "intent", "text"}
  /\ ~MayNudge
  /\ Finish("Completed", "Completed")
  /\ UNCHANGED <<loop, resp, mailbox, saved, up, ghost>>

\* Mutant of Nudge: the counter runs the wrong way.
NudgeDown ==
  /\ pc = "act"
  /\ MayNudge
  /\ loop' = [loop EXCEPT !.nudges = @ - 1]
  /\ pc' = "head"
  /\ UNCHANGED <<thread, resp, outcome, mailbox, saved, up, ghost>>

Nudge ==
  /\ pc = "act"
  /\ MayNudge
  /\ loop' = [loop EXCEPT !.nudges = @ + 1]
  /\ pc' = "head"
  /\ UNCHANGED <<thread, resp, outcome, mailbox, saved, up, ghost>>

ObligationNudge ==
  /\ pc = "act"
  /\ MayOblige
  /\ loop' = [loop EXCEPT !.obligations = @ + 1]
  /\ pc' = "head"
  /\ UNCHANGED <<thread, resp, outcome, mailbox, saved, up, ghost>>

\* Mutant of GatePause: the orchestrator forgets the transition and nothing
\* normalises it.
GatePauseRunning ==
  /\ pc = "act"
  /\ resp \in {"code", "actions"}
  /\ thread' = Checkpointed(thread)
  /\ outcome' = "GatePaused"
  /\ pc' = "cleanup"
  /\ UNCHANGED <<loop, resp, mailbox, saved, up, ghost>>

\* A gate inside the code or one of the tool calls: checkpoint, Waiting.
GatePause ==
  /\ pc = "act"
  /\ resp \in {"code", "actions"}
  /\ thread' = [Checkpointed(thread) EXCEPT !.state = "Waiting"]
  /\ outcome' = "GatePaused"
  /\ pc' = "cleanup"
  /\ UNCHANGED <<loop, resp, mailbox, saved, up, ghost>>

CodeFinal ==
  /\ pc = "act"
  /\ resp = "code"
  /\ Finish("Completed", "Completed")
  /\ UNCHANGED <<loop, resp, mailbox, saved, up, ghost>>

CodeErrors ==
  /\ pc = "act"
  /\ resp = "code"
  /\ loop' = [loop EXCEPT !.errors = @ + 1, !.owed = "nothing"]
  /\ \/ /\ loop'.errors >= MaxErrors
        /\ Finish("Failed", "Failed")
     \/ /\ loop'.errors < MaxErrors
        /\ thread' = Checkpointed(thread)
        /\ pc' = "head"
        /\ UNCHANGED outcome
  /\ UNCHANGED <<resp, mailbox, saved, up, ghost>>

\* Code without an error resets the error counter; tool calls leave it alone.
\* LLM calls that code makes on its own (llm_query, rlm_query) leave the
\* counters of the thread alone.
StepDone ==
  /\ pc = "act"
  /\ resp \in {"code", "actions"}
  /\ loop' = [loop EXCEPT !.errors = IF resp = "code" THEN 0 ELSE @, !.owed = "nothing"]
  /\ thread' = Checkpointed(thread)
  /\ pc' = "head"
  /\ UNCHANGED <<resp, outcome, mailbox, saved, up, ghost>>

\* The LLM call fails, the VM hits a limit or panics, even after the
\* orchestrator moved the thread to its final state.
Broken ==
  /\ pc \in {"head", "llm", "act", "cleanup"}
  /\ pc' = "broken"
  /\ UNCHANGED <<thread, loop, resp, outcome, mailbox, saved, up, ghost>>

-----------------------------------------------------------------------------
(* The rest of ExecutionLoop::run and of the spawned task *)

\* The checkpoint is cleared and the thread persisted; a store error turns
\* the outcome into a failure without touching the thread's state.
Persisted(t, o) ==
  /\ thread' = t
  /\ \/ PersistOk(t) /\ outcome' = o
     \/ PersistFails(t) /\ outcome' = "Failed"
  /\ pc' = "record"
  /\ UNCHANGED <<loop, resp, mailbox, up>>

Cleanup ==
  /\ pc = "cleanup"
  /\ Persisted([thread EXCEPT !.ckpt = "none"], outcome)

\* Mutant of FailRun: the orchestrator is started again.
FailRunRetries ==
  /\ pc = "broken"
  /\ pc' = "head"
  /\ UNCHANGED <<thread, loop, resp, outcome, mailbox, saved, up, ghost>>

FailRun ==
  /\ pc = "broken"
  /\ Persisted([thread EXCEPT !.ckpt = "none", !.state = Transition(@, "Failed")], "Failed")

\* Completed -> Done and the final save, whose failure is only logged.  The
\* signal channel goes away with the task.
Record ==
  /\ pc = "record"
  /\ thread' = [thread EXCEPT !.state = Transition(@, "Done")]
  /\ PersistOk(thread') \/ PersistFails(thread')
  /\ pc' = "idle"
  /\ mailbox' = <<>>
  /\ UNCHANGED <<loop, resp, outcome, up>>

-----------------------------------------------------------------------------
(* The thread's surroundings *)

\* stop_thread and inject_message find the thread in the running set and put
\* a signal into its channel.  Nothing in the program sends Suspend.
Send(s) ==
  /\ up
  /\ pc # "idle"
  /\ Len(mailbox) < Mailbox
  /\ ghost.sent < MaxSignals
  /\ mailbox' = Append(mailbox, s)
  /\ ghost' = [ghost EXCEPT !.sent = @ + 1]
  /\ UNCHANGED <<pc, thread, loop, resp, outcome, saved, up>>

\* Mutant of Resume: every run gets a fresh iteration budget.
ResumeFromZero ==
  /\ up
  /\ pc = "idle"
  /\ saved.state \in {"Waiting", "Suspended"}
  /\ ghost.calls <= MaxIterations
  /\ thread' = [saved EXCEPT !.steps = 0, !.ckpt = "none"]
  /\ saved' = thread'
  /\ pc' = "start"
  /\ outcome' = "none"
  /\ mailbox' = <<>>
  /\ UNCHANGED <<loop, resp, up, ghost>>

\* resume_thread: the gate was resolved, or a suspended thread is picked up.
Resume ==
  /\ up
  /\ pc = "idle"
  /\ saved.state \in {"Waiting", "Suspended"}
  /\ thread' = [saved EXCEPT !.ckpt = IF saved.state = "Waiting" THEN "none" ELSE @]
  /\ saved' = thread'
  /\ pc' = "start"
  /\ outcome' = "none"
  /\ mailbox' = <<>>
  /\ UNCHANGED <<loop, resp, up, ghost>>

Crash ==
  /\ up
  /\ up' = FALSE
  /\ pc' = "idle"
  /\ mailbox' = <<>>
  /\ outcome' = "none"
  /\ thread' = NewThread
  /\ loop' = FreshLoop
  /\ resp' = "none"
  /\ UNCHANGED <<saved, ghost>>

Recover ==
  /\ ~up
  /\ up' = TRUE
  /\ saved' = [saved EXCEPT !.state = Recovered(@, saved.ckpt = "set")]
  /\ UNCHANGED <<pc, thread, loop, resp, outcome, mailbox, ghost>>

TaskStep ==
  \/ Start \/ Exhausted \/ Stop \/ BudgetExhausted \/ Proceed \/ LlmAnswers
  \/ TextAnswer \/ Nudge \/ ObligationNudge \/ GatePause
  \/ CodeFinal \/ CodeErrors \/ StepDone \/ Broken
  \/ Cleanup \/ FailRun \/ Record

Next ==
  \/ TaskStep
  \/ \E s \in {"stop", "inject"} : Send(s)
  \/ Resume
  \/ Crash
  \/ Recover

Spec == Init /\ [][Next]_vars

\* The task's steps are taken by a tokio worker; LLM calls time out and the
\* VM has a duration limit, so none of them waits for ever.
FairSpec == Spec /\ WF_vars(TaskStep)

-----------------------------------------------------------------------------

Threads == [state : ThreadState, steps : Nat, tokens : Nat, cost : Nat, ckpt : {"none", "set"}]

Locals == [nudges : Nat, errors : Nat, owed : {"action", "nothing"}, obligations : Nat]

History == [calls : Nat, sent : Nat, store : {"ok", "failed"}]

TypeOK ==
  /\ pc \in {"idle", "start", "head", "llm", "act", "cleanup", "broken", "record"}
  /\ thread \in Threads
  /\ saved \in Threads
  /\ loop \in Locals
  /\ resp \in Responses \cup {"none"}
  /\ outcome \in Outcomes \cup {"none"}
  /\ mailbox \in Seq({"stop", "inject"})
  /\ up \in BOOLEAN
  /\ ghost \in History

\* The orchestrator makes at most max_iterations LLM calls for a thread, over
\* all its runs: each resume continues at the persisted step_count, and no
\* store failure or crash lets a thread be resumed from an older count.
IterationsBounded == ghost.calls <= MaxIterations

\* When a run has ended and every write to the store worked, the outcome that
\* is reported agrees with the state the thread is left in: a gate pause with
\* Waiting (so that the gate can be resolved), success with Done, and a
\* failure with a terminal state.
OutcomeMatchesState ==
  pc = "idle" /\ outcome # "none" /\ ghost.store = "ok" =>
    saved.state \in
      (CASE outcome = "GatePaused" -> {"Waiting"}
         [] outcome = "Failed"     -> {"Failed", "Done"}
         [] OTHER                  -> {"Done"})

\* No step, and no recovery after a crash, moves the stored thread out of a
\* terminal state.
TerminalStays == [][IsTerminal(saved.state) => saved'.state = saved.state]_vars

\* A task ends: the run loop cannot go on for ever on nudges, errors or
\* injected messages.
RunEnds == (up /\ pc # "idle") ~> pc = "idle"

=============================================================================
