------------------------ MODULE ExecutionLoopProofs ------------------------
(* For every configuration of a thread: its runs together make at most      *)
(* max_iterations LLM calls, a run's outcome agrees with the stored state,  *)
(* and a stored terminal state is final.                                    *)
EXTENDS ExecutionLoop, TLAPS

\* Where the control is, what the task's copy and the stored thread look like.
\* Resumable states are stored with an up-to-date step count: that is what
\* carries the iteration bound from one run to the next.  No checkpoint is
\* ever in the store, so recovery cannot bring a running thread back.
ControlInv ==
  /\ pc # "idle" => up
  /\ saved.ckpt = "none"
  /\ pc \in {"start", "record"} => thread.ckpt = "none"
  /\ pc = "start" => /\ saved.state \in {"Created", "Waiting", "Suspended"}
                     /\ thread.state = saved.state
  /\ pc \in {"head", "llm", "act"} => thread.state = "Running"
  /\ pc \in {"cleanup", "broken"} => thread.state \in {"Running", "Waiting", "Completed", "Failed"}
  /\ pc \in {"head", "llm", "act", "cleanup", "broken"} => saved.state = "Running"
  /\ pc = "record" =>
       /\ thread.state \in {"Running", "Waiting", "Completed", "Failed"}
       /\ IsTerminal(saved.state) => thread.state = saved.state

CallsInv ==
  /\ pc # "idle" => thread.steps = ghost.calls
  /\ saved.state \in {"Created", "Waiting", "Suspended"} => saved.steps = ghost.calls
  /\ pc = "llm" => thread.steps < MaxIterations

\* The state that goes with an outcome before Completed becomes Done.
Agrees(o, s) ==
  /\ o = "GatePaused" => s = "Waiting"
  /\ o = "Failed" => s \in {"Failed", "Completed"}
  /\ o \in {"Completed", "Stopped", "MaxIterations"} => s = "Completed"

OutcomeInv ==
  /\ ~up => outcome = "none"
  /\ pc = "cleanup" => outcome # "none" /\ Agrees(outcome, thread.state)
  /\ pc = "record" /\ ghost.store = "ok" => outcome # "none" /\ Agrees(outcome, thread.state)

IInv ==
  /\ TypeOK
  /\ ControlInv
  /\ CallsInv
  /\ OutcomeInv
  /\ IterationsBounded
  /\ OutcomeMatchesState

\* A new thread satisfies the invariant.
LEMMA InitIInv == Init => IInv
  BY LoopAssumption
  DEF Init, IInv, TypeOK, ControlInv, CallsInv, OutcomeInv, IterationsBounded,
      OutcomeMatchesState, NewThread, FreshLoop, Threads, Locals, History,
      ThreadState, Outcomes, Responses, IsTerminal

\* Every step keeps the types.
LEMMA NextTypeOK == TypeOK /\ [Next]_vars => TypeOK'
  <1> SUFFICES ASSUME TypeOK, [Next]_vars PROVE TypeOK'
    OBVIOUS
  <1> USE DEF TypeOK
  <1>a. ASSUME NEW t \in Threads, NEW s \in ThreadState
        PROVE  /\ [t EXCEPT !.state = s] \in Threads
               /\ [t EXCEPT !.ckpt = "none"] \in Threads
               /\ [t EXCEPT !.ckpt = "set"] \in Threads
               /\ [t EXCEPT !.ckpt = "none", !.state = s] \in Threads
    BY DEF Threads
  <1>b. \A s, u \in ThreadState : Transition(s, u) \in ThreadState
    BY DEF Transition
  <1>c. [ghost EXCEPT !.store = "failed"] \in History
    BY DEF History
  <1>d. {"Running", "Completed", "Waiting", "Done", "Failed", "Suspended"} \subseteq ThreadState
    BY DEF ThreadState
  <1>e. Outcomes \subseteq Outcomes \cup {"none"}
    OBVIOUS
  <1>f. ASSUME ReadInjected PROVE mailbox' \in Seq({"stop", "inject"}) /\ loop' \in Locals
    <2>1. CASE UNCHANGED <<mailbox, loop>>
      BY <2>1
    <2>2. CASE /\ mailbox # <<>>
               /\ mailbox' = Tail(mailbox)
               /\ loop' \in {loop, [loop EXCEPT !.owed = "action", !.obligations = 0]}
      <3>1. mailbox' \in Seq({"stop", "inject"})
        BY <2>2
      <3>2. [loop EXCEPT !.owed = "action", !.obligations = 0] \in Locals
        BY DEF Locals
      <3> QED
        BY <2>2, <3>1, <3>2
    <2> QED
      BY <1>f, <2>1, <2>2 DEF ReadInjected
  <1>1. CASE Start
    <2>1. thread' \in Threads
      BY <1>1, <1>a, <1>d DEF Start
    <2>2. loop' \in Locals
      BY <1>1 DEF Start, FreshLoop, Locals
    <2> QED
      BY <1>1, <2>1, <2>2, <1>c DEF Start, PersistOk, PersistFails, Outcomes
  <1>2. CASE Exhausted
    BY <1>2, <1>a, <1>d DEF Exhausted, Finish, Outcomes
  <1>3. CASE Stop
    <2>1. mailbox' \in Seq({"stop", "inject"})
      BY <1>3 DEF Stop
    <2> QED
      BY <1>3, <2>1, <1>a, <1>d DEF Stop, Finish, Outcomes
  <1>4. CASE BudgetExhausted
    BY <1>4, <1>a, <1>d, <1>f DEF BudgetExhausted, Finish, Outcomes
  <1>5. CASE Proceed
    BY <1>5, <1>f DEF Proceed
  <1>6. CASE LlmAnswers
    <2> PICK used \in 0..1 :
          /\ thread' = [thread EXCEPT !.steps = @ + 1, !.tokens = @ + used]
          /\ ghost' = [ghost EXCEPT !.calls = @ + 1]
      BY <1>6 DEF LlmAnswers
    <2>0. /\ thread.steps + 1 \in Nat /\ thread.tokens + used \in Nat
          /\ ghost.calls + 1 \in Nat
      <3>1. thread.steps \in Nat /\ thread.tokens \in Nat
        BY DEF Threads
      <3>2. ghost.calls \in Nat
        BY DEF History
      <3> QED
        BY <3>1, <3>2
    <2>a. ASSUME NEW i \in Nat, NEW k \in Nat
          PROVE  /\ [thread EXCEPT !.steps = i, !.tokens = k] \in Threads
                 /\ [ghost EXCEPT !.calls = i] \in History
      BY DEF Threads, History
    <2>1. thread' \in Threads
      BY <2>0, <2>a
    <2>2. ghost' \in History
      BY <2>0, <2>a
    <2> QED
      BY <1>6, <2>1, <2>2 DEF LlmAnswers
  <1>7. CASE TextAnswer
    BY <1>7, <1>a, <1>d DEF TextAnswer, Finish, Outcomes
  <1>8. CASE Nudge
    <2>1. loop' \in Locals
      BY <1>8 DEF Nudge, Locals
    <2> QED
      BY <1>8, <2>1 DEF Nudge
  <1>9. CASE ObligationNudge
    <2>1. loop' \in Locals
      BY <1>9 DEF ObligationNudge, Locals
    <2> QED
      BY <1>9, <2>1 DEF ObligationNudge
  <1>10. CASE GatePause
    <2>1. thread' \in Threads
      BY <1>10, <1>a, <1>d DEF GatePause, Checkpointed
    <2> QED
      BY <1>10, <2>1 DEF GatePause, Outcomes
  <1>11. CASE CodeFinal
    BY <1>11, <1>a, <1>d DEF CodeFinal, Finish, Outcomes
  <1>12. CASE CodeErrors
    <2>a. loop.errors + 1 \in Nat
      BY DEF Locals
    <2>b. ASSUME NEW k \in Nat PROVE [loop EXCEPT !.errors = k, !.owed = "nothing"] \in Locals
      BY DEF Locals
    <2>1. loop' \in Locals
      BY <1>12, <2>a, <2>b DEF CodeErrors
    <2>2. thread' \in Threads /\ pc' \in {"cleanup", "head"} /\ outcome' \in Outcomes \cup {"none"}
      <3>1. CASE Finish("Failed", "Failed")
        BY <3>1, <1>a, <1>d DEF Finish, Outcomes
      <3>2. CASE thread' = Checkpointed(thread) /\ pc' = "head" /\ UNCHANGED outcome
        BY <3>2, <1>a, <1>d DEF Checkpointed
      <3> QED
        BY <1>12, <3>1, <3>2 DEF CodeErrors
    <2> QED
      BY <1>12, <2>1, <2>2 DEF CodeErrors
  <1>13. CASE StepDone
    <2>1. loop' \in Locals
      <3>1. [loop EXCEPT !.errors = 0, !.owed = "nothing"] \in Locals
        BY DEF Locals
      <3>2. [loop EXCEPT !.errors = @, !.owed = "nothing"] \in Locals
        BY DEF Locals
      <3> QED
        BY <1>13, <3>1, <3>2 DEF StepDone
    <2> QED
      BY <1>13, <2>1, <1>a, <1>d DEF StepDone, Checkpointed
  <1>14. CASE Broken
    BY <1>14 DEF Broken
  <1>15. CASE Cleanup
    BY <1>15, <1>a, <1>c, <1>d DEF Cleanup, Persisted, PersistOk, PersistFails, Outcomes
  <1>16. CASE FailRun
    <2>1. [thread EXCEPT !.ckpt = "none", !.state = Transition(@, "Failed")] \in Threads
      BY <1>b, <1>d DEF Threads
    <2> QED
      BY <1>16, <2>1, <1>c DEF FailRun, Persisted, PersistOk, PersistFails, Outcomes
  <1>17. CASE Record
    <2>1. thread' \in Threads
      BY <1>17, <1>b, <1>d DEF Record, Threads
    <2> QED
      BY <1>17, <2>1, <1>c DEF Record, PersistOk, PersistFails
  <1>18. ASSUME NEW s \in {"stop", "inject"}, Send(s) PROVE TypeOK'
    <2>a. ghost.sent + 1 \in Nat
      BY DEF History
    <2>b. ASSUME NEW i \in Nat PROVE [ghost EXCEPT !.sent = i] \in History
      BY DEF History
    <2>1. ghost' \in History
      BY <1>18, <2>a, <2>b DEF Send
    <2> QED
      BY <1>18, <2>1 DEF Send
  <1>19. CASE Resume
    <2>1. thread' \in Threads
      <3>1. [saved EXCEPT !.ckpt = @] \in Threads
        BY DEF Threads
      <3> QED
        BY <1>19, <1>a, <1>d, <3>1 DEF Resume
    <2> QED
      BY <1>19, <2>1 DEF Resume
  <1>20. CASE Crash
    <2>1. NewThread \in Threads
      BY DEF NewThread, Threads, ThreadState
    <2>2. FreshLoop \in Locals
      BY DEF FreshLoop, Locals
    <2>3. up' \in BOOLEAN /\ resp' \in Responses \cup {"none"} /\ outcome' \in Outcomes \cup {"none"}
      BY <1>20, Zenon DEF Crash
    <2>4. mailbox' \in Seq({"stop", "inject"}) /\ pc' = "idle"
      BY <1>20 DEF Crash
    <2>5. thread' \in Threads /\ loop' \in Locals /\ saved' \in Threads /\ ghost' \in History
      BY <1>20, <2>1, <2>2, Zenon DEF Crash
    <2> QED
      BY <2>3, <2>4, <2>5, Zenon
  <1>21. CASE Recover
    <2>1. Recovered(saved.state, saved.ckpt = "set") \in ThreadState
      BY <1>b, <1>d DEF Recovered, Threads
    <2>2. saved' \in Threads
      BY <1>21, <1>a, <2>1 DEF Recover
    <2> QED
      BY <1>21, <2>2 DEF Recover
  <1>22. CASE UNCHANGED vars
    BY <1>22 DEF vars
  <1> QED
    BY <1>1, <1>2, <1>3, <1>4, <1>5, <1>6, <1>7, <1>8, <1>9, <1>10, <1>11, <1>12,
       <1>13, <1>14, <1>15, <1>16, <1>17, <1>18, <1>19, <1>20, <1>21, <1>22
    DEF Next, TaskStep

\* Every step keeps the relation between the control point, the task's copy
\* and the stored thread.
LEMMA NextControl == IInv /\ [Next]_vars => ControlInv'
  <1> SUFFICES ASSUME IInv, [Next]_vars PROVE ControlInv'
    OBVIOUS
  <1> USE DEF IInv, TypeOK, Threads, History, ControlInv, IsTerminal
  <1>1. CASE Start
    BY <1>1 DEF Start, PersistOk, PersistFails, CanTransition
  <1>2. CASE Exhausted
    BY <1>2 DEF Exhausted, Finish
  <1>3. CASE Stop
    BY <1>3 DEF Stop, Finish
  <1>4. CASE BudgetExhausted
    BY <1>4 DEF BudgetExhausted, Finish, ReadInjected
  <1>5. CASE Proceed
    BY <1>5 DEF Proceed, ReadInjected
  <1>6. CASE LlmAnswers
    BY <1>6 DEF LlmAnswers
  <1>7. CASE TextAnswer
    BY <1>7 DEF TextAnswer, Finish
  <1>8. CASE Nudge
    BY <1>8 DEF Nudge
  <1>9. CASE ObligationNudge
    BY <1>9 DEF ObligationNudge
  <1>10. CASE GatePause
    BY <1>10 DEF GatePause, Checkpointed
  <1>11. CASE CodeFinal
    BY <1>11 DEF CodeFinal, Finish
  <1>12. CASE CodeErrors
    BY <1>12 DEF CodeErrors, Finish, Checkpointed
  <1>13. CASE StepDone
    BY <1>13 DEF StepDone, Checkpointed
  <1>14. CASE Broken
    BY <1>14 DEF Broken
  <1>15. CASE Cleanup
    BY <1>15 DEF Cleanup, Persisted, PersistOk, PersistFails
  <1>16. CASE FailRun
    BY <1>16 DEF FailRun, Persisted, PersistOk, PersistFails, Transition, CanTransition
  <1>17. CASE Record
    BY <1>17 DEF Record, PersistOk, PersistFails, Transition, CanTransition
  <1>18. ASSUME NEW s \in {"stop", "inject"}, Send(s) PROVE ControlInv'
    BY <1>18 DEF Send
  <1>19. CASE Resume
    BY <1>19 DEF Resume
  <1>20. CASE Crash
    BY <1>20 DEF Crash
  <1>21. CASE Recover
    BY <1>21 DEF Recover, Recovered, Transition, CanTransition
  <1>22. CASE UNCHANGED vars
    BY <1>22 DEF vars
  <1> QED
    BY <1>1, <1>2, <1>3, <1>4, <1>5, <1>6, <1>7, <1>8, <1>9, <1>10, <1>11,
       <1>12, <1>13, <1>14, <1>15, <1>16, <1>17, <1>18, <1>19, <1>20, <1>21, <1>22
    DEF Next, TaskStep

\* Every step keeps the step count equal to the LLM calls made.
LEMMA NextCalls == IInv /\ [Next]_vars => (CallsInv /\ IterationsBounded)'
  <1> SUFFICES ASSUME IInv, [Next]_vars PROVE (CallsInv /\ IterationsBounded)'
    OBVIOUS
  <1> USE DEF IInv, TypeOK, Threads, History, ControlInv, CallsInv, IterationsBounded, IsTerminal
  <1>1. CASE Start
    BY <1>1 DEF Start, PersistOk, PersistFails, CanTransition
  <1>2. CASE Exhausted
    BY <1>2 DEF Exhausted, Finish
  <1>3. CASE Stop
    BY <1>3 DEF Stop, Finish
  <1>4. CASE BudgetExhausted
    BY <1>4 DEF BudgetExhausted, Finish, ReadInjected
  <1>5. CASE Proceed
    BY <1>5 DEF Proceed, ReadInjected
  <1>6. CASE LlmAnswers
    <2>p. PICK used \in 0..1 :
          /\ thread' = [thread EXCEPT !.steps = @ + 1, !.tokens = @ + used]
          /\ ghost' = [ghost EXCEPT !.calls = @ + 1]
      BY <1>6 DEF LlmAnswers
    <2>1. thread'.steps = thread.steps + 1 /\ thread.steps \in Nat
      BY <2>p
    <2>2. ghost'.calls = ghost.calls + 1 /\ ghost.calls \in Nat
      BY <2>p
    <2>3. thread.steps = ghost.calls /\ thread.steps < MaxIterations
      BY <1>6 DEF LlmAnswers
    <2>4. pc' = "act" /\ saved' = saved /\ saved.state = "Running"
      BY <1>6 DEF LlmAnswers
    <2> QED
      <3>1. thread'.steps = ghost'.calls /\ ghost'.calls <= MaxIterations
        BY <2>1, <2>2, <2>3, LoopAssumption
      <3>2. pc' # "llm" /\ saved'.state \notin {"Created", "Waiting", "Suspended"}
        BY <2>4
      <3> QED
        BY <3>1, <3>2
  <1>7. CASE TextAnswer
    BY <1>7 DEF TextAnswer, Finish
  <1>8. CASE Nudge
    BY <1>8 DEF Nudge
  <1>9. CASE ObligationNudge
    BY <1>9 DEF ObligationNudge
  <1>10. CASE GatePause
    BY <1>10 DEF GatePause, Checkpointed
  <1>11. CASE CodeFinal
    BY <1>11 DEF CodeFinal, Finish
  <1>12. CASE CodeErrors
    BY <1>12 DEF CodeErrors, Finish, Checkpointed
  <1>13. CASE StepDone
    BY <1>13 DEF StepDone, Checkpointed
  <1>14. CASE Broken
    BY <1>14 DEF Broken
  <1>15. CASE Cleanup
    BY <1>15 DEF Cleanup, Persisted, PersistOk, PersistFails
  <1>16. CASE FailRun
    BY <1>16 DEF FailRun, Persisted, PersistOk, PersistFails, Transition, CanTransition
  <1>17. CASE Record
    BY <1>17 DEF Record, PersistOk, PersistFails, Transition, CanTransition
  <1>18. ASSUME NEW s \in {"stop", "inject"}, Send(s) PROVE (CallsInv /\ IterationsBounded)'
    BY <1>18 DEF Send
  <1>19. CASE Resume
    BY <1>19 DEF Resume
  <1>20. CASE Crash
    BY <1>20 DEF Crash
  <1>21. CASE Recover
    BY <1>21 DEF Recover, Recovered, Transition, CanTransition
  <1>22. CASE UNCHANGED vars
    BY <1>22 DEF vars
  <1> QED
    BY <1>1, <1>2, <1>3, <1>4, <1>5, <1>6, <1>7, <1>8, <1>9, <1>10, <1>11,
       <1>12, <1>13, <1>14, <1>15, <1>16, <1>17, <1>18, <1>19, <1>20, <1>21, <1>22
    DEF Next, TaskStep

\* Every step keeps the outcome in agreement with the thread's state.
LEMMA NextOutcome == IInv /\ [Next]_vars => (OutcomeInv /\ OutcomeMatchesState)'
  <1> SUFFICES ASSUME IInv, [Next]_vars PROVE (OutcomeInv /\ OutcomeMatchesState)'
    OBVIOUS
  <1> USE DEF IInv, TypeOK, Threads, History, ControlInv, OutcomeInv, Agrees, OutcomeMatchesState, Outcomes
  <1>1. CASE Start
    BY <1>1 DEF Start, PersistOk, PersistFails, CanTransition
  <1>2. CASE Exhausted
    BY <1>2 DEF Exhausted, Finish
  <1>3. CASE Stop
    BY <1>3 DEF Stop, Finish
  <1>4. CASE BudgetExhausted
    BY <1>4 DEF BudgetExhausted, Finish, ReadInjected
  <1>5. CASE Proceed
    BY <1>5 DEF Proceed, ReadInjected
  <1>6. CASE LlmAnswers
    BY <1>6 DEF LlmAnswers
  <1>7. CASE TextAnswer
    BY <1>7 DEF TextAnswer, Finish
  <1>8. CASE Nudge
    BY <1>8 DEF Nudge
  <1>9. CASE ObligationNudge
    BY <1>9 DEF ObligationNudge
  <1>10. CASE GatePause
    BY <1>10 DEF GatePause, Checkpointed
  <1>11. CASE CodeFinal
    BY <1>11 DEF CodeFinal, Finish
  <1>12. CASE CodeErrors
    BY <1>12 DEF CodeErrors, Finish, Checkpointed
  <1>13. CASE StepDone
    BY <1>13 DEF StepDone, Checkpointed
  <1>14. CASE Broken
    BY <1>14 DEF Broken
  <1>15. CASE Cleanup
    BY <1>15 DEF Cleanup, Persisted, PersistOk, PersistFails
  <1>16. CASE FailRun
    BY <1>16 DEF FailRun, Persisted, PersistOk, PersistFails, Transition, CanTransition
  <1>17. CASE Record
    BY <1>17 DEF Record, PersistOk, PersistFails, Transition, CanTransition
  <1>18. ASSUME NEW s \in {"stop", "inject"}, Send(s) PROVE (OutcomeInv /\ OutcomeMatchesState)'
    BY <1>18 DEF Send
  <1>19. CASE Resume
    BY <1>19 DEF Resume
  <1>20. CASE Crash
    BY <1>20 DEF Crash
  <1>21. CASE Recover
    BY <1>21 DEF Recover, Recovered, Transition, CanTransition
  <1>22. CASE UNCHANGED vars
    BY <1>22 DEF vars
  <1> QED
    BY <1>1, <1>2, <1>3, <1>4, <1>5, <1>6, <1>7, <1>8, <1>9, <1>10, <1>11,
       <1>12, <1>13, <1>14, <1>15, <1>16, <1>17, <1>18, <1>19, <1>20, <1>21, <1>22
    DEF Next, TaskStep

\* The invariant holds in every reachable state.
LEMMA Invariance == Spec => []IInv
  <1>1. IInv /\ [Next]_vars => IInv'
    BY NextTypeOK, NextControl, NextCalls, NextOutcome DEF IInv
  <1> QED
    BY InitIInv, <1>1, PTL DEF Spec

\* A thread as the engine knows it is type correct in every reachable state.
THEOREM TypeCorrect == Spec => []TypeOK
  <1>1. IInv => TypeOK
    BY DEF IInv
  <1> QED
    BY Invariance, <1>1, PTL

\* max_iterations bounds the LLM calls of a thread over all its runs, whatever
\* store failures and crashes come between them.
THEOREM CallsBounded == Spec => []IterationsBounded
  <1>1. IInv => IterationsBounded
    BY DEF IInv
  <1> QED
    BY Invariance, <1>1, PTL

\* The outcome a run reports agrees with the state its thread is left in.
THEOREM OutcomesAgree == Spec => []OutcomeMatchesState
  <1>1. IInv => OutcomeMatchesState
    BY DEF IInv
  <1> QED
    BY Invariance, <1>1, PTL

\* Neither a run, nor a resume, nor a recovery takes the stored thread out of
\* Done or Failed.
THEOREM TerminalIsFinal == Spec => TerminalStays
  <1>1. IInv /\ [Next]_vars => [IsTerminal(saved.state) => saved'.state = saved.state]_vars
    <2> SUFFICES ASSUME IInv, Next, IsTerminal(saved.state)
                 PROVE  saved'.state = saved.state
      OBVIOUS
    <2> USE DEF IInv, TypeOK, ControlInv, IsTerminal, Threads
    <2>1. CASE saved' = saved
      BY <2>1
    <2>2. CASE Record
      BY <2>2 DEF Record, PersistOk, PersistFails, Transition, CanTransition
    <2>3. CASE Recover
      BY <2>3 DEF Recover, Recovered
    <2>4. ASSUME ~Record, ~Recover PROVE saved' = saved
      BY <2>4 DEF Next, TaskStep, Start, Exhausted, Stop, BudgetExhausted, Proceed,
         LlmAnswers, TextAnswer, Nudge, ObligationNudge, GatePause, CodeFinal, CodeErrors,
         StepDone, Broken, Cleanup, FailRun, Persisted, PersistOk, PersistFails,
         Send, Resume, Crash
    <2> QED
      BY <2>1, <2>2, <2>3, <2>4
  <1> QED
    BY Invariance, <1>1, PTL DEF Spec, TerminalStays

=============================================================================
