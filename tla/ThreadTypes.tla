----------------------------- MODULE ThreadTypes -----------------------------
(* The lifecycle state machine of an engine thread (types/thread.rs), shared *)
(* by every module that moves a thread from one state to another.            *)

ThreadState ==
  {"Created", "Running", "Waiting", "Suspended", "Completed", "Done", "Failed"}

\* ThreadState::can_transition_to
CanTransition(from, to) ==
  <<from, to>> \in
    {<<"Created", "Running">>, <<"Created", "Failed">>,
     <<"Running", "Waiting">>, <<"Running", "Suspended">>,
     <<"Running", "Completed">>, <<"Running", "Failed">>,
     <<"Waiting", "Running">>, <<"Waiting", "Failed">>,
     <<"Suspended", "Running">>, <<"Suspended", "Failed">>,
     <<"Completed", "Done">>}

\* ThreadState::is_terminal
IsTerminal(s) == s \in {"Done", "Failed"}

\* Mutant of Transition: the check is skipped.
ForcedTransition(from, to) == to

\* Thread::transition_to whose error the caller ignores: an illegal
\* transition leaves the state alone.
Transition(from, to) == IF CanTransition(from, to) THEN to ELSE from

\* ThreadManager::recover_project_threads, the state a thread is left in after
\* a process start.  "pending_approval" metadata, which would keep a Waiting
\* thread as it is, is written nowhere in the program.
Recovered(state, checkpointed) ==
  CASE IsTerminal(state) \/ state = "Completed"                -> state
    [] checkpointed /\ state \in {"Running", "Suspended"}      -> "Suspended"
    [] OTHER                                                   -> Transition(state, "Failed")

=============================================================================
