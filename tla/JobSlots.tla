------------------------------- MODULE JobSlots -------------------------------
(***************************************************************************)
(* What the job machinery promises about its parallel-execution slots, and *)
(* nothing else: a job takes a slot at most once, only while one is free,  *)
(* and a slot it gave back is not taken again.                             *)
(*                                                                         *)
(* ContextManager::insert_context and JobState::is_parallel_blocking state *)
(* the rule; JobScheduler shows that the scheduler, the workers, the self  *)
(* repair, the job monitors and the cancellations together keep it.        *)
(***************************************************************************)
EXTENDS Naturals, FiniteSets

CONSTANTS
  Jobs,     \* job ids
  MaxJobs   \* max_jobs of the context manager (AGENT_MAX_PARALLEL_JOBS)

VARIABLES
  held,     \* jobs that occupy a slot
  released  \* jobs that gave theirs back

slots == <<held, released>>

Init ==
  /\ held = {}
  /\ released = {}

Take(j) ==
  /\ j \notin held \cup released
  /\ Cardinality(held) < MaxJobs
  /\ held' = held \cup {j}
  /\ UNCHANGED released

Release(j) ==
  /\ j \in held
  /\ held' = held \ {j}
  /\ released' = released \cup {j}

Next == \E j \in Jobs : Take(j) \/ Release(j)

Spec == Init /\ [][Next]_slots

=============================================================================
