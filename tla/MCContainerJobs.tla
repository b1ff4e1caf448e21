--------------------------- MODULE MCContainerJobs ---------------------------
(* ContainerJobs on the instances of its configurations.                      *)
EXTENDS ContainerJobs

\* "cleans up those whose corresponding jobs are not active": the reaper leaves a
\* container alone that this process started, runs, and that nobody stopped.
RestartedSurvives ==
  [][\A j \in Jobs :
       ReaperRemoves(j) => ~(docker[j] = "running" /\ handle[j].state = "Running")]_vars

=============================================================================
