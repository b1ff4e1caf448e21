---------------------------- MODULE MCJobScheduler ----------------------------
(* JobScheduler with one job of the scheduler and one container job that      *)
(* compete for one slot.                                                      *)
EXTENDS JobScheduler

CONSTANTS j1, c1

=============================================================================
