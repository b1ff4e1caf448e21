--------------------------- MODULE MCThreadManager ---------------------------
(* ThreadManager on the instances of its configurations.                      *)
EXTENDS ThreadManager

=============================================================================
