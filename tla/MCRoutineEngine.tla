--------------------------- MODULE MCRoutineEngine ---------------------------
(* RoutineEngine on the instances of its configurations.                      *)
EXTENDS RoutineEngine

\* every action and every trigger
MCKinds == {[action |-> "light", trigger |-> "cron"], [action |-> "light", trigger |-> "event"],
            [action |-> "job", trigger |-> "cron"], [action |-> "light", trigger |-> "webhook"]}

=============================================================================
