-------------------------- MODULE MCScheduledTasks --------------------------
(* Triggers and bounds of ScheduledTasks for TLC. *)
EXTENDS ScheduledTasks

Manual == [type |-> "manual", times |-> {}, maxRuns |-> 0]
Once(t) == [type |-> "once", times |-> {t}, maxRuns |-> 0]
Every(times, n) == [type |-> "recurring", times |-> times, maxRuns |-> n]

Plans == {Once(2), Every({1, 2, 3}, 2)}
Twice == [command |-> 2, fault |-> 1]

=============================================================================
