---------------------------- MODULE MCActionInputs ----------------------------
(* Loads of ActionInputs for TLC. *)
EXTENDS ActionInputs

Load(n, commands, faults) == [messages |-> 1..n, command |-> commands, fault |-> faults]

\* Two messages with a command or a fault, and one message with both.
OneOrBoth == {Load(2, 1, 0), Load(2, 0, 1), Load(1, 1, 1)}
===============================================================================
