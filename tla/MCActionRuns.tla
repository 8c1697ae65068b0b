---------------------------- MODULE MCActionRuns ----------------------------
(* Instances of ActionRuns for TLC. *)
EXTENDS ActionRuns

\* One WorkItem whose second Action integrates or shares what the first made.
OneItem == [a \in Actions |-> "w1"]
OneWorkspace == [w \in WorkItems |-> "p1"]
IsolatedThenIntegrate == [a \in Actions |-> IF a = 1 THEN "isolated-write" ELSE "integrate"]
IsolatedAll == [a \in Actions |-> "isolated-write"]

\* Two WorkItems on one workspace: the odd Actions isolated, the even ones not.
TwoItems == [a \in Actions |-> IF a % 2 = 1 THEN "w1" ELSE "w2"]
IsolatedAndShared == [a \in Actions |-> IF a % 2 = 1 THEN "isolated-write" ELSE "shared"]
=============================================================================
