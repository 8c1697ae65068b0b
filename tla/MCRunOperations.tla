-------------------------- MODULE MCRunOperations --------------------------
(* Bounds of RunOperations for TLC. *)
EXTENDS RunOperations

OneOfEach == [command |-> 1, fault |-> 1]

=============================================================================
