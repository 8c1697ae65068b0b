--------------------------- MODULE InputDelivery ---------------------------
(***************************************************************************)
(* What a user may rely on when adding messages to an Action: the attempt  *)
(* that completes the Action has read every message that was accepted and  *)
(* not withdrawn.  An attempt that is lost takes what it had read with it. *)
(***************************************************************************)
CONSTANT Inputs

VARIABLES
    fate,   \* what became of each message
    done    \* the Action has completed

vars == <<fate, done>>
Fates == {"unsent", "accepted", "read", "withdrawn"}

With(f) == {i \in Inputs : fate[i] = f}
Becomes(S, f) == [i \in Inputs |-> IF i \in S THEN f ELSE fate[i]]

Init == fate = [i \in Inputs |-> "unsent"] /\ done = FALSE

\* A message is accepted; the restart it asks for may withdraw earlier ones.
Accept(i, W) ==
    /\ fate[i] = "unsent" /\ W \subseteq With("accepted")
    /\ fate' = [Becomes(W, "withdrawn") EXCEPT ![i] = "accepted"]

\* An answered request of the current attempt carried the messages S.
Read(S) ==
    /\ S \subseteq With("accepted")
    /\ fate' = Becomes(S, "read")

\* The attempt is over without completing the Action; W is withdrawn with it.
GiveUp(W) ==
    /\ W \subseteq With("accepted") \cup With("read")
    /\ fate' = [i \in Inputs |-> IF i \in W THEN "withdrawn"
                                 ELSE IF fate[i] = "read" THEN "accepted" ELSE fate[i]]

Complete == With("accepted") = {} /\ done' = TRUE /\ UNCHANGED fate

Next ==
    /\ ~done
    /\ \/ /\ fate' # fate /\ UNCHANGED done
          /\ \/ \E i \in Inputs, W \in SUBSET Inputs : Accept(i, W)
             \/ \E S \in SUBSET Inputs : Read(S) \/ GiveUp(S)
       \/ Complete

Spec == Init /\ [][Next]_vars
=============================================================================
