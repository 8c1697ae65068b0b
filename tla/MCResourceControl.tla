------------------------- MODULE MCResourceControl -------------------------
(* Limits, additions and bounds of ResourceControl for TLC. *)
EXTENDS ResourceControl

Small == [requests |-> 2, tokens |-> 4, runRequests |-> 2, attempts |-> 1, failures |-> 1]
Nothing == [l \in Limit |-> 0]
Extra == {[Nothing EXCEPT !.requests = 1, !.tokens = 1, !.attempts = 1, !.failures = 1]}
Crossed == {[action |-> "native", coordinator |-> "legacy"],
            [action |-> "legacy", coordinator |-> "native"]}
Bounds == [command |-> 2, fault |-> 1]

=============================================================================
