------------------------ MODULE MCCoordinatorMailbox ------------------------
(* Instances of CoordinatorMailbox for TLC. *)
EXTENDS CoordinatorMailbox

At(commands, creates, stops, exits, crashes, lapses) ==
    [c \in Counters |-> CASE c = "commands" -> commands
                          [] c = "creates" -> creates
                          [] c = "stops" -> stops
                          [] c = "exits" -> exits
                          [] c = "crashes" -> crashes
                          [] c = "lapses" -> lapses]

OneCrash == At(1, 1, 0, 0, 1, 0)
Stalls == At(1, 0, 1, 0, 0, 1)          \* live turns that lose their leases

CrashOrStalls == {OneCrash, Stalls}
Orderly == {At(1, 0, 0, 1, 0, 0)}       \* nothing fails but the Coordinator's turns
OnlyCrash == {At(0, 0, 0, 0, 1, 0)}
=============================================================================
