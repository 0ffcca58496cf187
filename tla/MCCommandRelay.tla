--------------------------- MODULE MCCommandRelay ----------------------------
(* Instances of CommandRelay: a motion, the stop that is to end it and a   *)
(* navigation for a robot at an edge, and a command for one on the bus,    *)
(* sent under the key that the motion was or will be sent under.           *)
EXTENDS CommandRelay

LOCAL Sending(i, n, k, e) ==
    [id |-> i, name |-> n, payloadOk |-> TRUE, key |-> k, atEdge |-> e]

Walk == Sending("walk", "walk_mode", "k", TRUE)
Stop == Sending("stop", "safe_stop", NoKey, TRUE)
Goto == Sending("goto", "navigate_to", "k", TRUE)
Direct == Sending("direct", "stand_mode", "k", FALSE)

EdgeAndBus == {Walk, Stop, Direct}
WithGoto == {Stop, Goto}
TwiceKeyed == [c \in Sendings |-> IF c = Walk THEN 2 ELSE 1]
Once == [c \in Sendings |-> 1]
==============================================================================
