--------------------------- MODULE ScenarioCatalog ---------------------------
(***************************************************************************)
(* The scenarios of pkg/control-plane/scenarios/catalog.go: the five       *)
(* built-in ones, which the catalogue always finds, and one stored one,    *)
(* "custom", that operators create and delete.  A step keeps its command,  *)
(* whether the runner holds it for a duration, and whether its payload is  *)
(* the task's (the scenario's own payloads are valid as written).          *)
(***************************************************************************)
EXTENDS Sequences

Builtin == {"standby", "patrol", "navigation", "mall_assistant", "navigate_to_store"}

Scenarios == Builtin \cup {"custom"}

Commands == {"safe_stop", "release_control", "zero_mode", "stand_mode", "walk_mode",
             "cmd_vel", "navigate_to"}

StepType == [cmd : STRING, timed : BOOLEAN, fromTask : BOOLEAN]

LOCAL Instant(c)  == [cmd |-> c, timed |-> FALSE, fromTask |-> FALSE]
LOCAL Held(c)     == [cmd |-> c, timed |-> TRUE,  fromTask |-> FALSE]
LOCAL TaskHeld(c) == [cmd |-> c, timed |-> TRUE,  fromTask |-> TRUE]

(* The custom scenario holds one command and then issues one that the      *)
(* safety filter does not know.                                            *)
Steps ==
    [standby           |-> <<Instant("stand_mode")>>,
     patrol            |-> <<Instant("walk_mode"), Held("cmd_vel"), Instant("cmd_vel")>>,
     navigation        |-> <<Instant("walk_mode"), TaskHeld("cmd_vel")>>,
     mall_assistant    |-> <<>>,
     navigate_to_store |-> <<Instant("walk_mode"), TaskHeld("navigate_to")>>,
     custom            |-> <<Held("zero_mode"), Instant("unknown")>>]

RequiredCapabilities ==
    [standby           |-> {"stand"},
     patrol            |-> {"walk"},
     navigation        |-> {"walk"},
     mall_assistant    |-> {"walk", "stand"},
     navigate_to_store |-> {"walk"},
     custom            |-> {}]

(* arbiter.SafetyAllow: the mode commands always pass, the motion commands *)
(* only with a payload inside the limits, anything else never.             *)
SafetyAllow(cmd, payloadOk) ==
    \/ cmd \in {"safe_stop", "release_control", "zero_mode", "stand_mode", "walk_mode"}
    \/ cmd \in {"cmd_vel", "navigate_to"} /\ payloadOk
==============================================================================
