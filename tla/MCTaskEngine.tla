---------------------------- MODULE MCTaskEngine -----------------------------
(* Instances of TaskEngine: the client requests each configuration makes.  *)
EXTENDS TaskEngine

Req(r, s, z, ok, target) ==
    [robot |-> r, scenario |-> s, zone |-> z, payloadOk |-> ok, target |-> target]

(* Two robots contend for zone A, one of them with velocities outside the  *)
(* limits; r1 also runs the mall assistant and an engine task.             *)
AllKinds ==
    {Req("r1", "patrol", "A", TRUE, FALSE),
     Req("r2", "navigation", "A", FALSE, FALSE),
     Req("r1", "mall_assistant", NoZone, TRUE, FALSE),
     Req("r1", "navigate_to_store", NoZone, TRUE, TRUE)}

(* The same, and a stored scenario that operators may delete under a       *)
(* pending task.                                                           *)
AllAndStored == AllKinds \cup {Req("r1", "custom", NoZone, TRUE, FALSE)}

PatrolOnly == {Req("r1", "patrol", "A", TRUE, FALSE)}

MallAndPatrol ==
    {Req("r1", "mall_assistant", NoZone, TRUE, FALSE), Req("r1", "patrol", "A", TRUE, FALSE)}
==============================================================================
