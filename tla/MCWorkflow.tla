----------------------------- MODULE MCWorkflow ------------------------------
(* Instances of Workflow.                                                  *)
EXTENDS Workflow

(* The first step names its robot, the second takes any that patrols.      *)
NamedAndAny == <<[robot |-> "r1", needs |-> "stand"], [robot |-> AnyRobot, needs |-> "patrol"]>>
AllPatrol == [r \in Robots |-> {"patrol", "stand"}]
OneEach == [r \in Robots |-> IF r = "r1" THEN "t1" ELSE "t2"]
==============================================================================
