------------------------------ MODULE Workflow -------------------------------
(***************************************************************************)
(* Workflow orchestration (orchestration.Runner): a request walks through  *)
(* the steps of a workflow, picks a robot for each, checks it and creates  *)
(* a task; the first step that cannot be served ends the walk.  Beside it  *)
(* run other such requests, the Task Runner and fleet administration.      *)
(***************************************************************************)
EXTENDS Fleet, Sequences

CONSTANTS
    Steps,      \* the workflow: a sequence of [robot : Robots or AnyRobot, needs : capability]
    Able,       \* Able[r]: capabilities of robot r
    Scenarios,  \* scenarios in the catalogue, as the capability each needs
    MaxRuns     \* bound: workflow runs

AnyRobot == "any"
AnyTenant == "any"
NoTenant == "none"
NoTask == [robot |-> AnyRobot, tenant |-> NoTenant, status |-> "none", linked |-> FALSE]

ASSUME WorkflowAssumption == /\ MaxRuns \in Nat
                             /\ AnyRobot \notin Robots
                             /\ {AnyTenant, NoTenant} \cap Tenants = {}
ASSUME StepsAssumption == /\ Steps \in Seq([robot : Robots \cup {AnyRobot}, needs : STRING])
                          /\ Steps # <<>>

Runs == 1..MaxRuns
StepIds == DOMAIN Steps

(* Where the request of a run is:                                          *)
(*   none     not made yet          picked   a robot was found             *)
(*   step     at the next step      admitted its tenant was right          *)
(*   checked  it can and is free    created  the task is stored            *)
(*   failing  the step cannot be served                                    *)
(*   over     answered              panicked the robot was gone            *)
WalkPC == {"none", "step", "picked", "admitted", "checked", "created", "failing", "over",
           "panicked"}

VARIABLES
    pc,         \* pc[w]
    at,         \* at[w]: the step
    caller,     \* caller[w]: tenant of the request, or AnyTenant (administrator)
    chosen,     \* chosen[w]: robot of the step
    copy,       \* copy[w]: tenant in the copy of the robot the step works with
    status,     \* status[w] of the run in the run store
    label,      \* label[w]: tenant of the run in the run store
    task,       \* task[w][i]: the task of step i in the task store
    slipped     \* <<w, i>>: at step i the tenant of w's robot was not compared,
                \* or changed after the comparison (history)

walkVars  == <<pc, at, caller, chosen, copy>>
storeVars == <<status, label, task>>
vars == <<fleetVars, faults, walkVars, storeVars, slipped>>

HasRunningForRobot(r) ==
    \E w \in Runs, i \in StepIds : task[w][i].robot = r /\ task[w][i].status = "running"

(* The run store.                                                          *)
CreateRun(w) == status' = [status EXCEPT ![w] = "running"]
UpdateStatus(w, s) == status' = [status EXCEPT ![w] = s]
UpdateTenantID(w, t) == label' = [label EXCEPT ![w] = t]
LinkTask(w, i) == task' = [task EXCEPT ![w][i].linked = TRUE]

UsedRobots(w) == {task[w][i].robot : i \in {i \in StepIds : task[w][i] # NoTask}}

(* runWorkflow: the run is recorded before anything else.                  *)
Begin(w, t) ==
    /\ served < MaxRequests /\ served' = served + 1
    /\ pc[w] = "none" /\ \A v \in Runs : v < w => pc[v] # "none"
    /\ pc' = [pc EXCEPT ![w] = "step"]
    /\ caller' = [caller EXCEPT ![w] = t]
    /\ CreateRun(w)
    /\ UNCHANGED <<tenants, owner, requests, excused, faults, at, chosen, copy, label, task,
                   slipped>>

(* Faulty variant: robots used by this run before are taken again.         *)
FittingReused(w, needs) ==
    {r \in Robots : /\ owner[r] # Gone /\ caller[w] \in {AnyTenant, owner[r]}
                    /\ needs \in Able[r]}

(* resolveSelector, pickAvailableRobot: registered, of the tenant, unused  *)
(* in this run and able, and of these one without a running task.          *)
Fitting(w, needs) ==
    {r \in Robots : /\ owner[r] # Gone /\ caller[w] \in {AnyTenant, owner[r]}
                    /\ r \notin UsedRobots(w)
                    /\ needs \in Able[r]}

Available(w, needs) == {r \in Fitting(w, needs) : ~HasRunningForRobot(r)}

(* The robot of the step: the one it names, or any available one (the      *)
(* registry lists in no particular order).  A registry that cannot be read *)
(* has none; a robot whose tasks cannot be read is free.                   *)
Pick(w) ==
    LET s == Steps[at[w]]
        open == s.robot = AnyRobot
        Take(r) == chosen' = [chosen EXCEPT ![w] = r] /\ pc' = [pc EXCEPT ![w] = "picked"]
        None == UNCHANGED chosen /\ pc' = [pc EXCEPT ![w] = "failing"]
    IN /\ pc[w] = "step"
       /\ \/ ~open /\ Take(s.robot) /\ NoFault
          \/ open /\ (\E r \in Available(w, s.needs) : Take(r)) /\ NoFault
          \/ open /\ Available(w, s.needs) = {} /\ None /\ NoFault
          \/ open /\ (\E r \in Fitting(w, s.needs) : HasRunningForRobot(r) /\ Take(r)) /\ Fault
          \/ open /\ None /\ Fault
       /\ UNCHANGED <<fleetVars, at, caller, copy, storeVars, slipped>>

(* Faulty variant: a robot that the step names is not asked for its tenant.*)
AdmitNamed(w) ==
    /\ pc[w] = "picked"
    /\ pc' = [pc EXCEPT ![w] = "admitted"]
    /\ UNCHANGED <<fleetVars, faults, at, caller, chosen, copy, storeVars, slipped>>

(* A robot of another tenant is rejected; one that the registry does not   *)
(* return, because it is gone or cannot be read, is not.                   *)
Admit(w) ==
    LET found == owner[chosen[w]] # Gone
        ours == caller[w] \in {AnyTenant, owner[chosen[w]]}
        Pass(how) == pc' = [pc EXCEPT ![w] = "admitted"] /\ slipped' = slipped \cup how
    IN /\ pc[w] = "picked"
       /\ \/ found /\ ours /\ Pass({}) /\ NoFault
          \/ found /\ ~ours /\ pc' = [pc EXCEPT ![w] = "failing"]
             /\ UNCHANGED slipped /\ NoFault
          \/ ~found /\ Pass({<<w, at[w]>>}) /\ NoFault
          \/ found /\ caller[w] # AnyTenant /\ Pass({<<w, at[w]>>}) /\ Fault
       /\ UNCHANGED <<fleetVars, at, caller, chosen, copy, storeVars>>

(* The scenario must exist and the robot, read again, must be able and     *)
(* free; if the task store cannot say, it counts as free.  HasCapability   *)
(* lets a robot pass that the registry does not return, and its tenant is  *)
(* then read from nil.                                                     *)
Check(w) ==
    LET s == Steps[at[w]]
        r == chosen[w]
    IN /\ pc[w] = "admitted"
       /\ \E found, busy \in BOOLEAN :
             /\ found => owner[r] # Gone
             /\ busy => HasRunningForRobot(r)
             /\ IF found = (owner[r] # Gone) /\ busy = HasRunningForRobot(r) THEN NoFault ELSE Fault
             /\ pc' = [pc EXCEPT ![w] =
                   IF s.needs \notin Scenarios \/ busy \/ (found /\ s.needs \notin Able[r])
                   THEN "failing" ELSE IF found THEN "checked" ELSE "panicked"]
       /\ copy' = [copy EXCEPT ![w] = IF pc'[w] = "checked" THEN owner[r] ELSE NoTenant]
       /\ UNCHANGED <<fleetVars, at, caller, chosen, storeVars, slipped>>

(* The run takes the tenant of its first robot (an error is dropped) and   *)
(* the task is stored.                                                     *)
Create(w) ==
    /\ pc[w] = "checked"
    /\ \E named, stored \in BOOLEAN :
          /\ IF named /\ stored THEN NoFault ELSE named # stored /\ Fault
          /\ UpdateTenantID(w, IF at[w] = 1 /\ named THEN copy[w] ELSE label[w])
          /\ pc' = [pc EXCEPT ![w] = IF stored THEN "created" ELSE "failing"]
          /\ task' = [task EXCEPT ![w][at[w]] =
                         IF stored THEN [robot |-> chosen[w], tenant |-> copy[w],
                                         status |-> "pending", linked |-> FALSE]
                         ELSE NoTask]
    /\ chosen' = [chosen EXCEPT ![w] = AnyRobot] /\ copy' = [copy EXCEPT ![w] = NoTenant]
    /\ UNCHANGED <<fleetVars, at, caller, status, slipped>>

(* AddTask, whose error is dropped, and the next step.                     *)
AddTask(w) ==
    /\ pc[w] = "created"
    /\ \/ LinkTask(w, at[w]) /\ NoFault
       \/ UNCHANGED task /\ Fault
    /\ IF at[w] = Len(Steps)
       THEN pc' = [pc EXCEPT ![w] = "over"] /\ UNCHANGED at
       ELSE pc' = [pc EXCEPT ![w] = "step"] /\ at' = [at EXCEPT ![w] = @ + 1]
    /\ UNCHANGED <<fleetVars, caller, chosen, copy, status, label, slipped>>

(* Faulty variant: the walk goes on with the next step.                    *)
FailGoesOn(w) ==
    /\ pc[w] = "failing"
    /\ UpdateStatus(w, "failed")
    /\ IF at[w] = Len(Steps)
       THEN pc' = [pc EXCEPT ![w] = "over"] /\ UNCHANGED at
       ELSE pc' = [pc EXCEPT ![w] = "step"] /\ at' = [at EXCEPT ![w] = @ + 1]
    /\ UNCHANGED <<fleetVars, faults, caller, chosen, copy, label, task, slipped>>

(* The run is recorded as failed (an error is dropped); its earlier tasks  *)
(* stay.                                                                   *)
Fail(w) ==
    /\ pc[w] = "failing"
    /\ \/ UpdateStatus(w, "failed") /\ NoFault
       \/ UNCHANGED status /\ Fault
    /\ pc' = [pc EXCEPT ![w] = "over"]
    /\ chosen' = [chosen EXCEPT ![w] = AnyRobot]
    /\ UNCHANGED <<fleetVars, at, caller, copy, label, task, slipped>>

(* The Task Runner takes a pending task of a free robot and ends it.       *)
RunTask(w, i) ==
    LET t == task[w][i] IN
    /\ \/ /\ t.status = "pending" /\ owner[t.robot] # Gone /\ ~HasRunningForRobot(t.robot)
          /\ task' = [task EXCEPT ![w][i].status = "running"]
       \/ t.status = "running" /\ task' = [task EXCEPT ![w][i].status = "ended"]
    /\ UNCHANGED <<fleetVars, faults, walkVars, status, label, slipped>>

(* Administration goes on beside the walks.                                *)
Administer ==
    /\ FleetNext
    /\ slipped' = slipped \cup {<<w, at[w]>> : w \in {w \in Runs :
                       pc[w] = "admitted" /\ owner'[chosen[w]] # owner[chosen[w]]}}
    /\ UNCHANGED <<walkVars, storeVars>>

-----------------------------------------------------------------------------
Init ==
    /\ FleetInit
    /\ pc = [w \in Runs |-> "none"] /\ at = [w \in Runs |-> 1]
    /\ caller = [w \in Runs |-> AnyTenant] /\ chosen = [w \in Runs |-> AnyRobot]
    /\ copy = [w \in Runs |-> NoTenant]
    /\ status = [w \in Runs |-> "none"] /\ label = [w \in Runs |-> NoTenant]
    /\ task = [w \in Runs |-> [i \in StepIds |-> NoTask]] /\ slipped = {}

Walk(w) == Pick(w) \/ Admit(w) \/ Check(w) \/ Create(w) \/ AddTask(w) \/ Fail(w)

Next ==
    \/ \E w \in Runs : Walk(w) \/ \E t \in Tenants \cup {AnyTenant} : Begin(w, t)
    \/ \E w \in Runs, i \in StepIds : RunTask(w, i)
    \/ Administer

Spec == Init /\ [][Next]_vars

-----------------------------------------------------------------------------
(* Properties *)

TaskRow == [robot : Robots \cup {AnyRobot}, tenant : Tenants \cup {NoTenant},
            status : {"none", "pending", "running", "ended"}, linked : BOOLEAN]

TypeOK ==
    /\ FleetTypeOK
    /\ pc \in [Runs -> WalkPC] /\ at \in [Runs -> StepIds]
    /\ caller \in [Runs -> Tenants \cup {AnyTenant}]
    /\ chosen \in [Runs -> Robots \cup {AnyRobot}] /\ copy \in [Runs -> Tenants \cup {NoTenant}]
    /\ slipped \subseteq Runs \X StepIds
    /\ status \in [Runs -> {"none", "running", "failed"}]
    /\ label \in [Runs -> Tenants \cup {NoTenant}]
    /\ task \in [Runs -> [StepIds -> TaskRow]]
    /\ \A w \in Runs, i \in StepIds :
          \/ task[w][i] = NoTask
          \/ task[w][i].robot \in Robots /\ task[w][i].tenant \in Tenants
             /\ task[w][i].status # "none"

(* The tasks of a run are those of its first steps, however the walk ends  *)
(* and whichever call of a store fails: no step is left out in between.    *)
TasksArePrefix ==
    \A w \in Runs : \A i, j \in StepIds :
        i < j /\ task[w][j] # NoTask => task[w][i] # NoTask

(* The steps of a run that leave the choice of robot open go to robots     *)
(* that no earlier step of the run has, although other requests and the    *)
(* Task Runner change who is free between the choices.                     *)
OneStepPerRobot ==
    \A w \in Runs : \A i, j \in StepIds :
        i < j /\ task[w][j] # NoTask /\ Steps[j].robot = AnyRobot =>
            task[w][i].robot # task[w][j].robot

(* A tenant's run uses only robots of that tenant, also where the workflow *)
(* names the robot, and the tasks and the run bear its name.  A step goes  *)
(* wrong only for reasons of its own: its robot was not returned by the    *)
(* registry when its tenant was compared, or changed hands between that    *)
(* comparison and the copy the task is made from.                          *)
RunsStayInTenant ==
    \A w \in Runs : caller[w] # AnyTenant =>
        /\ <<w, 1>> \notin slipped => label[w] \in {caller[w], NoTenant}
        /\ \A i \in StepIds : <<w, i>> \notin slipped =>
              task[w][i] = NoTask \/ task[w][i].tenant = caller[w]

-----------------------------------------------------------------------------
(* What the docs say of the code and it does not do                        *)

(* docs/implementation/phase-2.6-multi-tenant.md: runWorkflow chooses      *)
(* robots only of the tenant.                                              *)
RobotsOfTenantOnly ==
    \A w \in Runs, i \in StepIds :
        task[w][i] = NoTask \/ caller[w] \in {AnyTenant, task[w][i].tenant}
==============================================================================
