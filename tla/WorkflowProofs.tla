--------------------------- MODULE WorkflowProofs ----------------------------
(***************************************************************************)
(* Proofs about Workflow and the fleet administration beside it, for any   *)
(* workflow, fleet, tenants and number of overlapping requests.            *)
(***************************************************************************)
EXTENDS Workflow, TLAPS

(* A request writes a robot, or deletes a tenant that is not the default.  *)
Formed ==
    \A q \in requests :
        \/ \E t \in Tenants \ {Default} : q = Deletion(t)
        \/ \E r \in Robots, t \in Tenants : q = Write(r, t)

(* A robot that is in a tenant or about to be has its excuse before the    *)
(* tenant is gone: when its deletion has passed its check.                 *)
Accounted ==
    \A r \in Robots, t \in Tenants :
        owner[r] = t \/ Write(r, t) \in requests =>
            /\ t \in tenants \/ <<r, t>> \in excused
            /\ Deletion(t) \in requests => <<r, t>> \in excused

FleetInv == FleetTypeOK /\ Formed /\ Accounted

(* The steps before the one a walk is at have their tasks, those after it  *)
(* have none; its own has one when it was created.                         *)
Placed ==
    \A w \in Runs : \A i \in StepIds :
        /\ i < at[w] => task[w][i] # NoTask
        /\ i > at[w] => task[w][i] = NoTask
        /\ pc[w] \notin {"created", "over"} => task[w][at[w]] = NoTask
        /\ pc[w] = "created" => task[w][at[w]] # NoTask

(* A walk that has found a robot where the step left the choice open has   *)
(* found one that no earlier step of it uses.                              *)
Working == {"picked", "admitted", "checked"}
Fresh ==
    \A w \in Runs : pc[w] \in Working =>
        /\ chosen[w] \in Robots
        /\ Steps[at[w]].robot = AnyRobot =>
              \A i \in StepIds : i < at[w] => task[w][i].robot # chosen[w]

(* What a walk found out about the robot's tenant is so, unless the step   *)
(* has slipped.                                                            *)
Asked ==
    \A w \in Runs :
        /\ pc[w] = "none" => label[w] = NoTenant /\ at[w] = 1
        /\ pc[w] = "checked" => copy[w] \in Tenants
        /\ caller[w] # AnyTenant /\ <<w, at[w]>> \notin slipped =>
              /\ pc[w] = "admitted" => owner[chosen[w]] = caller[w]
              /\ pc[w] = "checked" => copy[w] = caller[w]

WalkInv == Placed /\ Fresh /\ Asked

-----------------------------------------------------------------------------
(* Fleet administration *)

(* Requests are told apart by what they ask for.                           *)
LEMMA Requested ==
    /\ \A t \in Tenants : Deletion(t) \in AdminRequest
    /\ \A r \in Robots, t \in Tenants : Write(r, t) \in AdminRequest
    /\ \A t, u : Deletion(t) = Deletion(u) => t = u
    /\ \A r, s, t, u : Write(r, t) = Write(s, u) => r = s /\ t = u
    /\ \A r, t, u : Deletion(u) # Write(r, t)
<1>1. \A t, u : Deletion(t) = Deletion(u) => t = u
  <2>1. \A t : Deletion(t).tenant = t
    BY DEF Deletion
  <2> QED BY <2>1
<1>2. \A r, s, t, u : Write(r, t) = Write(s, u) => r = s /\ t = u
  <2>1. \A r, t : Write(r, t).tenant = t /\ Write(r, t).robot = r
    BY DEF Write
  <2> QED BY <2>1
<1>3. \A r, t, u : Deletion(u) # Write(r, t)
  <2>1. \A r, t, u : Deletion(u).op = "deleteTenant" /\ Write(r, t).op = "writeRobot"
    BY DEF Deletion, Write
  <2> QED BY <2>1
<1> QED BY <1>1, <1>2, <1>3 DEF Deletion, Write, AdminRequest

(* The count of failed calls stays within its bound.                       *)
LEMMA FaultsCounted ==
    ASSUME FleetTypeOK, NoFault \/ Fault
    PROVE  faults' \in 0..MaxFaults
  BY FleetAssumption DEF FleetTypeOK, NoFault, Fault

(* The bound on the requests is kept.                                      *)
LEMMA ServedCounted ==
    ASSUME FleetTypeOK, served < MaxRequests, served' = served + 1
    PROVE  served' \in 0..MaxRequests
  BY FleetAssumption DEF FleetTypeOK

(* A deletion that passes its check excuses the robots that are in the     *)
(* tenant, which it missed, and those on the way into it.                  *)
LEMMA DeletionEnters ==
    ASSUME FleetInv, NEW t \in Tenants, DeleteTenant(t)
    PROVE  FleetInv'
<1> USE DEF FleetInv
<1>1. /\ requests' = requests \cup {Deletion(t)} /\ UNCHANGED <<tenants, owner>>
      /\ t # Default /\ (NoFault \/ Fault)
      /\ served < MaxRequests /\ served' = served + 1
      /\ excused' = excused \cup ((ListByTenant(t) \cup Arriving(t)) \X {t})
  BY DEF DeleteTenant, Enter
<1>2. FleetTypeOK'
  <2>1. served' \in 0..MaxRequests /\ faults' \in 0..MaxFaults
    BY <1>1, ServedCounted, FaultsCounted
  <2>2. excused' \subseteq Robots \X Tenants
    BY <1>1 DEF FleetTypeOK, ListByTenant, Arriving
  <2>3. requests' \subseteq AdminRequest
    BY <1>1, Requested DEF FleetTypeOK
  <2> QED BY <1>1, <2>1, <2>2, <2>3 DEF FleetTypeOK
<1>3. Formed'
  BY <1>1 DEF Formed
<1>4. Accounted'
  <2> SUFFICES ASSUME NEW r \in Robots, NEW u \in Tenants,
                      owner'[r] = u \/ Write(r, u) \in requests'
               PROVE  /\ u \in tenants' \/ <<r, u>> \in excused'
                      /\ Deletion(u) \in requests' => <<r, u>> \in excused'
    BY DEF Accounted
  <2>1. owner[r] = u \/ Write(r, u) \in requests
    BY <1>1, Requested
  <2>2. u = t => <<r, u>> \in excused'
    BY <1>1, <2>1 DEF ListByTenant, Arriving
  <2>3. Deletion(u) \in requests' => Deletion(u) \in requests \/ u = t
    BY <1>1, Requested
  <2> QED BY <1>1, <2>1, <2>2, <2>3 DEF Accounted
<1> QED BY <1>2, <1>3, <1>4

(* A write that passes its check goes into a tenant that is there, or into *)
(* the one the robot has; a deletion of it that has passed its check is    *)
(* its excuse.                                                             *)
LEMMA WriteEnters ==
    ASSUME FleetInv, NEW r \in Robots, NEW t \in Tenants, EnterWrite(r, t), NoFault \/ Fault,
           HasTenant(t) \/ t = owner[r]
    PROVE  FleetInv'
<1> USE DEF FleetInv
<1>1. /\ requests' = requests \cup {Write(r, t)} /\ UNCHANGED <<tenants, owner>>
      /\ served < MaxRequests /\ served' = served + 1
      /\ excused' \in {excused, excused \cup {<<r, t>>}}
      /\ Deletion(t) \in requests => <<r, t>> \in excused'
  BY DEF EnterWrite, Enter
<1>2. FleetTypeOK'
  <2>1. served' \in 0..MaxRequests /\ faults' \in 0..MaxFaults
    BY <1>1, ServedCounted, FaultsCounted
  <2>2. excused' \subseteq Robots \X Tenants
    BY <1>1 DEF FleetTypeOK
  <2>3. requests' \subseteq AdminRequest
    BY <1>1, Requested DEF FleetTypeOK
  <2> QED BY <1>1, <2>1, <2>2, <2>3 DEF FleetTypeOK
<1>3. Formed'
  BY <1>1 DEF Formed
<1>4. Accounted'
  <2> SUFFICES ASSUME NEW s \in Robots, NEW u \in Tenants,
                      owner'[s] = u \/ Write(s, u) \in requests'
               PROVE  /\ u \in tenants' \/ <<s, u>> \in excused'
                      /\ Deletion(u) \in requests' => <<s, u>> \in excused'
    BY DEF Accounted
  <2>1. Deletion(u) \in requests' => Deletion(u) \in requests
    BY <1>1, Requested
  <2>2. CASE owner[s] = u \/ Write(s, u) \in requests
    BY <1>1, <2>1, <2>2 DEF Accounted
  <2>3. CASE s = r /\ u = t
    BY <1>1, <2>1, <2>3 DEF Accounted, HasTenant
  <2>4. Write(s, u) \in requests' => Write(s, u) \in requests \/ (s = r /\ u = t)
    BY <1>1, Requested
  <2> QED BY <1>1, <2>2, <2>3, <2>4
<1> QED BY <1>2, <1>3, <1>4

(* The write of a request, or its failure.                                 *)
LEMMA WriteStep ==
    ASSUME FleetInv, NEW q \in requests, AdminWrite(q)
    PROVE  FleetInv'
<1> USE DEF FleetInv
<1>1. /\ requests' = requests \ {q} /\ UNCHANGED <<served, excused>> /\ (NoFault \/ Fault)
      /\ faults' \in 0..MaxFaults
  BY FaultsCounted DEF AdminWrite
<1>2. Formed'
  BY <1>1 DEF Formed
<1>3. owner \in [Robots -> Tenants \cup {Gone}]
  BY DEF FleetTypeOK
<1>4. CASE UNCHANGED <<tenants, owner>>
  BY <1>1, <1>2, <1>4 DEF FleetTypeOK, Accounted
<1>5. CASE q.op = "deleteTenant" /\ DropTenant(q.tenant) /\ UNCHANGED owner
  <2>1. PICK t \in Tenants \ {Default} : q = Deletion(t)
    BY <1>5 DEF Formed, Write
  <2>2. tenants' = tenants \ {t}
    BY <1>5, <2>1 DEF DropTenant, Deletion
  <2>3. FleetTypeOK'
    BY <1>1, <1>5, <2>2 DEF FleetTypeOK
  <2>4. Accounted'
    BY <1>1, <1>5, <2>1, <2>2 DEF Accounted
  <2> QED BY <1>2, <2>3, <2>4
<1>6. CASE q.op = "writeRobot" /\ Add(q.robot, q.tenant) /\ UNCHANGED tenants
  <2>1. PICK r \in Robots, t \in Tenants : q = Write(r, t)
    BY <1>6 DEF Formed, Deletion
  <2>2. owner' = [owner EXCEPT ![r] = t]
    BY <1>6, <2>1 DEF Add, Write
  <2>3. owner' \in [Robots -> Tenants \cup {Gone}]
    BY <1>3, <2>2
  <2>4. FleetTypeOK'
    BY <1>1, <1>6, <2>3 DEF FleetTypeOK
  <2>5. Accounted'
    <3> SUFFICES ASSUME NEW s \in Robots, NEW u \in Tenants,
                        owner'[s] = u \/ Write(s, u) \in requests'
                 PROVE  /\ u \in tenants' \/ <<s, u>> \in excused'
                        /\ Deletion(u) \in requests' => <<s, u>> \in excused'
      BY DEF Accounted
    <3>1. owner[s] = u \/ Write(s, u) \in requests
      BY <1>1, <1>3, <2>1, <2>2
    <3> QED BY <1>1, <1>6, <3>1 DEF Accounted
  <2> QED BY <1>2, <2>4, <2>5
<1> QED BY <1>4, <1>5, <1>6 DEF AdminWrite

(* Every administrative request keeps the fleet in order.                  *)
LEMMA FleetStep ==
    ASSUME FleetInv, FleetNext
    PROVE  FleetInv'
<1> USE DEF FleetInv
<1>1. ASSUME NEW t \in Tenants, CreateTenant(t) PROVE FleetInv'
  <2>1. /\ tenants' = tenants \cup {t} /\ UNCHANGED <<owner, requests, faults, excused>>
        /\ served < MaxRequests /\ served' = served + 1
    BY <1>1 DEF CreateTenant, AddTenant
  <2>2. FleetTypeOK'
    BY <2>1, ServedCounted DEF FleetTypeOK
  <2>3. Formed' /\ Accounted'
    BY <2>1 DEF Formed, Accounted
  <2> QED BY <2>2, <2>3
<1>2. ASSUME NEW t \in Tenants, NEW r \in Robots, CreateRobot(r, t) \/ UpdateRobot(r, t)
      PROVE  FleetInv'
  <2>1. EnterWrite(r, t) /\ (NoFault \/ Fault) /\ (HasTenant(t) \/ t = owner[r])
    BY <1>2 DEF CreateRobot, UpdateRobot
  <2> QED BY <2>1, WriteEnters
<1>3. ASSUME NEW r \in Robots, DeleteRobot(r) PROVE FleetInv'
  <2>1. /\ served < MaxRequests /\ served' = served + 1 /\ owner' = [owner EXCEPT ![r] = Gone]
        /\ UNCHANGED <<tenants, requests, faults, excused>>
    BY <1>3 DEF DeleteRobot, Delete
  <2>2. owner \in [Robots -> Tenants \cup {Gone}]
    BY DEF FleetTypeOK
  <2>3. owner' \in [Robots -> Tenants \cup {Gone}]
    BY <2>1, <2>2
  <2>4. FleetTypeOK'
    BY <2>1, <2>3, ServedCounted DEF FleetTypeOK
  <2>5. \A s \in Robots, t \in Tenants : owner'[s] = t => owner[s] = t
    BY <2>1, <2>2, FleetAssumption
  <2>6. Formed' /\ Accounted'
    BY <2>1, <2>5 DEF Formed, Accounted
  <2> QED BY <2>4, <2>6
<1> QED BY <1>1, <1>2, <1>3, DeletionEnters, WriteStep DEF FleetNext

-----------------------------------------------------------------------------
(* What the steps of a walk do *)

(* The steps are numbered from 1.                                          *)
LEMMA StepFacts ==
    /\ Len(Steps) \in Nat \ {0} /\ StepIds = 1..Len(Steps) /\ 1 \in StepIds
    /\ StepIds \subseteq Nat
    /\ \A i \in StepIds : Steps[i].robot \in Robots \cup {AnyRobot}
<1>1. /\ Steps \in Seq([robot : Robots \cup {AnyRobot}, needs : STRING]) /\ Steps # <<>>
  BY StepsAssumption
<1>2. Len(Steps) \in Nat \ {0} /\ StepIds = 1..Len(Steps)
  BY <1>1 DEF StepIds
<1> DEFINE S == [robot : Robots \cup {AnyRobot}, needs : STRING]
<1>3. \A s \in S : s.robot \in Robots \cup {AnyRobot}
  OBVIOUS
<1>4. Steps \in Seq(S)
  BY <1>1
<1> HIDE DEF S
<1>5. \A i \in StepIds : Steps[i].robot \in Robots \cup {AnyRobot}
  BY <1>2, <1>3, <1>4
<1> QED BY <1>2, <1>5

(* No task is no task of a robot.                                          *)
LEMMA NoTaskFacts == NoTask \in TaskRow /\ NoTask.robot = AnyRobot /\ AnyRobot \notin Robots
                     /\ NoTask.status = "none"
<1>1. PICK no \in BOOLEAN : no = FALSE
  OBVIOUS
<1>2. NoTask = [robot |-> AnyRobot, tenant |-> NoTenant, status |-> "none", linked |-> no]
  BY <1>1 DEF NoTask
<1> QED BY <1>2, WorkflowAssumption DEF TaskRow

(* A task changes its status, or is linked, or a row is written.           *)
LEMMA RowSet ==
    ASSUME NEW T \in [Runs -> [StepIds -> TaskRow]], NEW w \in Runs, NEW i \in StepIds,
           NEW row \in TaskRow
    PROVE  LET U == [T EXCEPT ![w][i] = row]
           IN /\ U \in [Runs -> [StepIds -> TaskRow]] /\ U[w][i] = row
              /\ \A v \in Runs, j \in StepIds : (v # w \/ j # i) => U[v][j] = T[v][j]
  OBVIOUS

(* A row with another status, and a row that is linked.                    *)
LEMMA StatusRow ==
    ASSUME NEW x \in TaskRow, NEW s \in {"running", "ended"}
    PROVE  /\ [x EXCEPT !.status = s] \in TaskRow /\ [x EXCEPT !.status = s].status = s
           /\ [x EXCEPT !.status = s].robot = x.robot /\ [x EXCEPT !.status = s].tenant = x.tenant
  BY DEF TaskRow

(* A row that is linked to its run keeps its status, robot and tenant.     *)
LEMMA LinkRow ==
    ASSUME NEW x \in TaskRow, NEW b \in BOOLEAN
    PROVE  /\ [x EXCEPT !.linked = b] \in TaskRow /\ [x EXCEPT !.linked = b].status = x.status
           /\ [x EXCEPT !.linked = b].robot = x.robot /\ [x EXCEPT !.linked = b].tenant = x.tenant
  BY DEF TaskRow

(* Pick finds a robot that the step names or that the run does not use.    *)
LEMMA PickDoes ==
    ASSUME TypeOK, NEW w \in Runs, Pick(w)
    PROVE  /\ pc[w] = "step" /\ pc' \in [Runs -> WalkPC] /\ pc'[w] \in {"picked", "failing"}
           /\ chosen' \in [Runs -> Robots \cup {AnyRobot}]
           /\ pc'[w] = "picked" =>
                 /\ chosen'[w] \in Robots
                 /\ Steps[at[w]].robot = AnyRobot => chosen'[w] \notin UsedRobots(w)
           /\ \A v \in Runs \ {w} : pc'[v] = pc[v] /\ chosen'[v] = chosen[v]
           /\ faults' \in 0..MaxFaults
           /\ UNCHANGED <<fleetVars, at, caller, copy, storeVars, slipped>>
<1> DEFINE s == Steps[at[w]]
           candidates == IF s.robot # AnyRobot THEN {s.robot} ELSE Fitting(w, s.needs)
<1>1. /\ pc[w] = "step" /\ (NoFault \/ Fault)
      /\ \/ pc' = [pc EXCEPT ![w] = "failing"] /\ UNCHANGED chosen
         \/ \E r \in candidates :
               chosen' = [chosen EXCEPT ![w] = r] /\ pc' = [pc EXCEPT ![w] = "picked"]
      /\ UNCHANGED <<fleetVars, at, caller, copy, storeVars, slipped>>
  BY DEF Pick, Available
<1>2. at[w] \in StepIds /\ s.robot \in Robots \cup {AnyRobot}
  BY StepFacts DEF TypeOK
<1>3. \A r \in candidates : r \in Robots /\ (s.robot = AnyRobot => r \notin UsedRobots(w))
  BY <1>2 DEF Fitting
<1> HIDE DEF candidates
<1>4. pc \in [Runs -> WalkPC] /\ chosen \in [Runs -> Robots \cup {AnyRobot}]
  BY DEF TypeOK
<1>5. faults' \in 0..MaxFaults
  BY <1>1, FaultsCounted DEF TypeOK
<1>6. CASE pc' = [pc EXCEPT ![w] = "failing"] /\ UNCHANGED chosen
  BY <1>1, <1>4, <1>5, <1>6 DEF WalkPC
<1>7. ASSUME NEW r \in candidates,
             chosen' = [chosen EXCEPT ![w] = r], pc' = [pc EXCEPT ![w] = "picked"]
      PROVE  /\ pc' \in [Runs -> WalkPC] /\ pc'[w] = "picked"
             /\ chosen' \in [Runs -> Robots \cup {AnyRobot}] /\ chosen'[w] = r
             /\ \A v \in Runs \ {w} : pc'[v] = pc[v] /\ chosen'[v] = chosen[v]
  BY <1>3, <1>4, <1>7 DEF WalkPC
<1> QED BY <1>1, <1>3, <1>5, <1>6, <1>7

(* Admit lets a robot of the caller's tenant pass; a step that passes with *)
(* another one has slipped.                                                *)
LEMMA AdmitDoes ==
    ASSUME TypeOK, NEW w \in Runs, Admit(w)
    PROVE  /\ pc[w] = "picked" /\ pc' \in [Runs -> WalkPC] /\ pc'[w] \in {"admitted", "failing"}
           /\ pc'[w] = "admitted" => \/ <<w, at[w]>> \in slipped'
                                     \/ caller[w] \in {AnyTenant, owner[chosen[w]]}
           /\ slipped \subseteq slipped' /\ slipped' \subseteq Runs \X StepIds
           /\ \A v \in Runs \ {w} : pc'[v] = pc[v]
           /\ faults' \in 0..MaxFaults
           /\ UNCHANGED <<fleetVars, at, caller, chosen, copy, storeVars>>
<1>1. /\ pc[w] = "picked" /\ (NoFault \/ Fault)
      /\ UNCHANGED <<fleetVars, at, caller, chosen, copy, storeVars>>
  BY DEF Admit
<1>2. PICK p \in {"admitted", "failing"}, how \in SUBSET {<<w, at[w]>>} :
         /\ pc' = [pc EXCEPT ![w] = p] /\ slipped' = slipped \cup how
         /\ p = "admitted" => \/ how = {<<w, at[w]>>}
                              \/ caller[w] \in {AnyTenant, owner[chosen[w]]}
  <2>1. CASE pc' = [pc EXCEPT ![w] = "failing"] /\ UNCHANGED slipped
    <3>1. slipped' = slipped \cup {} /\ {} \in SUBSET {<<w, at[w]>>}
      BY <2>1
    <3> QED BY <2>1, <3>1
  <2>2. CASE pc' = [pc EXCEPT ![w] = "admitted"] /\ slipped' = slipped \cup {<<w, at[w]>>}
    BY <2>2
  <2>3. CASE /\ pc' = [pc EXCEPT ![w] = "admitted"] /\ slipped' = slipped \cup {}
             /\ caller[w] \in {AnyTenant, owner[chosen[w]]}
    BY <2>3
  <2> QED BY <2>1, <2>2, <2>3 DEF Admit
<1>3. at[w] \in StepIds /\ pc \in [Runs -> WalkPC] /\ slipped \subseteq Runs \X StepIds
  BY DEF TypeOK
<1>4. faults' \in 0..MaxFaults
  BY <1>1, FaultsCounted DEF TypeOK
<1>5. pc' \in [Runs -> WalkPC] /\ pc'[w] = p /\ \A v \in Runs \ {w} : pc'[v] = pc[v]
  BY <1>2, <1>3 DEF WalkPC
<1>6. slipped \subseteq slipped' /\ slipped' \subseteq Runs \X StepIds
  BY <1>2, <1>3
<1> QED BY <1>1, <1>2, <1>4, <1>5, <1>6

(* Check reads the robot's tenant, and the robot is there if it goes on.   *)
LEMMA CheckDoes ==
    ASSUME TypeOK, Fresh, NEW w \in Runs, Check(w)
    PROVE  /\ pc[w] = "admitted" /\ pc' \in [Runs -> WalkPC]
           /\ pc'[w] \in {"failing", "panicked", "checked"}
           /\ copy' \in [Runs -> Tenants \cup {NoTenant}] /\ faults' \in 0..MaxFaults
           /\ pc'[w] = "checked" => copy'[w] \in Tenants /\ copy'[w] = owner[chosen[w]]
           /\ \A v \in Runs \ {w} : pc'[v] = pc[v] /\ copy'[v] = copy[v]
           /\ UNCHANGED <<fleetVars, at, caller, chosen, status, label, task, slipped>>
<1> DEFINE s == Steps[at[w]]
           r == chosen[w]
<1>1. PICK found \in BOOLEAN, busy \in BOOLEAN :
         /\ found => owner[r] # Gone
         /\ NoFault \/ Fault
         /\ pc' = [pc EXCEPT ![w] =
               IF s.needs \notin Scenarios \/ busy \/ (found /\ s.needs \notin Able[r])
               THEN "failing" ELSE IF found THEN "checked" ELSE "panicked"]
  BY DEF Check
<1>2. /\ pc[w] = "admitted"
      /\ copy' = [copy EXCEPT ![w] = IF pc'[w] = "checked" THEN owner[r] ELSE NoTenant]
      /\ UNCHANGED <<fleetVars, at, caller, chosen, status, label, task, slipped>>
  BY DEF Check, storeVars
<1>3. PICK p \in {"failing", "panicked", "checked"} :
         pc' = [pc EXCEPT ![w] = p] /\ (p = "checked" => owner[r] # Gone)
  BY <1>1
<1>4. /\ pc \in [Runs -> WalkPC] /\ copy \in [Runs -> Tenants \cup {NoTenant}]
      /\ owner \in [Robots -> Tenants \cup {Gone}] /\ r \in Robots
  BY <1>2 DEF TypeOK, FleetTypeOK, Fresh, Working
<1>5. pc' \in [Runs -> WalkPC] /\ pc'[w] = p /\ \A v \in Runs \ {w} : pc'[v] = pc[v]
  BY <1>3, <1>4 DEF WalkPC
<1>6. faults' \in 0..MaxFaults
  BY <1>1, FaultsCounted DEF TypeOK
<1>7. PICK t \in Tenants \cup {NoTenant} :
         copy' = [copy EXCEPT ![w] = t] /\ (p = "checked" => t \in Tenants /\ t = owner[r])
  BY <1>2, <1>3, <1>4, <1>5
<1>8. /\ copy' \in [Runs -> Tenants \cup {NoTenant}] /\ copy'[w] = t
      /\ \A v \in Runs \ {w} : copy'[v] = copy[v]
  BY <1>4, <1>7
<1> QED BY <1>2, <1>3, <1>5, <1>6, <1>7, <1>8

(* Create writes the step's row, for the robot and the tenant it worked    *)
(* with, or none.                                                          *)
LEMMA CreateDoes ==
    ASSUME TypeOK, Fresh, Asked, NEW w \in Runs, Create(w)
    PROVE  /\ pc[w] = "checked" /\ pc' \in [Runs -> WalkPC]
           /\ label' \in [Runs -> Tenants \cup {NoTenant}] /\ label'[w] \in {label[w], copy[w]}
           /\ at[w] # 1 => label'[w] = label[w]
           /\ task' \in [Runs -> [StepIds -> TaskRow]]
           /\ \/ /\ pc'[w] = "created" /\ task'[w][at[w]] # NoTask
                 /\ task'[w][at[w]].robot = chosen[w] /\ task'[w][at[w]].tenant = copy[w]
                 /\ task'[w][at[w]].status # "none"
              \/ pc'[w] = "failing" /\ task'[w][at[w]] = NoTask
           /\ \A v \in Runs, j \in StepIds : (v # w \/ j # at[w]) => task'[v][j] = task[v][j]
           /\ \A v \in Runs \ {w} : pc'[v] = pc[v] /\ label'[v] = label[v]
           /\ chosen' \in [Runs -> Robots \cup {AnyRobot}]
           /\ copy' \in [Runs -> Tenants \cup {NoTenant}]
           /\ \A v \in Runs \ {w} : chosen'[v] = chosen[v] /\ copy'[v] = copy[v]
           /\ faults' \in 0..MaxFaults
           /\ UNCHANGED <<fleetVars, at, caller, status, slipped>>
<1> DEFINE Row(no) == [robot |-> chosen[w], tenant |-> copy[w], status |-> "pending",
                       linked |-> no]
<1>1. PICK named \in BOOLEAN, stored \in BOOLEAN :
         /\ IF named /\ stored THEN NoFault ELSE named # stored /\ Fault
         /\ UpdateTenantID(w, IF at[w] = 1 /\ named THEN copy[w] ELSE label[w])
         /\ pc' = [pc EXCEPT ![w] = IF stored THEN "created" ELSE "failing"]
         /\ task' = [task EXCEPT ![w][at[w]] = IF stored THEN Row(FALSE) ELSE NoTask]
  BY DEF Create
<1>2. /\ pc[w] = "checked"
      /\ chosen' = [chosen EXCEPT ![w] = AnyRobot] /\ copy' = [copy EXCEPT ![w] = NoTenant]
      /\ UNCHANGED <<fleetVars, at, caller, status, slipped>>
  BY DEF Create
<1>3. /\ pc \in [Runs -> WalkPC] /\ label \in [Runs -> Tenants \cup {NoTenant}]
      /\ chosen \in [Runs -> Robots \cup {AnyRobot}]
      /\ copy \in [Runs -> Tenants \cup {NoTenant}] /\ at[w] \in StepIds
      /\ task \in [Runs -> [StepIds -> TaskRow]]
      /\ chosen[w] \in Robots /\ copy[w] \in Tenants
  BY <1>2 DEF TypeOK, Fresh, Working, Asked
<1>4. faults' \in 0..MaxFaults
  BY <1>1, FaultsCounted DEF TypeOK
<1>5. /\ chosen' \in [Runs -> Robots \cup {AnyRobot}]
      /\ copy' \in [Runs -> Tenants \cup {NoTenant}]
      /\ \A v \in Runs \ {w} : chosen'[v] = chosen[v] /\ copy'[v] = copy[v]
  BY <1>2, <1>3
<1>6. PICK t \in {label[w], copy[w]} :
         label' = [label EXCEPT ![w] = t] /\ (at[w] # 1 => t = label[w])
  BY <1>1 DEF UpdateTenantID
<1>7. /\ label' \in [Runs -> Tenants \cup {NoTenant}] /\ label'[w] \in {label[w], copy[w]}
      /\ at[w] # 1 => label'[w] = label[w]
      /\ \A v \in Runs \ {w} : label'[v] = label[v]
  BY <1>3, <1>6
<1>8. PICK row \in TaskRow, p \in {"created", "failing"} :
         /\ task' = [task EXCEPT ![w][at[w]] = row] /\ pc' = [pc EXCEPT ![w] = p]
         /\ \/ /\ p = "created" /\ row # NoTask /\ row.robot = chosen[w]
               /\ row.tenant = copy[w] /\ row.status # "none"
            \/ p = "failing" /\ row = NoTask
  <2>1. CASE stored
    <3>1. PICK no \in BOOLEAN : no = FALSE
      OBVIOUS
    <3>2. /\ Row(no) \in TaskRow /\ Row(no).robot = chosen[w] /\ Row(no).tenant = copy[w]
          /\ Row(no).status = "pending"
      BY <1>3 DEF TaskRow
    <3>3. Row(no) # NoTask
      BY <1>3, <3>2, NoTaskFacts
    <3>4. task' = [task EXCEPT ![w][at[w]] = Row(no)] /\ pc' = [pc EXCEPT ![w] = "created"]
      BY <1>1, <2>1, <3>1
    <3> HIDE DEF Row
    <3> QED BY <3>2, <3>3, <3>4
  <2>2. CASE ~stored
    BY <1>1, <2>2, NoTaskFacts
  <2> QED BY <2>1, <2>2
<1>9. /\ task' \in [Runs -> [StepIds -> TaskRow]] /\ task'[w][at[w]] = row
      /\ \A v \in Runs, j \in StepIds : (v # w \/ j # at[w]) => task'[v][j] = task[v][j]
  BY <1>3, <1>8, RowSet
<1>10. pc' \in [Runs -> WalkPC] /\ pc'[w] = p /\ \A v \in Runs \ {w} : pc'[v] = pc[v]
  BY <1>3, <1>8 DEF WalkPC
<1> QED BY <1>2, <1>4, <1>5, <1>7, <1>8, <1>9, <1>10

(* Tasks stay the tasks they are.                                          *)
TasksKept ==
    /\ task' \in [Runs -> [StepIds -> TaskRow]]
    /\ \A v \in Runs, j \in StepIds :
          /\ task'[v][j] = NoTask <=> task[v][j] = NoTask
          /\ task'[v][j].robot = task[v][j].robot /\ task'[v][j].tenant = task[v][j].tenant
          /\ task'[v][j] # NoTask => task'[v][j].status # "none"

(* AddTask goes to the next step if there is one.                          *)
LEMMA AddTaskDoes ==
    ASSUME TypeOK, Placed, NEW w \in Runs, AddTask(w)
    PROVE  /\ pc[w] = "created" /\ pc' \in [Runs -> WalkPC] /\ at' \in [Runs -> StepIds]
           /\ \/ pc'[w] = "over" /\ at'[w] = at[w]
              \/ pc'[w] = "step" /\ at'[w] = at[w] + 1
           /\ \A v \in Runs \ {w} : pc'[v] = pc[v] /\ at'[v] = at[v]
           /\ TasksKept /\ faults' \in 0..MaxFaults
           /\ UNCHANGED <<fleetVars, caller, chosen, copy, status, label, slipped>>
<1>1. /\ pc[w] = "created"
      /\ \/ LinkTask(w, at[w]) /\ NoFault
         \/ UNCHANGED task /\ Fault
      /\ UNCHANGED <<fleetVars, caller, chosen, copy, status, label, slipped>>
  BY DEF AddTask
<1>2. /\ pc \in [Runs -> WalkPC] /\ at \in [Runs -> StepIds] /\ at[w] \in StepIds
      /\ task \in [Runs -> [StepIds -> TaskRow]]
      /\ \A v \in Runs, j \in StepIds :
            task[v][j] = NoTask \/ (task[v][j].robot \in Robots /\ task[v][j].status # "none")
  BY DEF TypeOK
<1>3. faults' \in 0..MaxFaults
  BY <1>1, FaultsCounted DEF TypeOK
<1>4. /\ pc' \in [Runs -> WalkPC] /\ at' \in [Runs -> StepIds]
      /\ \/ pc'[w] = "over" /\ at'[w] = at[w]
         \/ pc'[w] = "step" /\ at'[w] = at[w] + 1
      /\ \A v \in Runs \ {w} : pc'[v] = pc[v] /\ at'[v] = at[v]
  <2>1. CASE at[w] = Len(Steps)
    BY <1>2, <2>1 DEF AddTask, WalkPC
  <2>2. CASE at[w] # Len(Steps)
    <3>1. at[w] + 1 \in StepIds
      BY <1>2, <2>2, StepFacts
    <3> QED BY <1>2, <2>2, <3>1 DEF AddTask, WalkPC
  <2> QED BY <2>1, <2>2
<1>5. TasksKept
  <2>1. CASE UNCHANGED task
    BY <1>2, <2>1 DEF TasksKept
  <2>2. CASE LinkTask(w, at[w])
    <3>1. PICK yes \in BOOLEAN : yes = TRUE
      OBVIOUS
    <3>2. task' = [task EXCEPT ![w][at[w]].linked = yes]
      BY <2>2, <3>1 DEF LinkTask
    <3>3. /\ task' \in [Runs -> [StepIds -> TaskRow]]
          /\ task'[w][at[w]].status = task[w][at[w]].status
          /\ task'[w][at[w]].robot = task[w][at[w]].robot
          /\ task'[w][at[w]].tenant = task[w][at[w]].tenant
          /\ \A v \in Runs, j \in StepIds : (v # w \/ j # at[w]) => task'[v][j] = task[v][j]
      <4> DEFINE x == task[w][at[w]]
                 row == [x EXCEPT !.linked = yes]
      <4>1. task' = [task EXCEPT ![w][at[w]] = row]
        BY <3>2
      <4>2. x \in TaskRow
        BY <1>2
      <4> HIDE DEF x
      <4>3. /\ row \in TaskRow /\ row.status = x.status /\ row.robot = x.robot
            /\ row.tenant = x.tenant
        BY <4>2, LinkRow
      <4> HIDE DEF row
      <4>4. /\ task' \in [Runs -> [StepIds -> TaskRow]] /\ task'[w][at[w]] = row
            /\ \A v \in Runs, j \in StepIds : (v # w \/ j # at[w]) => task'[v][j] = task[v][j]
        BY <1>2, <4>1, <4>3, RowSet
      <4> QED BY <4>3, <4>4 DEF x
    <3>4. task[w][at[w]] # NoTask
      BY <1>1, <1>2 DEF Placed
    <3>5. task'[w][at[w]] # NoTask
      BY <1>2, <3>3, <3>4, NoTaskFacts
    <3>6. ASSUME NEW v \in Runs, NEW j \in StepIds
          PROVE  /\ task'[v][j] = NoTask <=> task[v][j] = NoTask
                 /\ task'[v][j].robot = task[v][j].robot /\ task'[v][j].tenant = task[v][j].tenant
                 /\ task'[v][j] # NoTask => task'[v][j].status # "none"
      <4>1. CASE v = w /\ j = at[w]
        BY <1>2, <3>3, <3>4, <3>5, <4>1
      <4>2. CASE v # w \/ j # at[w]
        BY <1>2, <3>3, <4>2
      <4> QED BY <4>1, <4>2
    <3> QED BY <3>3, <3>6 DEF TasksKept
  <2> QED BY <1>1, <2>1, <2>2
<1> QED BY <1>1, <1>3, <1>4, <1>5

(* The Task Runner changes the status of a task that is one.               *)
LEMMA RunTaskDoes ==
    ASSUME TypeOK, NEW w \in Runs, NEW i \in StepIds, RunTask(w, i)
    PROVE  TasksKept /\ UNCHANGED <<fleetVars, faults, walkVars, status, label, slipped>>
<1>1. /\ task[w][i].status \in {"pending", "running"}
      /\ \E s \in {"running", "ended"} : task' = [task EXCEPT ![w][i].status = s]
      /\ UNCHANGED <<fleetVars, faults, walkVars, status, label, slipped>>
  BY DEF RunTask
<1>2. /\ task \in [Runs -> [StepIds -> TaskRow]]
      /\ \A v \in Runs, j \in StepIds :
            task[v][j] = NoTask \/ (task[v][j].robot \in Robots /\ task[v][j].status # "none")
  BY DEF TypeOK
<1>3. PICK s \in {"running", "ended"} : task' = [task EXCEPT ![w][i].status = s]
  BY <1>1
<1>4. /\ task' \in [Runs -> [StepIds -> TaskRow]]
      /\ task'[w][i].status = s
      /\ task'[w][i].robot = task[w][i].robot
      /\ task'[w][i].tenant = task[w][i].tenant
      /\ \A v \in Runs, j \in StepIds : (v # w \/ j # i) => task'[v][j] = task[v][j]
  <2> DEFINE x == task[w][i]
             row == [x EXCEPT !.status = s]
  <2>1. task' = [task EXCEPT ![w][i] = row]
    BY <1>3
  <2>2. x \in TaskRow
    BY <1>2
  <2> HIDE DEF x
  <2>3. row \in TaskRow /\ row.status = s /\ row.robot = x.robot /\ row.tenant = x.tenant
    BY <2>2, StatusRow
  <2> HIDE DEF row
  <2>4. /\ task' \in [Runs -> [StepIds -> TaskRow]] /\ task'[w][i] = row
        /\ \A v \in Runs, j \in StepIds : (v # w \/ j # i) => task'[v][j] = task[v][j]
    BY <1>2, <2>1, <2>3, RowSet
  <2> QED BY <2>3, <2>4 DEF x
<1>5. task[w][i] # NoTask
  BY <1>1, NoTaskFacts
<1>6. task'[w][i] # NoTask
  BY <1>2, <1>4, <1>5, NoTaskFacts
<1>7. ASSUME NEW v \in Runs, NEW j \in StepIds
      PROVE  /\ task'[v][j] = NoTask <=> task[v][j] = NoTask
             /\ task'[v][j].robot = task[v][j].robot /\ task'[v][j].tenant = task[v][j].tenant
             /\ task'[v][j] # NoTask => task'[v][j].status # "none"
  <2>1. CASE v = w /\ j = i
    BY <1>4, <1>5, <1>6, <2>1
  <2>2. CASE v # w \/ j # i
    BY <1>2, <1>4, <2>2
  <2> QED BY <2>1, <2>2
<1> QED BY <1>1, <1>4, <1>7 DEF TasksKept

-----------------------------------------------------------------------------
(* The invariant *)

Inv == TypeOK /\ FleetInv /\ WalkInv /\ OneStepPerRobot /\ RunsStayInTenant

(* A step of a walk leaves the fleet alone.                                *)
LEMMA FleetRests ==
    ASSUME FleetInv, UNCHANGED fleetVars, faults' \in 0..MaxFaults
    PROVE  FleetInv' /\ UNCHANGED <<tenants, owner, requests, served, excused>>
  BY DEF fleetVars, FleetInv, FleetTypeOK, Formed, Accounted

(* The walk's place, robot and tenant stay; its pc moves on.               *)
LEMMA TypeFrom ==
    ASSUME Inv, FleetInv',
           pc' \in [Runs -> WalkPC], at' \in [Runs -> StepIds],
           caller' \in [Runs -> Tenants \cup {AnyTenant}],
           chosen' \in [Runs -> Robots \cup {AnyRobot}],
           copy' \in [Runs -> Tenants \cup {NoTenant}],
           slipped' \subseteq Runs \X StepIds, status' \in [Runs -> {"none", "running", "failed"}],
           label' \in [Runs -> Tenants \cup {NoTenant}], UNCHANGED task \/ TasksKept
    PROVE  TypeOK'
<1>1. CASE UNCHANGED task
  BY <1>1 DEF Inv, TypeOK, FleetInv
<1>2. CASE TasksKept
  <2>1. \A w \in Runs, i \in StepIds :
          \/ task'[w][i] = NoTask
          \/ task'[w][i].robot \in Robots /\ task'[w][i].tenant \in Tenants
             /\ task'[w][i].status # "none"
    BY <1>2 DEF Inv, TypeOK, TasksKept
  <2> QED BY <1>2, <2>1 DEF TypeOK, FleetInv, TasksKept
<1> QED BY <1>1, <1>2

(* Pick keeps the invariant.                                               *)
LEMMA PickStep ==
    ASSUME Inv, NEW w \in Runs, Pick(w)
    PROVE  Inv'
<1> USE DEF Inv, WalkInv
<1>1. /\ pc[w] = "step" /\ pc' \in [Runs -> WalkPC] /\ pc'[w] \in {"picked", "failing"}
      /\ chosen' \in [Runs -> Robots \cup {AnyRobot}]
      /\ pc'[w] = "picked" =>
            /\ chosen'[w] \in Robots
            /\ Steps[at[w]].robot = AnyRobot => chosen'[w] \notin UsedRobots(w)
      /\ \A v \in Runs \ {w} : pc'[v] = pc[v] /\ chosen'[v] = chosen[v]
      /\ faults' \in 0..MaxFaults
      /\ UNCHANGED <<fleetVars, at, caller, copy, status, label, task, slipped>>
  BY PickDoes DEF storeVars
<1>2. FleetInv' /\ UNCHANGED owner
  BY <1>1, FleetRests
<1>3. TypeOK'
  BY <1>1, <1>2, TypeFrom DEF TypeOK
<1>4. Placed'
  BY <1>1 DEF Placed
<1>5. Fresh'
  <2>1. ASSUME NEW v \in Runs, pc'[v] \in Working
        PROVE  /\ chosen'[v] \in Robots
               /\ Steps[at[v]].robot = AnyRobot =>
                     \A i \in StepIds : i < at[v] => task[v][i].robot # chosen'[v]
    <3>1. CASE v = w
      <4>1. \A i \in StepIds : i < at[w] => task[w][i].robot \in UsedRobots(w)
        BY DEF Placed, UsedRobots
      <4> QED BY <1>1, <2>1, <3>1, <4>1 DEF Working
    <3>2. CASE v # w
      BY <1>1, <2>1, <3>2 DEF Fresh
    <3> QED BY <3>1, <3>2
  <2> QED BY <1>1, <2>1 DEF Fresh
<1>6. Asked'
  BY <1>1, <1>2 DEF Asked
<1>7. OneStepPerRobot' /\ RunsStayInTenant'
  BY <1>1, <1>2 DEF OneStepPerRobot, RunsStayInTenant
<1> QED BY <1>2, <1>3, <1>4, <1>5, <1>6, <1>7

(* Admit keeps the invariant.                                              *)
LEMMA AdmitStep ==
    ASSUME Inv, NEW w \in Runs, Admit(w)
    PROVE  Inv'
<1> USE DEF Inv, WalkInv
<1>1. /\ pc[w] = "picked" /\ pc' \in [Runs -> WalkPC] /\ pc'[w] \in {"admitted", "failing"}
      /\ pc'[w] = "admitted" => \/ <<w, at[w]>> \in slipped'
                                \/ caller[w] \in {AnyTenant, owner[chosen[w]]}
      /\ slipped \subseteq slipped' /\ slipped' \subseteq Runs \X StepIds
      /\ \A v \in Runs \ {w} : pc'[v] = pc[v]
      /\ faults' \in 0..MaxFaults
      /\ UNCHANGED <<fleetVars, at, caller, chosen, copy, status, label, task>>
  BY AdmitDoes DEF storeVars
<1>2. FleetInv' /\ UNCHANGED owner
  BY <1>1, FleetRests
<1>3. TypeOK'
  BY <1>1, <1>2, TypeFrom DEF TypeOK
<1>4. Placed'
  BY <1>1 DEF Placed
<1>5. Fresh'
  BY <1>1 DEF Fresh, Working
<1>6. Asked'
  BY <1>1, <1>2 DEF Asked
<1>7. OneStepPerRobot' /\ RunsStayInTenant'
  BY <1>1, <1>2 DEF OneStepPerRobot, RunsStayInTenant
<1> QED BY <1>2, <1>3, <1>4, <1>5, <1>6, <1>7

(* Check keeps the invariant.                                              *)
LEMMA CheckStep ==
    ASSUME Inv, NEW w \in Runs, Check(w)
    PROVE  Inv'
<1> USE DEF Inv, WalkInv
<1>1. /\ pc[w] = "admitted" /\ pc' \in [Runs -> WalkPC]
      /\ pc'[w] \in {"failing", "panicked", "checked"}
      /\ copy' \in [Runs -> Tenants \cup {NoTenant}] /\ faults' \in 0..MaxFaults
      /\ pc'[w] = "checked" => copy'[w] \in Tenants /\ copy'[w] = owner[chosen[w]]
      /\ \A v \in Runs \ {w} : pc'[v] = pc[v] /\ copy'[v] = copy[v]
      /\ UNCHANGED <<fleetVars, at, caller, chosen, status, label, task, slipped>>
  BY CheckDoes
<1>2. FleetInv' /\ UNCHANGED owner
  BY <1>1, FleetRests
<1>3. TypeOK'
  BY <1>1, <1>2, TypeFrom DEF TypeOK
<1>4. Placed'
  BY <1>1 DEF Placed
<1>5. Fresh'
  BY <1>1 DEF Fresh, Working
<1>6. Asked'
  BY <1>1, <1>2 DEF Asked
<1>7. OneStepPerRobot' /\ RunsStayInTenant'
  BY <1>1, <1>2 DEF OneStepPerRobot, RunsStayInTenant
<1> QED BY <1>2, <1>3, <1>4, <1>5, <1>6, <1>7

(* Create keeps the invariant: the new task is the last, of a robot that   *)
(* no earlier step uses if the step left that open, and of the tenant that *)
(* was checked.                                                            *)
LEMMA CreateStep ==
    ASSUME Inv, NEW w \in Runs, Create(w)
    PROVE  Inv'
<1> USE DEF Inv, WalkInv
<1>1. /\ pc[w] = "checked" /\ pc' \in [Runs -> WalkPC]
      /\ label' \in [Runs -> Tenants \cup {NoTenant}] /\ label'[w] \in {label[w], copy[w]}
      /\ at[w] # 1 => label'[w] = label[w]
      /\ task' \in [Runs -> [StepIds -> TaskRow]]
      /\ \/ /\ pc'[w] = "created" /\ task'[w][at[w]] # NoTask
            /\ task'[w][at[w]].robot = chosen[w] /\ task'[w][at[w]].tenant = copy[w]
            /\ task'[w][at[w]].status # "none"
         \/ pc'[w] = "failing" /\ task'[w][at[w]] = NoTask
      /\ \A v \in Runs, j \in StepIds : (v # w \/ j # at[w]) => task'[v][j] = task[v][j]
      /\ \A v \in Runs \ {w} : pc'[v] = pc[v] /\ label'[v] = label[v]
      /\ chosen' \in [Runs -> Robots \cup {AnyRobot}]
      /\ copy' \in [Runs -> Tenants \cup {NoTenant}]
      /\ \A v \in Runs \ {w} : chosen'[v] = chosen[v] /\ copy'[v] = copy[v]
      /\ faults' \in 0..MaxFaults
      /\ UNCHANGED <<fleetVars, at, caller, status, slipped>>
  BY CreateDoes
<1>2. FleetInv' /\ UNCHANGED owner
  BY <1>1, FleetRests
<1>3. at[w] \in StepIds /\ chosen[w] \in Robots /\ copy[w] \in Tenants
  BY <1>1 DEF TypeOK, Fresh, Working, Asked
<1>4. TypeOK'
  <2>1. ASSUME NEW v \in Runs, NEW i \in StepIds
        PROVE  \/ task'[v][i] = NoTask
               \/ task'[v][i].robot \in Robots /\ task'[v][i].tenant \in Tenants
                  /\ task'[v][i].status # "none"
    <3>1. CASE v = w /\ i = at[w]
      BY <1>1, <1>3, <3>1
    <3>2. CASE v # w \/ i # at[w]
      <4>1. task'[v][i] = task[v][i]
        BY <1>1, <3>2
      <4> QED BY <4>1 DEF TypeOK
    <3> QED BY <3>1, <3>2
  <2> QED BY <1>1, <1>2, <2>1 DEF TypeOK, FleetInv
<1>5. Placed'
  <2>1. ASSUME NEW v \in Runs, NEW i \in StepIds
        PROVE  /\ i < at[v] => task'[v][i] # NoTask
               /\ i > at[v] => task'[v][i] = NoTask
               /\ pc'[v] \notin {"created", "over"} => task'[v][at[v]] = NoTask
               /\ pc'[v] = "created" => task'[v][at[v]] # NoTask
    <3>1. at[v] \in StepIds /\ at[v] \in Nat /\ i \in Nat
      BY StepFacts DEF TypeOK
    <3>2. CASE v = w
      <4>1. i < at[w] => task'[w][i] # NoTask
        BY <1>1, <3>1, <3>2 DEF Placed
      <4>2. i > at[w] => task'[w][i] = NoTask
        BY <1>1, <3>1, <3>2 DEF Placed
      <4> QED BY <1>1, <3>2, <4>1, <4>2
    <3>3. CASE v # w
      BY <1>1, <3>1, <3>3 DEF Placed
    <3> QED BY <3>2, <3>3
  <2> QED BY <1>1, <2>1 DEF Placed
<1>6. Fresh'
  <2>1. ASSUME NEW v \in Runs, pc'[v] \in Working
        PROVE  /\ chosen'[v] \in Robots
               /\ Steps[at[v]].robot = AnyRobot =>
                     \A i \in StepIds : i < at[v] => task'[v][i].robot # chosen'[v]
    <3>1. v # w
      BY <1>1, <2>1 DEF Working
    <3>2. /\ chosen[v] \in Robots
          /\ Steps[at[v]].robot = AnyRobot =>
                \A i \in StepIds : i < at[v] => task[v][i].robot # chosen[v]
      BY <1>1, <2>1, <3>1 DEF Fresh
    <3>3. chosen'[v] = chosen[v] /\ \A i \in StepIds : task'[v][i] = task[v][i]
      BY <1>1, <3>1
    <3> QED BY <3>2, <3>3
  <2> QED BY <1>1, <2>1 DEF Fresh
<1>7. Asked'
  <2>1. ASSUME NEW v \in Runs
        PROVE  /\ pc'[v] = "none" => label'[v] = NoTenant /\ at[v] = 1
               /\ pc'[v] = "checked" => copy'[v] \in Tenants
               /\ caller[v] # AnyTenant /\ <<v, at[v]>> \notin slipped =>
                     /\ pc'[v] = "admitted" => owner[chosen'[v]] = caller[v]
                     /\ pc'[v] = "checked" => copy'[v] = caller[v]
    <3>1. CASE v = w
      BY <1>1, <3>1
    <3>2. CASE v # w
      BY <1>1, <3>2 DEF Asked
    <3> QED BY <3>1, <3>2
  <2> QED BY <1>1, <1>2, <2>1 DEF Asked
<1>8. OneStepPerRobot'
  <2>1. ASSUME NEW v \in Runs, NEW i \in StepIds, NEW j \in StepIds, i < j,
               task'[v][j] # NoTask, Steps[j].robot = AnyRobot
        PROVE  task'[v][i].robot # task'[v][j].robot
    <3>0. at[w] \in Nat /\ i \in Nat /\ j \in Nat
      BY <1>3, StepFacts
    <3>1. CASE v = w /\ j = at[w]
      <4>1. task'[w][i] = task[w][i] /\ task[w][i].robot # chosen[w]
        BY <1>1, <2>1, <3>0, <3>1 DEF Fresh, Working
      <4> QED BY <1>1, <2>1, <3>1, <4>1
    <3>2. CASE v = w /\ i = at[w]
      <4>1. task'[w][j] = task[w][j] /\ task[w][j] = NoTask
        BY <1>1, <2>1, <3>0, <3>2 DEF Placed
      <4> QED BY <2>1, <3>2, <4>1
    <3>3. CASE v # w \/ (i # at[w] /\ j # at[w])
      <4>1. task'[v][i] = task[v][i] /\ task'[v][j] = task[v][j]
        BY <1>1, <2>1, <3>3
      <4>2. task[v][i].robot # task[v][j].robot
        BY <2>1, <4>1 DEF OneStepPerRobot
      <4> QED BY ONLY <4>1, <4>2
    <3> QED BY ONLY <3>1, <3>2, <3>3
  <2> QED BY <2>1 DEF OneStepPerRobot
<1>9. RunsStayInTenant'
  <2>1. ASSUME NEW v \in Runs, caller[v] # AnyTenant
        PROVE  /\ <<v, 1>> \notin slipped => label'[v] \in {caller[v], NoTenant}
               /\ \A i \in StepIds : <<v, i>> \notin slipped =>
                     task'[v][i] = NoTask \/ task'[v][i].tenant = caller[v]
    <3>0. /\ <<v, 1>> \notin slipped => label[v] \in {caller[v], NoTenant}
          /\ \A i \in StepIds : <<v, i>> \notin slipped =>
                task[v][i] = NoTask \/ task[v][i].tenant = caller[v]
      BY <2>1 DEF RunsStayInTenant
    <3>1. CASE v = w
      <4>1. <<w, at[w]>> \notin slipped => copy[w] = caller[w]
        BY <1>1, <2>1, <3>1 DEF Asked
      <4>2. ASSUME NEW i \in StepIds, <<w, i>> \notin slipped
            PROVE  task'[w][i] = NoTask \/ task'[w][i].tenant = caller[w]
        <5>1. CASE i = at[w]
          BY <1>1, <4>1, <4>2, <5>1
        <5>2. CASE i # at[w]
          BY <1>1, <3>0, <3>1, <4>2, <5>2
        <5> QED BY <5>1, <5>2
      <4>3. <<w, 1>> \notin slipped => label'[w] \in {caller[w], NoTenant}
        BY <1>1, <3>0, <3>1, <4>1
      <4> QED BY <3>1, <4>2, <4>3
    <3>2. CASE v # w
      BY <1>1, <3>0, <3>2
    <3> QED BY <3>1, <3>2
  <2> QED BY <1>1, <1>2, <2>1 DEF RunsStayInTenant
<1> QED BY <1>2, <1>4, <1>5, <1>6, <1>7, <1>8, <1>9

(* AddTask keeps the invariant: the step it leaves has its task.           *)
LEMMA AddTaskStep ==
    ASSUME Inv, NEW w \in Runs, AddTask(w)
    PROVE  Inv'
<1> USE DEF Inv, WalkInv
<1>1. /\ pc[w] = "created" /\ pc' \in [Runs -> WalkPC] /\ at' \in [Runs -> StepIds]
      /\ \/ pc'[w] = "over" /\ at'[w] = at[w]
         \/ pc'[w] = "step" /\ at'[w] = at[w] + 1
      /\ \A v \in Runs \ {w} : pc'[v] = pc[v] /\ at'[v] = at[v]
      /\ TasksKept /\ faults' \in 0..MaxFaults
      /\ UNCHANGED <<fleetVars, caller, chosen, copy, status, label, slipped>>
  BY AddTaskDoes
<1>2. FleetInv' /\ UNCHANGED owner
  BY <1>1, FleetRests
<1>3. TypeOK'
  BY <1>1, <1>2, TypeFrom DEF TypeOK
<1>4. Placed'
  <2>1. ASSUME NEW v \in Runs, NEW i \in StepIds
        PROVE  /\ i < at'[v] => task'[v][i] # NoTask
               /\ i > at'[v] => task'[v][i] = NoTask
               /\ pc'[v] \notin {"created", "over"} => task'[v][at'[v]] = NoTask
               /\ pc'[v] = "created" => task'[v][at'[v]] # NoTask
    <3>1. /\ at[v] \in StepIds /\ at[v] \in Nat /\ i \in Nat /\ at'[v] \in StepIds
          /\ at'[v] \in Nat
      BY <1>1, StepFacts DEF TypeOK
    <3>2. \A j \in StepIds : task'[v][j] = NoTask <=> task[v][j] = NoTask
      BY <1>1 DEF TasksKept
    <3>3. CASE v = w /\ pc'[w] = "step"
      <4>1. i < at'[w] => task[w][i] # NoTask
        BY <1>1, <3>1, <3>3 DEF Placed
      <4>2. i > at'[w] => task[w][i] = NoTask
        BY <1>1, <3>1, <3>3 DEF Placed
      <4>3. task[w][at'[w]] = NoTask
        BY <1>1, <3>1, <3>3 DEF Placed
      <4> QED BY <3>1, <3>2, <3>3, <4>1, <4>2, <4>3
    <3>4. CASE v = w /\ pc'[w] = "over"
      BY <1>1, <3>1, <3>2, <3>4 DEF Placed
    <3>5. CASE v # w
      BY <1>1, <3>1, <3>2, <3>5 DEF Placed
    <3> QED BY <1>1, <3>3, <3>4, <3>5
  <2> QED BY <2>1 DEF Placed
<1>5. Fresh'
  <2>1. ASSUME NEW v \in Runs, pc'[v] \in Working
        PROVE  /\ chosen[v] \in Robots
               /\ Steps[at'[v]].robot = AnyRobot =>
                     \A i \in StepIds : i < at'[v] => task'[v][i].robot # chosen[v]
    <3>1. v # w
      BY <1>1, <2>1 DEF Working
    <3> QED BY <1>1, <2>1, <3>1 DEF Fresh, TasksKept
  <2> QED BY <1>1, <2>1 DEF Fresh
<1>6. Asked'
  BY <1>1, <1>2 DEF Asked
<1>7. OneStepPerRobot'
  BY <1>1 DEF OneStepPerRobot, TasksKept
<1>8. RunsStayInTenant'
  <2>1. \A v \in Runs, i \in StepIds :
          /\ task'[v][i] = NoTask <=> task[v][i] = NoTask
          /\ task'[v][i].tenant = task[v][i].tenant
    BY <1>1 DEF TasksKept
  <2>2. UNCHANGED <<caller, label, slipped>>
    BY <1>1
  <2> QED BY <2>1, <2>2 DEF RunsStayInTenant
<1> QED BY <1>2, <1>3, <1>4, <1>5, <1>6, <1>7, <1>8

(* Fail and Begin keep the invariant.                                      *)
LEMMA FailStep ==
    ASSUME Inv, NEW w \in Runs, Fail(w)
    PROVE  Inv'
<1> USE DEF Inv, WalkInv
<1>1. /\ pc[w] = "failing" /\ pc' = [pc EXCEPT ![w] = "over"]
      /\ status' = [status EXCEPT ![w] = "failed"] \/ status' = status
      /\ NoFault \/ Fault
      /\ chosen' = [chosen EXCEPT ![w] = AnyRobot]
      /\ UNCHANGED <<fleetVars, at, caller, copy, label, task, slipped>>
  BY DEF Fail, UpdateStatus
<1>2. faults' \in 0..MaxFaults
  BY <1>1, FaultsCounted DEF TypeOK
<1>3. /\ pc' \in [Runs -> WalkPC] /\ pc'[w] = "over"
      /\ chosen' \in [Runs -> Robots \cup {AnyRobot}]
      /\ status' \in [Runs -> {"none", "running", "failed"}]
      /\ \A v \in Runs \ {w} : pc'[v] = pc[v] /\ chosen'[v] = chosen[v]
  BY <1>1 DEF TypeOK, WalkPC
<1>4. FleetInv' /\ UNCHANGED owner
  BY <1>1, <1>2, FleetRests
<1>5. TypeOK'
  BY <1>1, <1>2, <1>3, <1>4, TypeFrom DEF TypeOK
<1>6. Placed' /\ Fresh'
  BY <1>1, <1>3 DEF Placed, Fresh, Working
<1>7. Asked'
  BY <1>1, <1>3, <1>4 DEF Asked
<1>8. OneStepPerRobot' /\ RunsStayInTenant'
  BY <1>1, <1>4 DEF OneStepPerRobot, RunsStayInTenant
<1> QED BY <1>4, <1>5, <1>6, <1>7, <1>8

(* A run begins with no task created.                                      *)
LEMMA BeginStep ==
    ASSUME Inv, NEW w \in Runs, NEW t \in Tenants \cup {AnyTenant}, Begin(w, t)
    PROVE  Inv'
<1> USE DEF Inv, WalkInv
<1>1. /\ pc[w] = "none" /\ pc' = [pc EXCEPT ![w] = "step"]
      /\ caller' = [caller EXCEPT ![w] = t] /\ status' = [status EXCEPT ![w] = "running"]
      /\ UNCHANGED <<tenants, owner, requests, excused, faults, at, chosen, copy, label, task,
                     slipped>>
      /\ served' \in 0..MaxRequests
  BY FleetAssumption DEF Begin, CreateRun, TypeOK, FleetTypeOK
<1>2. /\ pc' \in [Runs -> WalkPC] /\ pc'[w] = "step" /\ caller'[w] = t
      /\ caller' \in [Runs -> Tenants \cup {AnyTenant}]
      /\ status' \in [Runs -> {"none", "running", "failed"}]
      /\ \A v \in Runs \ {w} : pc'[v] = pc[v] /\ caller'[v] = caller[v]
  BY <1>1 DEF TypeOK, WalkPC
<1>3. FleetInv'
  BY <1>1 DEF FleetInv, FleetTypeOK, Formed, Accounted
<1>4. TypeOK'
  BY <1>1, <1>2, <1>3, TypeFrom DEF TypeOK
<1>5. Placed' /\ Fresh'
  BY <1>1, <1>2 DEF Placed, Fresh, Working
<1>6. Asked'
  BY <1>1, <1>2 DEF Asked
<1>7. OneStepPerRobot'
  BY <1>1 DEF OneStepPerRobot
<1>8. RunsStayInTenant'
  <2>1. label[w] = NoTenant /\ \A i \in StepIds : task[w][i] = NoTask
    <3>1. label[w] = NoTenant /\ at[w] = 1
      BY <1>1 DEF Asked
    <3>2. ASSUME NEW i \in StepIds PROVE task[w][i] = NoTask
      <4>1. i = 1 \/ i > 1
        BY StepFacts
      <4> QED BY <1>1, <3>1, <4>1 DEF Placed
    <3> QED BY <3>1, <3>2
  <2> QED BY <1>1, <1>2, <2>1 DEF RunsStayInTenant
<1> QED BY <1>3, <1>4, <1>5, <1>6, <1>7, <1>8

(* The Task Runner keeps the invariant.                                    *)
LEMMA RunTaskStep ==
    ASSUME Inv, NEW w \in Runs, NEW i \in StepIds, RunTask(w, i)
    PROVE  Inv'
<1> USE DEF Inv, WalkInv
<1>1. /\ TasksKept /\ faults' \in 0..MaxFaults
      /\ UNCHANGED <<fleetVars, pc, at, caller, chosen, copy, status, label, slipped>>
  BY RunTaskDoes DEF walkVars, TypeOK, FleetTypeOK
<1>2. FleetInv' /\ UNCHANGED owner
  BY <1>1, FleetRests
<1>3. TypeOK'
  BY <1>1, <1>2, TypeFrom DEF TypeOK
<1>4. Placed'
  BY <1>1 DEF Placed, TasksKept, TypeOK
<1>5. Fresh'
  BY <1>1 DEF Fresh, TasksKept
<1>6. Asked'
  BY <1>1, <1>2 DEF Asked
<1>7. OneStepPerRobot' /\ RunsStayInTenant'
  BY <1>1, <1>2 DEF OneStepPerRobot, RunsStayInTenant, TasksKept
<1> QED BY <1>2, <1>3, <1>4, <1>5, <1>6, <1>7

(* Fleet administration keeps the invariant: what a walk found out about a *)
(* robot stays so until the robot changes hands, and then it has slipped.  *)
LEMMA AdminStep ==
    ASSUME Inv, Administer
    PROVE  Inv'
<1> USE DEF Inv, WalkInv
<1>1. FleetInv' /\ UNCHANGED <<pc, at, caller, chosen, copy, status, label, task>>
  BY FleetStep DEF Administer, walkVars, storeVars
<1>2. /\ slipped \subseteq slipped' /\ slipped' \subseteq Runs \X StepIds
      /\ \A w \in Runs : pc[w] = "admitted" /\ owner'[chosen[w]] # owner[chosen[w]] =>
            <<w, at[w]>> \in slipped'
  BY DEF Administer, TypeOK
<1>3. TypeOK'
  BY <1>1, <1>2, TypeFrom DEF TypeOK
<1>4. Placed' /\ Fresh'
  BY <1>1 DEF Placed, Fresh
<1>5. Asked'
  BY <1>1, <1>2 DEF Asked
<1>6. OneStepPerRobot' /\ RunsStayInTenant'
  BY <1>1, <1>2 DEF OneStepPerRobot, RunsStayInTenant
<1> QED BY <1>1, <1>3, <1>4, <1>5, <1>6

(* At the start every robot has its tenant and nothing runs.               *)
LEMMA InitInv == Init => Inv
<1> SUFFICES ASSUME Init PROVE Inv
  OBVIOUS
<1>1. FleetInv
  <2>1. /\ tenants = Tenants /\ owner = FirstOwner /\ requests = {} /\ served = 0
        /\ faults = 0 /\ excused = {}
    BY DEF Init, FleetInit
  <2> QED BY <2>1, FleetAssumption DEF FleetInv, FleetTypeOK, Formed, Accounted
<1>2. /\ task \in [Runs -> [StepIds -> TaskRow]]
      /\ \A w \in Runs, i \in StepIds : task[w][i] = NoTask
  BY NoTaskFacts DEF Init
<1>3. /\ \A w \in Runs : pc[w] = "none" /\ at[w] = 1 /\ label[w] = NoTenant
      /\ pc \in [Runs -> WalkPC] /\ at \in [Runs -> StepIds]
  BY StepFacts DEF Init, WalkPC
<1>4. TypeOK
  BY <1>1, <1>2, <1>3, WorkflowAssumption DEF Init, TypeOK, FleetInv
<1>5. Placed
  BY <1>2, <1>3, StepFacts DEF Placed
<1>6. Fresh /\ Asked
  BY <1>3 DEF Fresh, Working, Asked
<1>7. OneStepPerRobot /\ RunsStayInTenant
  BY <1>2, <1>3 DEF OneStepPerRobot, RunsStayInTenant
<1> QED BY <1>1, <1>4, <1>5, <1>6, <1>7 DEF Inv, WalkInv

(* The invariant is kept by every step.                                    *)
LEMMA Invariant == Spec => []Inv
<1>1. Inv /\ [Next]_vars => Inv'
  <2> SUFFICES ASSUME Inv, [Next]_vars PROVE Inv'
    OBVIOUS
  <2>1. CASE UNCHANGED vars
    <3>1. FleetInv' /\ UNCHANGED owner
      BY <2>1, FleetRests DEF Inv, vars, TypeOK, FleetTypeOK
    <3>2. UNCHANGED <<pc, at, caller, chosen, copy, status, label, task, slipped>>
      BY <2>1 DEF vars, walkVars, storeVars
    <3>3. TypeOK'
      BY <3>1, <3>2, TypeFrom DEF Inv, TypeOK
    <3>4. WalkInv'
      BY <3>1, <3>2 DEF Inv, WalkInv, Placed, Fresh, Asked
    <3>5. OneStepPerRobot' /\ RunsStayInTenant'
      BY <3>1, <3>2 DEF Inv, OneStepPerRobot, RunsStayInTenant
    <3> QED BY <3>1, <3>3, <3>4, <3>5 DEF Inv
  <2>2. CASE \E w \in Runs : Walk(w) \/ \E t \in Tenants \cup {AnyTenant} : Begin(w, t)
    BY <2>2, PickStep, AdmitStep, CheckStep, CreateStep, AddTaskStep, FailStep, BeginStep
    DEF Walk
  <2>3. CASE \E w \in Runs, i \in StepIds : RunTask(w, i)
    BY <2>3, RunTaskStep
  <2>4. CASE Administer
    BY <2>4, AdminStep
  <2> QED BY <2>1, <2>2, <2>3, <2>4 DEF Next
<1> QED BY InitInv, <1>1, PTL DEF Spec

-----------------------------------------------------------------------------
(* Theorems *)

(* Tenants, robots, requests, runs and tasks keep their types.             *)
THEOREM TypeCorrect == Spec => []TypeOK
<1>1. Inv => TypeOK
  BY DEF Inv
<1> QED BY <1>1, Invariant, PTL

(* A robot belongs to a tenant that exists, unless the deletion of that    *)
(* tenant overlapped a write of this robot into it or missed the robot     *)
(* because the registry could not be read.                                 *)
THEOREM RobotsHaveTenantsHolds == Spec => []RobotsHaveTenants
<1>1. Inv => RobotsHaveTenants
  BY DEF Inv, FleetInv, FleetTypeOK, Accounted, RobotsHaveTenants
<1> QED BY <1>1, Invariant, PTL

(* The tasks of a run are those of its first steps, however the walk ends. *)
THEOREM TasksArePrefixHolds == Spec => []TasksArePrefix
<1>1. Inv => TasksArePrefix
  <2> SUFFICES ASSUME Inv, NEW w \in Runs, NEW i \in StepIds, NEW j \in StepIds,
                      i < j, task[w][j] # NoTask
               PROVE  task[w][i] # NoTask
    BY DEF TasksArePrefix
  <2>1. i \in Nat /\ j \in Nat /\ at[w] \in Nat
    BY StepFacts DEF Inv, TypeOK
  <2>2. j <= at[w]
    BY <2>1 DEF Inv, WalkInv, Placed
  <2> QED BY <2>1, <2>2 DEF Inv, WalkInv, Placed
<1> QED BY <1>1, Invariant, PTL

(* No two steps of a run that leave the choice open get the same robot.    *)
THEOREM OneStepPerRobotHolds == Spec => []OneStepPerRobot
<1>1. Inv => OneStepPerRobot
  BY DEF Inv
<1> QED BY <1>1, Invariant, PTL

(* A tenant's run works with robots of the tenant only and bears its name, *)
(* but for a step whose robot the registry did not return or that changed  *)
(* hands while the step worked with it.                                    *)
THEOREM RunsStayInTenantHolds == Spec => []RunsStayInTenant
<1>1. Inv => RunsStayInTenant
  BY DEF Inv
<1> QED BY <1>1, Invariant, PTL

==============================================================================
