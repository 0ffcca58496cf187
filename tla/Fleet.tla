-------------------------------- MODULE Fleet --------------------------------
(***************************************************************************)
(* Fleet administration: the tenants and the robots that belong to them    *)
(* (tenants, registry) and the API requests that change them.  Each        *)
(* request checks first and writes later, in separate calls of the stores, *)
(* so requests overlap.  updateRobot reads a copy of the robot and writes  *)
(* the whole copy back.                                                    *)
(***************************************************************************)
EXTENDS Naturals, FiniteSets

CONSTANTS
    Robots, Tenants,
    Default,    \* the tenant that always exists
    FirstOwner, \* FirstOwner[r]: tenant of robot r at the start
    MaxRequests,\* bound: requests that get past their checks
    MaxFaults   \* bound: calls of the stores that fail

Gone == "gone"

ASSUME FleetAssumption == /\ Default \in Tenants /\ Gone \notin Tenants /\ MaxRequests \in Nat
                          /\ MaxFaults \in Nat
                          /\ FirstOwner \in [Robots -> Tenants]

VARIABLES
    tenants,    \* the tenant store
    owner,      \* owner[r]: tenant of robot r in the registry, or Gone
    requests,   \* requests between check and write
    served,     \* requests so far
    faults,     \* calls of the stores that failed
    excused     \* <<r, t>>: t's deletion overlapped a write of r into t, or did
                \* not see r (history)

fleetVars == <<tenants, owner, requests, served, excused>>

Fault   == faults < MaxFaults /\ faults' = faults + 1
NoFault == UNCHANGED faults

AdminRequest == [op : {"deleteTenant", "writeRobot"}, robot : Robots \cup {Gone}, tenant : Tenants]

(* The registry: Add inserts or overwrites.                                *)
ListByTenant(t) == {r \in Robots : owner[r] = t}
Add(r, t) == owner' = [owner EXCEPT ![r] = t]
Delete(r) == owner' = [owner EXCEPT ![r] = Gone]

(* The tenant store, as far as it matters who exists.                      *)
HasTenant(t) == t \in tenants
AddTenant(t) == tenants' = tenants \cup {t}
DropTenant(t) == tenants' = tenants \ {t}

Deletion(t) == [op |-> "deleteTenant", robot |-> Gone, tenant |-> t]
Write(r, t) == [op |-> "writeRobot", robot |-> r, tenant |-> t]

(* A request passes its checks.                                            *)
Enter(q) ==
    /\ served < MaxRequests /\ q \notin requests
    /\ served' = served + 1
    /\ requests' = requests \cup {q}
    /\ UNCHANGED <<tenants, owner>>

(* Robots that are being written into a tenant.                            *)
Arriving(t) == {r \in Robots : Write(r, t) \in requests}

(* A robot is about to be written into a tenant.                           *)
EnterWrite(r, t) ==
    /\ Enter(Write(r, t))
    /\ excused' = IF Deletion(t) \in requests THEN excused \cup {<<r, t>>} ELSE excused

(* createTenant: the store refuses a tenant that is there.                 *)
CreateTenant(t) ==
    /\ served < MaxRequests /\ ~HasTenant(t)
    /\ served' = served + 1
    /\ AddTenant(t)
    /\ UNCHANGED <<owner, requests, faults, excused>>

(* Faulty variant: a tenant is deleted with its robots in place.           *)
DeleteTenantUnasked(t) ==
    /\ t # Default
    /\ Enter(Deletion(t))
    /\ excused' = excused \cup (Arriving(t) \X {t})
    /\ NoFault

(* deleteTenant: a tenant with robots is refused; a registry that cannot   *)
(* be read has no robots.                                                  *)
DeleteTenant(t) ==
    /\ t # Default
    /\ IF ListByTenant(t) = {} THEN NoFault ELSE Fault
    /\ Enter(Deletion(t))
    /\ excused' = excused \cup ((ListByTenant(t) \cup Arriving(t)) \X {t})

(* createRobot: a robot that is there is refused, and overwritten if the   *)
(* registry cannot be read.                                                *)
CreateRobot(r, t) ==
    /\ HasTenant(t)
    /\ IF owner[r] = Gone THEN NoFault ELSE Fault
    /\ EnterWrite(r, t)

(* The tenant is checked only if the request names one; otherwise the copy *)
(* keeps the robot's.                                                      *)
UpdateRobot(r, t) ==
    /\ owner[r] # Gone
    /\ t = owner[r] \/ HasTenant(t)
    /\ EnterWrite(r, t) /\ NoFault

DeleteRobot(r) ==
    /\ served < MaxRequests /\ owner[r] # Gone
    /\ served' = served + 1
    /\ Delete(r)
    /\ UNCHANGED <<tenants, requests, faults, excused>>

(* The write, which may fail: a robot that was deleted in the meantime is  *)
(* there again, a tenant that got a robot in the meantime is gone.         *)
AdminWrite(q) ==
    /\ q \in requests
    /\ requests' = requests \ {q}
    /\ \/ q.op = "deleteTenant" /\ DropTenant(q.tenant) /\ UNCHANGED owner /\ NoFault
       \/ q.op = "writeRobot" /\ Add(q.robot, q.tenant) /\ UNCHANGED tenants /\ NoFault
       \/ UNCHANGED <<tenants, owner>> /\ Fault
    /\ UNCHANGED <<served, excused>>

FleetInit ==
    /\ tenants = Tenants
    /\ owner = FirstOwner
    /\ requests = {} /\ served = 0 /\ faults = 0 /\ excused = {}

FleetNext ==
    \/ \E t \in Tenants :
          \/ CreateTenant(t) \/ DeleteTenant(t)
          \/ \E r \in Robots : CreateRobot(r, t) \/ UpdateRobot(r, t)
    \/ \E r \in Robots : DeleteRobot(r)
    \/ \E q \in requests : AdminWrite(q)

FleetTypeOK ==
    /\ tenants \subseteq Tenants /\ Default \in tenants
    /\ owner \in [Robots -> Tenants \cup {Gone}]
    /\ requests \subseteq AdminRequest /\ served \in 0..MaxRequests
    /\ faults \in 0..MaxFaults /\ excused \subseteq Robots \X Tenants
-----------------------------------------------------------------------------
(* Properties *)

(* A robot belongs to a tenant that exists.  deleteTenant refuses a tenant *)
(* with robots, createRobot and updateRobot refuse a tenant that is not    *)
(* there: a robot can be left behind only by a deletion of its own tenant  *)
(* that overlapped a write of it into that tenant, or could not read the   *)
(* registry and missed it.                                                 *)
RobotsHaveTenants ==
    \A r \in Robots : owner[r] \in tenants \cup {Gone} \/ <<r, owner[r]>> \in excused

-----------------------------------------------------------------------------
(* What the docs say of the code and it does not do                        *)

(* docs/implementation/phase-2.6-multi-tenant.md: DELETE /v1/tenants/:id   *)
(* only if there are no robots.                                            *)
TenantsKeepRobots == \A r \in Robots : owner[r] \in tenants \cup {Gone}
==============================================================================
