----------------------------- MODULE Coordinator -----------------------------
(***************************************************************************)
(* The zone lock table of pkg/control-plane/coordinator/store.go.  It is   *)
(* an in-memory map from zone to holder; every operation runs under the    *)
(* store's mutex, so each is one atomic step.  The table lives in the      *)
(* process that created it and is empty whenever that process starts.      *)
(***************************************************************************)
CONSTANTS
    Robots,     \* robot identifiers
    Zones,      \* zone identifiers
    NoRobot     \* "no entry in the lock map"

ASSUME NoRobotAssumption == NoRobot \notin Robots

VARIABLE locks  \* locks[z]: the robot holding zone z, or NoRobot

LocksTypeOK == locks \in [Zones -> Robots \cup {NoRobot}]

LocksInit == locks = [z \in Zones |-> NoRobot]

IsZoneAvailable(z) == locks[z] = NoRobot

(* Fails, changing nothing, when anybody holds the zone: even r itself.    *)
AcquireZone(r, z) ==
    locks' = IF IsZoneAvailable(z) THEN [locks EXCEPT ![z] = r] ELSE locks

(* Only the holder's own release has an effect.                            *)
ReleaseZone(r, z) ==
    locks' = IF locks[z] = r THEN [locks EXCEPT ![z] = NoRobot] ELSE locks
==============================================================================
