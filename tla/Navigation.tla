----------------------------- MODULE Navigation ------------------------------
(***************************************************************************)
(* One navigation after the other of one simulated robot: the execution    *)
(* engine with its navigation executor and state manager (internal/robot), *)
(* the robot (SimRobot), and the NATS bus between them.  The bus keeps the *)
(* order of a publisher's messages and drops what nobody subscribes to.    *)
(***************************************************************************)
EXTENDS SimRobot, Sequences

CONSTANTS
    Store,         \* where the store is, in quarter metres from the base
    MaxNavs,       \* bound: navigations of one behaviour
    MaxEvents,     \* bound: interventions of operators and of the harness
    MaxQueue,      \* bound: telemetry messages on their way
    Interventions, \* which interventions happen
    BusFaults,     \* whether publishing and subscribing may fail
    TimeoutAsCompletion

ASSUME BoundsAssumption == {MaxNavs, MaxEvents, MaxQueue} \subseteq Nat
ASSUME StoreAssumption == Store \in Nat
ASSUME FlagsAssumption == {BusFaults, TimeoutAsCompletion} \subseteq BOOLEAN

Kinds == {"store", "return"}

Target(k) == IF k = "store" THEN Store ELSE Base

(* distance_to_target < 1.0 m *)
ArrivalThreshold == 4

States == {"IDLE", "NAVIGATING_TO_STORE", "ARRIVED_AT_DESTINATION", "RETURNING_TO_BASE",
           "ERROR_STATE"}

(* The engine never uses the states of the visitor dialogue.               *)
CanTransition(from, to) ==
    \/ to = "ERROR_STATE"
    \/ from = "IDLE" /\ to \in {"NAVIGATING_TO_STORE", "RETURNING_TO_BASE"}
    \/ from = "NAVIGATING_TO_STORE" /\ to \in {"ARRIVED_AT_DESTINATION", "IDLE"}
    \/ from = "ARRIVED_AT_DESTINATION" /\ to \in {"RETURNING_TO_BASE", "IDLE"}
    \/ from = "RETURNING_TO_BASE" /\ to = "IDLE"
    \/ from = "ERROR_STATE" /\ to \in {"RETURNING_TO_BASE", "IDLE"}

(* Where the engine is: between navigations, before the commands, before   *)
(* the subscription, in the monitoring loop, with a result.                *)
PC == {"idle", "begun", "sent", "monitor", "finish"}

Results == {"none", "success", "offline", "error", "cancelled", "timeout"}

(* A telemetry message, with what it does not say: whether the robot was   *)
(* then pursuing the current navigation, and near the target.              *)
Telemetry == [online : BOOLEAN, dist : Nat, pursuing : BOOLEAN, near : BOOLEAN]

VARIABLES
    \* the engine
    pc, kind, result, state, outcome, ended, ctxDone,
    \* the bus
    commands,   \* commands on their way to the robot
    inbox,      \* telemetry on its way to the subscription
    \* the robot
    robot,
    running,    \* subscribed to its commands
    ticking,    \* "no", "yes", or "request": until the start request ends
    \* what happened
    events,     \* interventions so far
    pursuing,   \* the robot took the current navigate_to and nothing since
    heard       \* the message that decided the result

engineVars == <<pc, kind, result, state, outcome, ended, ctxDone>>
robotVars  == <<robot, running, ticking>>
history    == <<events, pursuing, heard>>
vars == <<engineVars, commands, inbox, robotVars, history>>

-----------------------------------------------------------------------------
(* The execution engine *)

(* A transition that is not allowed is ignored.                            *)
Transition(to) == state' = IF CanTransition(state, to) THEN to ELSE state

Cmd(n) == [name |-> n, to |-> Base]

(* ExecuteTaskEntry: the state first, then the executor.                   *)
Begin(k) ==
    /\ pc = "idle" /\ ended < MaxNavs
    /\ kind' = k
    /\ Transition(IF k = "store" THEN "NAVIGATING_TO_STORE" ELSE "RETURNING_TO_BASE")
    /\ pc' = "begun"
    /\ result' = "none" /\ outcome' = "none"
    /\ pursuing' = FALSE
    /\ UNCHANGED <<ended, ctxDone, commands, inbox, robotVars, events, heard>>

(* A task whose payload names no target fails before any command.          *)
MissingTarget ==
    /\ pc = "begun"
    /\ pc' = "finish" /\ result' = "error"
    /\ UNCHANGED <<kind, state, outcome, ended, ctxDone, commands, inbox, robotVars, history>>

(* walk_mode, whose failure is only logged, and navigate_to.               *)
Publish ==
    /\ pc = "begun"
    /\ \E walk \in {<<Cmd("walk_mode")>>} \cup (IF BusFaults THEN {<<>>} ELSE {}) :
         \/ /\ commands' = commands \o walk
                             \o <<[name |-> "navigate_to", to |-> Target(kind)]>>
            /\ pc' = "sent"
            /\ UNCHANGED result
         \/ /\ BusFaults
            /\ commands' = commands \o walk
            /\ pc' = "finish"
            /\ result' = "error"
    /\ UNCHANGED <<kind, state, outcome, ended, ctxDone, inbox, robotVars, history>>

Subscribe ==
    /\ pc = "sent"
    /\ \/ pc' = "monitor" /\ UNCHANGED result
       \/ BusFaults /\ pc' = "finish" /\ result' = "error"
    /\ UNCHANGED <<kind, state, outcome, ended, ctxDone, commands, inbox, robotVars, history>>

Judge(m) == IF ~m.online THEN "offline"
            ELSE IF m.dist < ArrivalThreshold THEN "success" ELSE "none"

(* The subscription's callback: the first result stands.                   *)
Receive ==
    LET m == Head(inbox)
        r == IF result = "none" THEN Judge(m) ELSE result
    IN
    /\ pc = "monitor" /\ inbox # <<>>
    /\ inbox' = Tail(inbox)
    /\ result' = r
    /\ heard' = IF result = "none" /\ r # "none" THEN m ELSE heard
    /\ UNCHANGED <<pc, kind, state, outcome, ended, ctxDone, commands, robotVars, events,
                   pursuing>>

Leave(r) ==
    /\ result' = r
    /\ pc' = "finish"
    /\ inbox' = <<>>
    /\ UNCHANGED <<kind, state, outcome, ended, ctxDone, commands, robotVars, history>>

(* The three cases of the monitoring loop's select.                        *)
LeaveCancelled ==
    /\ pc = "monitor" /\ ctxDone
    /\ Leave(IF result = "success" THEN result ELSE "cancelled")

LeaveDone ==
    /\ pc = "monitor" /\ result # "none"
    /\ Leave(result)

(* Faulty variant: the deadline counts only while telemetry comes in.      *)
LeaveTimeoutHearing ==
    /\ pc = "monitor" /\ result = "none" /\ inbox # <<>>
    /\ Leave("timeout")

LeaveTimeout ==
    /\ pc = "monitor" /\ result = "none"
    /\ Leave("timeout")

Arrived == result = "success" \/ (result = "timeout" /\ TimeoutAsCompletion)

(* Faulty variant: the state of a failed navigation is left as it is.      *)
FinishQuietly ==
    /\ pc = "finish"
    /\ pc' = "idle"
    /\ ended' = ended + 1
    /\ outcome' = IF Arrived THEN "completed" ELSE "failed"
    /\ IF Arrived
       THEN Transition(IF kind = "store" THEN "ARRIVED_AT_DESTINATION" ELSE "IDLE")
       ELSE UNCHANGED state
    /\ UNCHANGED <<kind, result, ctxDone, commands, inbox, robotVars, history>>

(* handleNavigateToStoreResult and handleNavigationResult: the state, the  *)
(* events, safe_stop after a failure, and the outcome.                     *)
Finish ==
    /\ pc = "finish"
    /\ pc' = "idle"
    /\ ended' = ended + 1
    /\ \/ /\ Arrived
          /\ Transition(IF kind = "store" THEN "ARRIVED_AT_DESTINATION" ELSE "IDLE")
          /\ outcome' = "completed"
          /\ UNCHANGED commands
       \/ /\ ~Arrived
          /\ Transition("ERROR_STATE")
          /\ outcome' = IF result = "cancelled" THEN "cancelled" ELSE "failed"
          /\ \/ commands' = Append(commands, Cmd("safe_stop"))
             \/ BusFaults /\ UNCHANGED commands
    /\ UNCHANGED <<kind, result, ctxDone, inbox, robotVars, history>>

Shutdown ==
    /\ ~ctxDone
    /\ "shutdown" \in Interventions
    /\ ctxDone' = TRUE
    /\ UNCHANGED <<pc, kind, result, state, outcome, ended, commands, inbox, robotVars,
                   history>>

-----------------------------------------------------------------------------
(* The robot *)

(* The robot takes the next command, or nobody does.                       *)
TakeCommand ==
    LET c == Head(commands) IN
    /\ commands # <<>>
    /\ commands' = Tail(commands)
    /\ IF running
       THEN /\ robot' = HandleCommand(robot, c)
            /\ pursuing' = IF c.name = "navigate_to" /\ pc # "idle"
                           THEN c.to = Target(kind)
                           ELSE pursuing /\ c.name \in {"walk_mode", "stand_mode"}
       ELSE UNCHANGED <<robot, pursuing>>
    /\ UNCHANGED <<engineVars, inbox, running, ticking, events, heard>>

Tell(s, p) == [online |-> s.online, dist |-> s.dist, pursuing |-> p,
               near |-> Abs(s.pos - Target(kind)) < ArrivalThreshold]

(* A tick ends with a telemetry message, whatever the robot is doing.      *)
TickTo(s, p) ==
    /\ ticking # "no"
    /\ Len(inbox) < MaxQueue
    /\ robot' = s
    /\ pursuing' = p
    /\ inbox' = IF pc = "monitor" THEN Append(inbox, Tell(s, p)) ELSE inbox
    /\ UNCHANGED <<engineVars, commands, running, ticking, events, heard>>

Tick == TickTo(Advance(robot), pursuing)

TickFails(over) ==
    LET s == Fail(robot, over) IN
    /\ robot.failure # NoFailure
    /\ TickTo(s, pursuing /\ s.mode \notin {"safe_stop", "error"})

-----------------------------------------------------------------------------
(* Interventions *)

OperatorCommands ==
    {Cmd(n) : n \in {"safe_stop", "release_control", "stand_mode", "cmd_vel"}}
        \cup {[name |-> "navigate_to", to |-> to] : to \in {Base, Store}}

Intervene(i) ==
    /\ i \in Interventions /\ events < MaxEvents
    /\ events' = events + 1
    /\ UNCHANGED <<engineVars, heard>>

(* sendCommand: SafetyAllow lets these pass, the task goes on.             *)
OperatorCommand(c) ==
    /\ Intervene("operator")
    /\ commands' = Append(commands, c)
    /\ UNCHANGED <<inbox, robotVars, pursuing>>

InjectFailure(f) ==
    /\ Intervene("failure")
    /\ robot' = [robot EXCEPT !.failure = f]
    /\ UNCHANGED <<commands, inbox, running, ticking, pursuing>>

ResetRobot ==
    /\ Intervene("harness")
    /\ robot' = Reset(robot)
    /\ pursuing' = FALSE
    /\ UNCHANGED <<commands, inbox, running, ticking>>

StopRobot ==
    /\ Intervene("harness")
    /\ running
    /\ running' = FALSE /\ ticking' = "no"
    /\ UNCHANGED <<commands, inbox, robot, pursuing>>

(* Start through the API: the tick loop gets the request's context.        *)
StartRobot ==
    /\ Intervene("harness")
    /\ ~running
    /\ running' = TRUE /\ ticking' = "request"
    /\ UNCHANGED <<commands, inbox, robot, pursuing>>

StartRequestEnds ==
    /\ ticking = "request"
    /\ ticking' = "no"
    /\ UNCHANGED <<engineVars, commands, inbox, robot, running, history>>

-----------------------------------------------------------------------------
NoMessage == [online |-> TRUE, dist |-> Far, pursuing |-> TRUE, near |-> TRUE]

(* main creates sim-001 and starts it under its own context.               *)
Init ==
    /\ pc = "idle" /\ kind = "store" /\ result = "none" /\ outcome = "none"
    /\ state = "IDLE" /\ ended = 0 /\ ctxDone = FALSE
    /\ commands = <<>> /\ inbox = <<>>
    /\ robot = NewSimRobot /\ running = TRUE /\ ticking = "yes"
    /\ events = 0 /\ pursuing = FALSE /\ heard = NoMessage

EngineStep ==
    \/ MissingTarget \/ Publish \/ Subscribe \/ Finish
    \/ LeaveCancelled \/ LeaveDone \/ LeaveTimeout

Next ==
    \/ \E k \in Kinds : Begin(k)
    \/ EngineStep \/ Receive \/ Shutdown
    \/ TakeCommand \/ Tick \/ (\E over \in BOOLEAN : TickFails(over))
    \/ \E c \in OperatorCommands : OperatorCommand(c)
    \/ \E f \in Failures : InjectFailure(f)
    \/ ResetRobot \/ StopRobot \/ StartRobot \/ StartRequestEnds

Spec == Init /\ [][Next]_vars

(* The engine's goroutine and the bus make progress; the deadline comes    *)
(* whether or not the robot does anything.                                 *)
FairSpec == Spec /\ WF_vars(EngineStep) /\ WF_vars(TakeCommand)
-----------------------------------------------------------------------------
(* Properties *)

TypeOK ==
    /\ pc \in PC /\ kind \in Kinds /\ result \in Results /\ state \in States
    /\ outcome \in {"none", "completed", "failed", "cancelled"}
    /\ ended \in 0..MaxNavs /\ ctxDone \in BOOLEAN
    /\ commands \in Seq(Command) /\ inbox \in Seq(Telemetry)
    /\ robot \in Robot /\ running \in BOOLEAN /\ ticking \in {"no", "yes", "request"}
    /\ events \in 0..MaxEvents
    /\ pursuing \in BOOLEAN /\ heard \in Telemetry

(* Between navigations getRobotState shows how the last one ended, in      *)
(* whatever order visits and returns succeed and fail, although            *)
(* transitions the table does not allow are dropped.  (A visit after a     *)
(* failure is the exception: it leaves ERROR_STATE standing.)              *)
RestState ==
    pc = "idle" =>
        /\ outcome \in {"failed", "cancelled"} => state = "ERROR_STATE"
        /\ outcome = "completed" /\ kind = "return" => state = "IDLE"
        /\ outcome = "completed" /\ kind = "store"
              => state \in {"ARRIVED_AT_DESTINATION", "ERROR_STATE"}

(* An arrival heard from a robot that is pursuing this navigation is real: *)
(* the robot was within a metre of the target when it said so.             *)
TrueArrival == result = "success" /\ heard.pursuing => heard.near

(* Every navigation ends, also when the robot is stopped, offline or never *)
(* says anything.                                                          *)
NavigationEnds == pc = "begun" ~> pc = "idle"

(* After a failed or cancelled navigation the robot stops moving unless    *)
(* the next one begins: safe_stop arrives behind navigate_to.              *)
FailedHalts ==
    (pc = "idle" /\ outcome \in {"failed", "cancelled"})
        ~> (robot.mode # "navigating" \/ pc # "idle")

-----------------------------------------------------------------------------
(* What the documentation says and the code does not do *)

(* robot-execution-layer.md: arrival is distance_to_target < 1.0 m.  A     *)
(* robot without a target reports distance 0 wherever it is: before it has *)
(* taken navigate_to, and after it was stopped on its way.                 *)
ArrivedIsThere == result = "success" => heard.near
==============================================================================
