-------------------------- MODULE NavigationProofs ---------------------------
(***************************************************************************)
(* Proofs about Navigation, for every distance of the store, every bound,  *)
(* every set of interventions, and a bus that fails or not.                *)
(***************************************************************************)
EXTENDS Navigation, TLAPS

(* A navigation in progress has not been counted.                          *)
NavsLeft == pc # "idle" => ended < MaxNavs

(* What getRobotState may show at each point of a navigation.              *)
ShownStates ==
    /\ pc = "idle" => state \in {"IDLE", "ARRIVED_AT_DESTINATION", "ERROR_STATE"}
    /\ pc # "idle" /\ kind = "store"
          => state \in {"NAVIGATING_TO_STORE", "ARRIVED_AT_DESTINATION", "ERROR_STATE"}
    /\ pc # "idle" /\ kind = "return" => state = "RETURNING_TO_BASE"

(* The distance a robot reports is the distance to its target.             *)
Measured(s) == s.dist = Abs(s.pos - s.target)

(* A robot that pursues the navigation has its target and measures it.     *)
OnCourse == pursuing => robot.target = Target(kind) /\ Measured(robot)

(* A message from such a robot says "near" only if it is.                  *)
Honest(m) == m.pursuing /\ m.dist < ArrivalThreshold => m.near

HonestInbox == \A i \in 1..Len(inbox) : Honest(inbox[i])

(* A success rests on a message that said "near".                          *)
HeardArrival == Honest(heard) /\ (result = "success" => heard.dist < ArrivalThreshold)

IndInv ==
    TypeOK /\ NavsLeft /\ ShownStates /\ RestState /\ OnCourse /\ HonestInbox /\ HeardArrival

USE DEF Base, Far, FullSpeed, Arrival, NoFailure

-----------------------------------------------------------------------------
(* The simulated robot *)

(* A halted robot: safe_stop, release_control and Reset.                   *)
LEMMA HaltKeeps ==
    ASSUME NEW s \in Robot, NEW m \in Modes
    PROVE  Halt(s, m) \in Robot /\ Halt(s, m).mode = m
<1> DEFINE a == [s EXCEPT !.mode = m]
<1>1. a \in Robot /\ a.mode = m
  BY DEF Robot
<1> HIDE DEF a
<1> DEFINE b == [a EXCEPT !.target = Base]
<1>2. b \in Robot /\ b.mode = m
  BY <1>1 DEF Robot
<1> HIDE DEF b
<1>3. [b EXCEPT !.dist = 0] \in Robot /\ [b EXCEPT !.dist = 0].mode = m
  BY <1>2 DEF Robot
<1> QED BY <1>3 DEF Halt, a, b

(* Every command leaves a robot of the right type: HandleCommand.          *)
LEMMA HandleCommandType ==
    ASSUME NEW s \in Robot, NEW c \in Command
    PROVE  HandleCommand(s, c) \in Robot
<1>1. "safe_stop" \in Modes /\ "idle" \in Modes /\ "walk" \in Modes /\ "stand" \in Modes
        /\ "navigating" \in Modes
  BY DEF Modes
<1>2. Halt(s, "safe_stop") \in Robot /\ Halt(s, "idle") \in Robot
  BY <1>1, HaltKeeps
<1>3. Stand(s, "walk") \in Robot /\ Stand(s, "stand") \in Robot
  BY <1>1 DEF Stand, Robot
<1>4. Navigate(s, c.to) \in Robot
  <2>1. PICK a \in Robot : a = [s EXCEPT !.mode = "navigating"]
    BY <1>1 DEF Robot
  <2>2. PICK b \in Robot : b = [a EXCEPT !.target = c.to]
    BY <2>1 DEF Command, Robot
  <2>3. PICK d \in Nat : d = Abs(s.pos - c.to)
    BY DEF Abs, Robot, Command
  <2>4. Navigate(s, c.to) = [b EXCEPT !.dist = d]
    BY <2>1, <2>2, <2>3 DEF Navigate
  <2> QED BY <2>4 DEF Robot
<1>5. [s EXCEPT !.mode = "walk"] \in Robot
  BY <1>1 DEF Robot
<1> QED BY <1>2, <1>3, <1>4, <1>5 DEF HandleCommand, Command

(* The movement of one tick keeps the robot's type and target, and the     *)
(* distance it reports is measured again: Tick.                            *)
LEMMA AdvanceKeeps ==
    ASSUME NEW s \in Robot
    PROVE  /\ Advance(s) \in Robot
           /\ Advance(s).target = s.target
           /\ Measured(s) => Measured(Advance(s))
<1> DEFINE on == IF s.pos < s.target THEN s.pos + s.speed ELSE s.pos - s.speed
           t  == [s EXCEPT !.pos = on, !.dist = Abs(on - s.target)]
           u  == [s EXCEPT !.pos = s.target, !.dist = 0]
           v  == [u EXCEPT !.mode = "arrived"]
<1>1. t \in Robot /\ t.target = s.target /\ Measured(t)
  <2>1. PICK x \in Int : x = on
    BY DEF Robot
  <2>2. PICK d \in Nat : d = Abs(x - s.target)
    BY DEF Robot, Abs
  <2>3. t = [s EXCEPT !.pos = x, !.dist = d]
    BY <2>1, <2>2
  <2> QED BY <2>2, <2>3 DEF Robot, Measured
<1>2. v \in Robot /\ v.target = s.target /\ Measured(v)
  <2>1. u \in Robot /\ u.target = s.target /\ u.pos = s.target /\ u.dist = 0
    BY DEF Robot
  <2> HIDE DEF u
  <2>2. "arrived" \in Modes
    BY DEF Modes
  <2>3. v \in Robot /\ v.target = u.target /\ v.pos = u.pos /\ v.dist = u.dist
    BY <2>1, <2>2 DEF Robot
  <2> HIDE DEF v
  <2> QED BY <2>1, <2>3 DEF Measured, Robot, Abs
<1>3. Advance(s) \in {s, t, v}
  BY DEF Advance, Move
<1> HIDE DEF t, v
<1> QED BY <1>1, <1>2, <1>3

(* An injected failure leaves a robot of the right type; one that neither  *)
(* stops nor breaks the robot keeps its course: applyFailure.              *)
LEMMA FailKeeps ==
    ASSUME NEW s \in Robot, s.failure # NoFailure, NEW over \in BOOLEAN
    PROVE  /\ Fail(s, over) \in Robot
           /\ Measured(s) /\ Fail(s, over).mode \notin {"safe_stop", "error"}
                 => Fail(s, over).target = s.target /\ Measured(Fail(s, over))
<1> DEFINE t == [s EXCEPT !.failure = NoFailure]
           left == IF over THEN NoFailure ELSE s.failure
           broken == [t EXCEPT !.mode = "error"]
           slow == [[s EXCEPT !.speed = 1] EXCEPT !.failure = left]
<1>a. s.failure \in Failures
  BY DEF Robot
<1>b. left \in Failures \cup {NoFailure}
  BY <1>a
<1>1. /\ t \in Robot /\ t.target = s.target /\ t.pos = s.pos /\ t.dist = s.dist
  BY DEF Robot
<1>2. /\ slow \in Robot /\ slow.target = s.target /\ slow.pos = s.pos /\ slow.dist = s.dist
  <2> DEFINE a == [s EXCEPT !.speed = 1]
  <2>1. a \in Robot /\ a.target = s.target /\ a.pos = s.pos /\ a.dist = s.dist
    BY DEF Robot
  <2> HIDE DEF a, left
  <2> DEFINE b == [a EXCEPT !.failure = left]
  <2>2. b \in Robot /\ b.target = s.target /\ b.pos = s.pos /\ b.dist = s.dist
    BY <1>b, <2>1 DEF Robot
  <2> QED BY <2>2 DEF a
<1>9. broken \in Robot /\ broken.mode = "error"
  <2> HIDE DEF t
  <2>1. "error" \in Modes
    BY DEF Modes
  <2> QED BY <1>1, <2>1 DEF Robot
<1>3. CASE s.failure = "delayed_arrival"
  <2>1. Fail(s, over) = Advance(slow)
    BY <1>3 DEF Fail
  <2> HIDE DEF slow
  <2> QED BY <2>1, <1>2, AdvanceKeeps DEF Measured
<1>4. CASE s.failure = "battery_low"
  <2>1. Fail(s, over) = t
    BY <1>4 DEF Fail
  <2> HIDE DEF t
  <2> QED BY <2>1, <1>1 DEF Measured
<1>5. CASE s.failure = "safe_stop_mid_route"
  <2>1. Fail(s, over) = Halt(t, "safe_stop")
    BY <1>5 DEF Fail
  <2> HIDE DEF t
  <2> QED BY <2>1, <1>1, HaltKeeps DEF Modes
<1>6. CASE s.failure = "navigation_timeout"
  <2>1. Fail(s, over) = [broken EXCEPT !.dist = Far]
    BY <1>6 DEF Fail
  <2> HIDE DEF broken
  <2>2. [broken EXCEPT !.dist = Far] \in Robot /\ [broken EXCEPT !.dist = Far].mode = "error"
    BY <1>9 DEF Robot
  <2> QED BY <2>1, <2>2
<1>7. CASE s.failure = "offline_mid_route"
  <2>1. Fail(s, over) = [broken EXCEPT !.online = FALSE]
    BY <1>7 DEF Fail
  <2> HIDE DEF broken
  <2>2. [broken EXCEPT !.online = FALSE] \in Robot
           /\ [broken EXCEPT !.online = FALSE].mode = "error"
    BY <1>9 DEF Robot
  <2> QED BY <2>1, <2>2
<1>8. CASE s.failure = "command_rejected"
  <2>1. Fail(s, over) = broken
    BY <1>8 DEF Fail
  <2> QED BY <2>1, <1>9
<1> QED BY <1>a, <1>3, <1>4, <1>5, <1>6, <1>7, <1>8 DEF Failures

(* A reset robot is a robot: Reset.                                        *)
LEMMA ResetType ==
    ASSUME NEW s \in Robot
    PROVE  Reset(s) \in Robot
<1> DEFINE h == Halt(s, "idle")
<1>1. h \in Robot
  BY HaltKeeps DEF Modes
<1> HIDE DEF h
<1> DEFINE a == [h EXCEPT !.pos = Base]
<1>2. a \in Robot
  BY <1>1 DEF Robot
<1> HIDE DEF a
<1> DEFINE b == [a EXCEPT !.online = TRUE]
<1>3. b \in Robot
  BY <1>2 DEF Robot
<1> HIDE DEF b
<1>4. [b EXCEPT !.failure = NoFailure] \in Robot
  BY <1>3 DEF Robot
<1> QED BY <1>4 DEF Reset, h, a, b
-----------------------------------------------------------------------------
(* Types *)

(* The initial state has the right types.                                  *)
LEMMA InitType == Init => TypeOK
<1> SUFFICES ASSUME Init PROVE TypeOK
  OBVIOUS
<1>1. NewSimRobot \in Robot
  BY DEF NewSimRobot, Robot, Modes
<1>2. NoMessage \in Telemetry
  BY DEF NoMessage, Telemetry
<1>3. 0 \in 0..MaxNavs /\ 0 \in 0..MaxEvents
  BY BoundsAssumption
<1>4. commands \in Seq(Command) /\ inbox \in Seq(Telemetry)
  BY DEF Init
<1>5. robot \in Robot /\ heard \in Telemetry
  BY <1>1, <1>2 DEF Init
<1>6. pc \in PC /\ kind \in Kinds /\ result \in Results /\ state \in States
  BY DEF Init, PC, Kinds, Results, States
<1>7. ended \in 0..MaxNavs /\ events \in 0..MaxEvents
  BY <1>3 DEF Init
<1> QED BY <1>4, <1>5, <1>6, <1>7 DEF Init, TypeOK

(* Every step of the engine, the bus, the robot and the operators keeps    *)
(* the types.                                                              *)
LEMMA TypeStep == TypeOK /\ NavsLeft /\ [Next]_vars => TypeOK'
<1> SUFFICES ASSUME TypeOK, NavsLeft, [Next]_vars PROVE TypeOK'
  OBVIOUS
<1> USE BoundsAssumption, StoreAssumption, FlagsAssumption
<1>a. \A k \in Kinds : Target(k) \in Int
  BY DEF Target
<1>b. \A n \in {"safe_stop", "release_control", "stand_mode", "cmd_vel", "walk_mode"} :
         Cmd(n) \in Command
  BY DEF Cmd, Command
<1>c. \A x \in Int : [name |-> "navigate_to", to |-> x] \in Command
  BY DEF Command
<1>d. \A to \in States : Transition(to) => state' \in States
  BY DEF Transition, TypeOK
<1>1. ASSUME NEW k \in Kinds, Begin(k) PROVE TypeOK'
  BY <1>1, <1>d DEF Begin, TypeOK, PC, Results, States, robotVars, history
<1>2. CASE MissingTarget
  BY <1>2 DEF MissingTarget, TypeOK, PC, Results, robotVars, history
<1>3. CASE Publish
  <2> DEFINE nav == [name |-> "navigate_to", to |-> Target(kind)]
  <2>1. PICK walk \in {<<Cmd("walk_mode")>>} \cup (IF BusFaults THEN {<<>>} ELSE {}) :
           \/ commands' = commands \o walk \o <<nav>>
           \/ commands' = commands \o walk
    BY <1>3 DEF Publish
  <2>2. walk \in Seq(Command)
    <3>1. PICK w \in Command : w = Cmd("walk_mode")
      BY <1>b
    <3>2. walk = <<w>> \/ walk = <<>>
      BY <3>1, Zenon
    <3>3. <<w>> \in Seq(Command) /\ <<>> \in Seq(Command)
      OBVIOUS
    <3> QED BY <3>2, <3>3
  <2>3. nav \in Command
    BY <1>a, <1>c DEF TypeOK
  <2> HIDE DEF nav
  <2>4. commands' \in Seq(Command)
    <3>1. commands \o walk \in Seq(Command)
      BY <2>2 DEF TypeOK
    <3>2. (commands \o walk) \o <<nav>> \in Seq(Command)
      BY <3>1, <2>3
    <3> QED BY <2>1, <3>1, <3>2
  <2>5. pc' \in PC /\ result' \in Results
    BY <1>3 DEF Publish, TypeOK, PC, Results
  <2> QED BY <1>3, <2>4, <2>5 DEF Publish, TypeOK, robotVars, history
<1>4. CASE Subscribe
  BY <1>4 DEF Subscribe, TypeOK, PC, Results, robotVars, history
<1>5. CASE Finish
  <2>1. commands' \in Seq(Command)
    <3>1. PICK c \in Command : c = Cmd("safe_stop")
      BY <1>b
    <3>2. commands' = commands \/ commands' = Append(commands, c)
      BY <1>5, <3>1 DEF Finish
    <3> QED BY <3>2 DEF TypeOK
  <2>2. state' \in States
    BY <1>5, <1>d DEF Finish, States
  <2>3. pc' \in PC /\ outcome' \in {"none", "completed", "failed", "cancelled"}
    BY <1>5 DEF Finish, PC
  <2>4. ended < MaxNavs
    BY <1>5 DEF Finish, TypeOK, NavsLeft
  <2> QED BY <1>5, <2>1, <2>2, <2>3, <2>4 DEF Finish, TypeOK, robotVars, history
<1>6. CASE LeaveCancelled
  BY <1>6 DEF LeaveCancelled, Leave, TypeOK, PC, Results, robotVars, history
<1>7. CASE LeaveDone
  BY <1>7 DEF LeaveDone, Leave, TypeOK, PC, robotVars, history
<1>8. CASE LeaveTimeout
  BY <1>8 DEF LeaveTimeout, Leave, TypeOK, PC, Results, robotVars, history
<1>9. CASE Receive
  BY <1>9 DEF Receive, Judge, TypeOK, Results, robotVars
<1>10. CASE Shutdown
  BY <1>10 DEF Shutdown, TypeOK, robotVars, history
<1>11. CASE TakeCommand
  <2> DEFINE c == Head(commands)
  <2>1. c \in Command /\ Tail(commands) \in Seq(Command)
    BY <1>11 DEF TakeCommand, TypeOK
  <2>2. robot' \in Robot
    BY <1>11, <2>1, HandleCommandType DEF TakeCommand, TypeOK
  <2> HIDE DEF c
  <2>3. pursuing' \in BOOLEAN
    <3>1. CASE running
      <4>1. pursuing' = IF c.name = "navigate_to" /\ pc # "idle" THEN c.to = Target(kind)
                        ELSE pursuing /\ c.name \in {"walk_mode", "stand_mode"}
        BY <1>11, <3>1, Zenon DEF TakeCommand, c
      <4> DEFINE P == c.to = Target(kind)
                 Q == pursuing /\ c.name \in {"walk_mode", "stand_mode"}
      <4>2. P \in BOOLEAN /\ Q \in BOOLEAN
        OBVIOUS
      <4> DEFINE A == c.name = "navigate_to" /\ pc # "idle"
      <4>3. pursuing' = (IF A THEN P ELSE Q)
        BY <4>1
      <4> HIDE DEF P, Q, A
      <4>4. (IF A THEN P ELSE Q) \in BOOLEAN
        BY <4>2, Zenon
      <4> QED BY <4>3, <4>4
    <3>2. CASE ~running
      BY <1>11, <3>2 DEF TakeCommand, TypeOK
    <3> QED BY <3>1, <3>2
  <2> QED BY <1>11, <2>1, <2>2, <2>3 DEF TakeCommand, TypeOK, engineVars, c
<1>12. ASSUME NEW s \in Robot, NEW p \in BOOLEAN, TickTo(s, p)
       PROVE  TypeOK'
  <2>1. Tell(s, p) \in Telemetry
    BY DEF Tell, Telemetry, Robot
  <2> QED BY <1>12, <2>1 DEF TickTo, TypeOK, engineVars
<1>13. CASE Tick
  BY <1>12, <1>13, AdvanceKeeps DEF Tick, TypeOK
<1>14. ASSUME NEW over \in BOOLEAN, TickFails(over) PROVE TypeOK'
  BY <1>12, <1>14, FailKeeps DEF TickFails, TypeOK
<1>15. ASSUME NEW c \in OperatorCommands, OperatorCommand(c) PROVE TypeOK'
  <2>1. c \in Command
    BY <1>b, <1>c DEF OperatorCommands
  <2> QED BY <1>15, <2>1 DEF OperatorCommand, Intervene, TypeOK, engineVars, robotVars
<1>16. ASSUME NEW f \in Failures, InjectFailure(f) PROVE TypeOK'
  <2>1. [robot EXCEPT !.failure = f] \in Robot
    BY DEF TypeOK, Robot
  <2> QED BY <1>16, <2>1 DEF InjectFailure, Intervene, TypeOK, engineVars
<1>17. CASE ResetRobot
  <2>1. robot' \in Robot
    BY <1>17, ResetType DEF ResetRobot, TypeOK
  <2>2. pursuing' \in BOOLEAN
    BY <1>17 DEF ResetRobot
  <2>3. Intervene("harness") /\ UNCHANGED <<commands, inbox, running, ticking>>
    BY <1>17 DEF ResetRobot
  <2> QED BY <2>1, <2>2, <2>3 DEF Intervene, TypeOK, engineVars
<1>18. CASE StopRobot
  <2>1. running' \in BOOLEAN /\ ticking' = "no"
    BY <1>18 DEF StopRobot
  <2>2. Intervene("harness") /\ UNCHANGED <<commands, inbox, robot, pursuing>>
    BY <1>18 DEF StopRobot
  <2> QED BY <2>1, <2>2 DEF Intervene, TypeOK, engineVars
<1>19. CASE StartRobot
  BY <1>19 DEF StartRobot, Intervene, TypeOK, engineVars
<1>20. CASE StartRequestEnds
  BY <1>20 DEF StartRequestEnds, TypeOK, engineVars, history
<1>21. CASE UNCHANGED vars
  BY <1>21 DEF vars, TypeOK, engineVars, robotVars, history
<1> QED
  BY <1>1, <1>2, <1>3, <1>4, <1>5, <1>6, <1>7, <1>8, <1>9, <1>10, <1>11, <1>13, <1>14, <1>15,
     <1>16, <1>17, <1>18, <1>19, <1>20, <1>21 DEF Next, EngineStep

-----------------------------------------------------------------------------
(* What the state manager shows *)

(* Only Begin and Finish touch the state, and the table lets through what  *)
(* they need from where they stand: StateManager.Transition.               *)
LEMMA StatesStep ==
    TypeOK /\ NavsLeft /\ ShownStates /\ RestState /\ [Next]_vars
        => (NavsLeft /\ ShownStates /\ RestState)'
<1> SUFFICES ASSUME TypeOK, NavsLeft, ShownStates, RestState, [Next]_vars
             PROVE  (NavsLeft /\ ShownStates /\ RestState)'
  OBVIOUS
<1> USE DEF NavsLeft, ShownStates, RestState
<1>1. ASSUME NEW k \in Kinds, Begin(k) PROVE (NavsLeft /\ ShownStates /\ RestState)'
  BY <1>1 DEF Begin, Transition, CanTransition, Kinds
<1>2. CASE Finish
  BY <1>2 DEF Finish, Transition, CanTransition, TypeOK, Kinds
<1>3. ASSUME UNCHANGED <<kind, state, outcome, ended>>, pc # "idle", pc' # "idle"
      PROVE  (NavsLeft /\ ShownStates /\ RestState)'
  BY <1>3
<1>4. CASE MissingTarget \/ Publish \/ Subscribe
  BY <1>3, <1>4 DEF MissingTarget, Publish, Subscribe
<1>5. CASE LeaveCancelled \/ LeaveDone \/ LeaveTimeout
  BY <1>3, <1>5 DEF LeaveCancelled, LeaveDone, LeaveTimeout, Leave
<1>6. ASSUME UNCHANGED <<pc, kind, state, outcome, ended>>
      PROVE  (NavsLeft /\ ShownStates /\ RestState)'
  BY <1>6
<1>7. CASE Receive \/ Shutdown
  BY <1>6, <1>7 DEF Receive, Shutdown
<1>8. CASE TakeCommand \/ Tick \/ (\E over \in BOOLEAN : TickFails(over))
  BY <1>6, <1>8 DEF TakeCommand, Tick, TickFails, TickTo, engineVars
<1>9. CASE (\E c \in OperatorCommands : OperatorCommand(c))
            \/ (\E f \in Failures : InjectFailure(f))
  BY <1>6, <1>9 DEF OperatorCommand, InjectFailure, Intervene, engineVars
<1>10. CASE ResetRobot \/ StopRobot \/ StartRobot \/ StartRequestEnds
  BY <1>6, <1>10 DEF ResetRobot, StopRobot, StartRobot, StartRequestEnds, Intervene, engineVars
<1>11. CASE UNCHANGED vars
  BY <1>6, <1>11 DEF vars, engineVars
<1> QED
  BY <1>1, <1>2, <1>4, <1>5, <1>7, <1>8, <1>9, <1>10, <1>11 DEF Next, EngineStep

-----------------------------------------------------------------------------
(* What telemetry says *)

(* A pursuing robot keeps the target of the navigation and its distance:   *)
(* only navigate_to makes it pursue, and whatever moves its target or      *)
(* falsifies its distance ends the pursuit.                                *)
LEMMA CourseStep == TypeOK /\ OnCourse /\ [Next]_vars => OnCourse'
<1> SUFFICES ASSUME TypeOK, OnCourse, [Next]_vars PROVE OnCourse'
  OBVIOUS
<1>1. ASSUME NEW k \in Kinds, Begin(k) PROVE OnCourse'
  BY <1>1 DEF Begin, OnCourse
<1>2. ASSUME UNCHANGED <<pursuing, robot, kind>> PROVE OnCourse'
  BY <1>2 DEF OnCourse, Target, Measured
<1>3. CASE EngineStep
  BY <1>2, <1>3 DEF EngineStep, MissingTarget, Publish, Subscribe, Finish, LeaveCancelled,
                    LeaveDone, LeaveTimeout, Leave, robotVars, history
<1>4. CASE Receive \/ Shutdown
  BY <1>2, <1>4 DEF Receive, Shutdown, robotVars, history
<1>5. CASE TakeCommand
  <2> DEFINE c == Head(commands)
  <2>1. c \in Command
    BY <1>5 DEF TakeCommand, TypeOK
  <2>2. UNCHANGED kind
    BY <1>5 DEF TakeCommand, engineVars
  <2>3. CASE ~running
    BY <1>2, <1>5, <2>2, <2>3 DEF TakeCommand
  <2>4. CASE running /\ c.name = "navigate_to"
    <3>1. robot' = Navigate(robot, c.to)
      BY <1>5, <2>4 DEF TakeCommand, HandleCommand
    <3>2. /\ robot'.target = c.to
          /\ robot'.pos = robot.pos
          /\ robot'.dist = Abs(robot.pos - c.to)
      BY <3>1 DEF Navigate, TypeOK, Robot
    <3>3. pursuing' => c.to = Target(kind)
      BY <1>5, <2>4 DEF TakeCommand
    <3> QED BY <2>2, <3>2, <3>3 DEF OnCourse, Measured, Target
  <2>5. CASE running /\ c.name # "navigate_to"
    <3>1. pursuing' => pursuing /\ c.name \in {"walk_mode", "stand_mode"}
      BY <1>5, <2>5 DEF TakeCommand
    <3>2. ASSUME c.name \in {"walk_mode", "stand_mode"}
          PROVE  robot' \in {Stand(robot, "walk"), Stand(robot, "stand")}
      BY <1>5, <2>5, <3>2 DEF TakeCommand, HandleCommand
    <3>3. \A m \in Modes : LET r == Stand(robot, m) IN
              r.target = robot.target /\ r.pos = robot.pos /\ r.dist = robot.dist
      BY DEF Stand, TypeOK, Robot
    <3>4. "walk" \in Modes /\ "stand" \in Modes
      BY DEF Modes
    <3>5. pursuing' => /\ robot'.target = robot.target /\ robot'.pos = robot.pos
                       /\ robot'.dist = robot.dist
      BY <3>1, <3>2, <3>3, <3>4
    <3> QED BY <2>2, <3>1, <3>5 DEF OnCourse, Measured, Target
  <2> QED BY <2>3, <2>4, <2>5
<1>6. CASE Tick
  <2>1. robot' = Advance(robot) /\ pursuing' = pursuing /\ kind' = kind
    BY <1>6 DEF Tick, TickTo, engineVars
  <2> QED BY <2>1, AdvanceKeeps DEF OnCourse, TypeOK, Target
<1>7. ASSUME NEW over \in BOOLEAN, TickFails(over) PROVE OnCourse'
  <2> DEFINE s == Fail(robot, over)
  <2>1. /\ robot' = s /\ kind' = kind /\ robot.failure # NoFailure
        /\ pursuing' = (pursuing /\ s.mode \notin {"safe_stop", "error"})
    BY <1>7 DEF TickFails, TickTo, engineVars
  <2>2. pursuing' => pursuing /\ s.mode \notin {"safe_stop", "error"}
    BY <2>1
  <2> HIDE DEF s
  <2> QED BY <2>1, <2>2, FailKeeps DEF OnCourse, TypeOK, Target, s
<1>8. ASSUME NEW c \in OperatorCommands, OperatorCommand(c) PROVE OnCourse'
  BY <1>2, <1>8 DEF OperatorCommand, Intervene, engineVars, robotVars
<1>9. ASSUME NEW f \in Failures, InjectFailure(f) PROVE OnCourse'
  <2>1. /\ robot'.target = robot.target /\ robot'.pos = robot.pos /\ robot'.dist = robot.dist
    BY <1>9 DEF InjectFailure, TypeOK, Robot
  <2>2. UNCHANGED <<kind, pursuing>>
    BY <1>9 DEF InjectFailure, Intervene, engineVars
  <2> QED BY <2>1, <2>2 DEF OnCourse, Measured, Target
<1>10. CASE ResetRobot
  BY <1>10 DEF ResetRobot, OnCourse
<1>11. CASE StopRobot \/ StartRobot \/ StartRequestEnds
  BY <1>2, <1>11 DEF StopRobot, StartRobot, StartRequestEnds, Intervene, engineVars, history
<1>12. CASE UNCHANGED vars
  BY <1>2, <1>12 DEF vars, engineVars, robotVars, history
<1> QED
  BY <1>1, <1>3, <1>4, <1>5, <1>6, <1>7, <1>8, <1>9, <1>10, <1>11, <1>12 DEF Next

(* What a pursuing robot tells is true: publishTelemetry.                  *)
LEMMA TellIsHonest ==
    ASSUME TypeOK, NEW s \in Robot, NEW p \in BOOLEAN,
           p => s.target = Target(kind) /\ Measured(s)
    PROVE  Honest(Tell(s, p)) /\ Tell(s, p) \in Telemetry
<1>1. Tell(s, p) \in Telemetry
  BY DEF Tell, Telemetry, Robot
<1>2. ASSUME p, s.dist < ArrivalThreshold PROVE Abs(s.pos - Target(kind)) < ArrivalThreshold
  BY <1>2 DEF Measured
<1> QED BY <1>1, <1>2 DEF Tell, Honest

(* The messages under way and the one that was heard stay honest: the      *)
(* callback copies the head of the queue, ticks append what the robot says.*)
LEMMA HonestStep ==
    TypeOK /\ OnCourse /\ HonestInbox /\ HeardArrival /\ [Next]_vars
        => HonestInbox' /\ HeardArrival'
<1> SUFFICES ASSUME TypeOK, OnCourse, HonestInbox, HeardArrival, [Next]_vars
             PROVE  HonestInbox' /\ HeardArrival'
  OBVIOUS
<1>1. ASSUME UNCHANGED inbox PROVE HonestInbox'
  BY <1>1 DEF HonestInbox, Honest
<1>2. ASSUME UNCHANGED heard, result' = result \/ result' # "success" PROVE HeardArrival'
  BY <1>2 DEF HeardArrival, Honest
<1>3. ASSUME NEW k \in Kinds, Begin(k) PROVE HonestInbox' /\ HeardArrival'
  BY <1>1, <1>2, <1>3 DEF Begin
<1>4. CASE MissingTarget \/ Publish \/ Subscribe \/ Finish
  BY <1>1, <1>2, <1>4 DEF MissingTarget, Publish, Subscribe, Finish, history
<1>5. CASE LeaveCancelled \/ LeaveDone \/ LeaveTimeout
  <2>1. inbox' = <<>>
    BY <1>5 DEF LeaveCancelled, LeaveDone, LeaveTimeout, Leave
  <2>2. UNCHANGED heard /\ (result' = result \/ result' # "success")
    BY <1>5 DEF LeaveCancelled, LeaveDone, LeaveTimeout, Leave, history
  <2> QED BY <1>2, <2>1, <2>2 DEF HonestInbox
<1>6. CASE Receive
  <2> DEFINE m == Head(inbox)
  <2>1. inbox # <<>> /\ inbox' = Tail(inbox)
    BY <1>6 DEF Receive
  <2>2. HonestInbox'
    BY <2>1 DEF HonestInbox, Honest, TypeOK
  <2>3. Honest(m)
    BY <2>1 DEF HonestInbox, TypeOK
  <2>4. \/ result' = result /\ heard' = heard
        \/ result' # "success" /\ heard' \in {heard, m}
        \/ heard' = m /\ m.dist < ArrivalThreshold
    BY <1>6 DEF Receive, Judge
  <2>5. HeardArrival'
    BY <2>3, <2>4 DEF HeardArrival, Honest
  <2> QED BY <2>2, <2>5
<1>7. CASE Shutdown \/ TakeCommand
  BY <1>1, <1>2, <1>7 DEF Shutdown, TakeCommand, engineVars, history
<1>8. ASSUME NEW s \in Robot, NEW p \in BOOLEAN, TickTo(s, p),
             p => s.target = Target(kind) /\ Measured(s)
      PROVE  HonestInbox' /\ HeardArrival'
  <2> DEFINE m == Tell(s, p)
  <2>1. Honest(m) /\ m \in Telemetry
    BY <1>8, TellIsHonest
  <2>2. inbox' = inbox \/ inbox' = Append(inbox, m)
    BY <1>8 DEF TickTo
  <2> HIDE DEF m
  <2>3. HonestInbox'
    <3>1. CASE inbox' = inbox
      BY <3>1 DEF HonestInbox
    <3>2. CASE inbox' = Append(inbox, m)
      <4>1. inbox \in Seq(Telemetry)
        BY DEF TypeOK
      <4>2. ASSUME NEW i \in 1..Len(inbox') PROVE Honest(inbox'[i])
        <5>1. (i \in 1..Len(inbox) /\ inbox'[i] = inbox[i]) \/ inbox'[i] = m
          BY <2>1, <3>2, <4>1, <4>2
        <5> QED BY <2>1, <5>1 DEF HonestInbox
      <4> QED BY <4>2 DEF HonestInbox
    <3> QED BY <2>2, <3>1, <3>2
  <2>4. HeardArrival'
    BY <1>2, <1>8 DEF TickTo, engineVars
  <2> QED BY <2>3, <2>4
<1>9. CASE Tick
  BY <1>8, <1>9, AdvanceKeeps DEF Tick, TypeOK, OnCourse
<1>10. ASSUME NEW over \in BOOLEAN, TickFails(over) PROVE HonestInbox' /\ HeardArrival'
  <2> DEFINE s == Fail(robot, over)
             p == pursuing /\ s.mode \notin {"safe_stop", "error"}
  <2>1. TickTo(s, p) /\ robot.failure # NoFailure
    BY <1>10 DEF TickFails
  <2>2. s \in Robot
    BY <2>1, FailKeeps DEF TypeOK
  <2>4. p \in BOOLEAN
    OBVIOUS
  <2>3. p => s.target = Target(kind) /\ Measured(s)
    BY <2>1, FailKeeps DEF TypeOK, OnCourse
  <2> HIDE DEF s, p
  <2> QED BY <1>8, <2>1, <2>2, <2>3, <2>4
<1>11. CASE (\E c \in OperatorCommands : OperatorCommand(c))
             \/ (\E f \in Failures : InjectFailure(f))
  BY <1>1, <1>2, <1>11 DEF OperatorCommand, InjectFailure, Intervene, engineVars
<1>12. CASE ResetRobot \/ StopRobot \/ StartRobot \/ StartRequestEnds
  BY <1>1, <1>2, <1>12 DEF ResetRobot, StopRobot, StartRobot, StartRequestEnds, Intervene,
                           engineVars, history
<1>13. CASE UNCHANGED vars
  BY <1>1, <1>2, <1>13 DEF vars, engineVars, history
<1> QED
  BY <1>3, <1>4, <1>5, <1>6, <1>7, <1>9, <1>10, <1>11, <1>12, <1>13 DEF Next, EngineStep

-----------------------------------------------------------------------------
(* The theorems *)

(* The inductive invariant holds in every state the engine and the robot   *)
(* reach, whatever fails and whoever intervenes.                           *)
THEOREM Inductive == Spec => []IndInv
<1>1. Init => IndInv
  BY InitType DEF Init, IndInv, NavsLeft, ShownStates, RestState, OnCourse, HonestInbox,
                  HeardArrival, Honest, NoMessage, ArrivalThreshold
<1>2. IndInv /\ [Next]_vars => IndInv'
  BY TypeStep, StatesStep, CourseStep, HonestStep DEF IndInv
<1> QED BY <1>1, <1>2, PTL DEF Spec

(* Every variable keeps its type; in particular no distance is negative.   *)
THEOREM TypeCorrect == Spec => []TypeOK
<1>1. IndInv => TypeOK
  BY DEF IndInv
<1> QED BY <1>1, Inductive, PTL

(* Between navigations the state manager shows how the last one ended,     *)
(* although it drops the transitions its table does not allow.             *)
THEOREM RestStates == Spec => []RestState
<1>1. IndInv => RestState
  BY DEF IndInv
<1> QED BY <1>1, Inductive, PTL

(* An arrival heard from a robot that pursues the navigation is real, for  *)
(* a store at any distance.                                                *)
THEOREM Arrivals == Spec => []TrueArrival
<1>1. IndInv => TrueArrival
  BY DEF IndInv, HeardArrival, Honest, TrueArrival
<1> QED BY <1>1, Inductive, PTL
==============================================================================
