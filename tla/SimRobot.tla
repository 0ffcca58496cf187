------------------------------ MODULE SimRobot -------------------------------
(***************************************************************************)
(* The simulated robot of internal/simrobot.  Commands and ticks run under *)
(* the robot's mutex, so each is an operator from a robot to the robot it  *)
(* leaves.  Positions lie on the line between the base and the store, in   *)
(* quarter metres: the robot moves two of them per tick, one when slowed.  *)
(***************************************************************************)
EXTENDS Integers

Base == 0
Far  == 3996       \* the distance of a robot made to miss its target, 999 m

FullSpeed == 2
Arrival   == 2     \* the simulator's arrival threshold, 0.5 m

Modes == {"idle", "walk", "stand", "navigating", "arrived", "safe_stop", "error"}

Failures == {"navigation_timeout", "offline_mid_route", "safe_stop_mid_route", "battery_low",
             "command_rejected", "delayed_arrival"}

NoFailure == "none"

Robot == [mode : Modes, pos : Int, target : Int, dist : Nat, online : BOOLEAN,
          speed : 1..FullSpeed, failure : Failures \cup {NoFailure}]

NewSimRobot == [mode |-> "idle", pos |-> Base, target |-> Base, dist |-> 0, online |-> TRUE,
                speed |-> FullSpeed, failure |-> NoFailure]

Abs(n) == IF n < 0 THEN -n ELSE n

-----------------------------------------------------------------------------
(* HandleCommand *)

Command == [name : {"navigate_to", "safe_stop", "release_control", "walk_mode",
                    "stand_mode", "cmd_vel"}, to : Int]

Halt(s, m) == [s EXCEPT !.mode = m, !.target = Base, !.dist = 0]

Stand(s, m) == [s EXCEPT !.mode = IF @ = "navigating" THEN @ ELSE m]

(* Faulty variant: the distance is left for the next tick to compute.      *)
NavigateStale(s, to) == [s EXCEPT !.mode = "navigating", !.target = to]

Navigate(s, to) ==
    [s EXCEPT !.mode = "navigating", !.target = to, !.dist = Abs(s.pos - to)]

(* Faulty variant: no case for safe_stop.                                  *)
HandleCommandNoStop(s, c) ==
    CASE c.name = "navigate_to"     -> Navigate(s, c.to)
      [] c.name = "release_control" -> Halt(s, "idle")
      [] c.name = "walk_mode"       -> Stand(s, "walk")
      [] c.name = "stand_mode"      -> Stand(s, "stand")
      [] c.name = "cmd_vel"         -> [s EXCEPT !.mode = "walk"]
      [] OTHER                      -> s

HandleCommand(s, c) ==
    CASE c.name = "navigate_to"     -> Navigate(s, c.to)
      [] c.name = "safe_stop"       -> Halt(s, "safe_stop")
      [] c.name = "release_control" -> Halt(s, "idle")
      [] c.name = "walk_mode"       -> Stand(s, "walk")
      [] c.name = "stand_mode"      -> Stand(s, "stand")
      [] c.name = "cmd_vel"         -> [s EXCEPT !.mode = "walk"]

-----------------------------------------------------------------------------
(* Tick *)

Move(s) ==
    LET away == Abs(s.pos - s.target)
        on   == IF s.pos < s.target THEN s.pos + s.speed ELSE s.pos - s.speed
    IN  IF away > Arrival
        THEN [s EXCEPT !.pos = on, !.dist = Abs(on - s.target)]
        ELSE [s EXCEPT !.pos = s.target, !.dist = 0, !.mode = "arrived"]

Advance(s) == IF s.mode = "navigating" THEN Move(s) ELSE s

(* applyFailure, once its condition holds.  Every failure but the delay    *)
(* takes the place of the movement and happens once; the delay is over     *)
(* after as many ticks as were asked for, over says whether this is the    *)
(* last.  Nothing gives the robot its speed back.                          *)
Fail(s, over) ==
    LET t == [s EXCEPT !.failure = NoFailure] IN
    CASE s.failure = "navigation_timeout"  -> [t EXCEPT !.mode = "error", !.dist = Far]
      [] s.failure = "offline_mid_route"   -> [t EXCEPT !.mode = "error", !.online = FALSE]
      [] s.failure = "safe_stop_mid_route" -> Halt(t, "safe_stop")
      [] s.failure = "command_rejected"    -> [t EXCEPT !.mode = "error"]
      [] s.failure = "battery_low"         -> t
      [] s.failure = "delayed_arrival"     ->
           Advance([s EXCEPT !.speed = 1, !.failure = IF over THEN NoFailure ELSE @])

Reset(s) == [Halt(s, "idle") EXCEPT !.pos = Base, !.online = TRUE, !.failure = NoFailure]
==============================================================================
