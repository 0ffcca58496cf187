----------------------------- MODULE MCTelemetry -----------------------------
(* Instances of Telemetry: what the robots publish.                        *)
EXTENDS Telemetry

LOCAL S(r, t, on) == [robot |-> r, stamp |-> t, online |-> on]

(* Two robots that come and go, and one over the turn of a second, where   *)
(* the texts of the timestamps do not sort (.99Z, Z, .1Z, .12Z), and of an *)
(* hour.                                                                   *)
TwoRobots == <<S("r1", 10, TRUE), S("r2", 20, TRUE), S("r1", 30, FALSE), S("r1", 60, TRUE)>>
OneRobot  == <<S("r1", 99, TRUE), S("r1", 100, TRUE), S("r1", 110, TRUE), S("r1", 112, TRUE)>>
SmallTraces == {TwoRobots, OneRobot}

OneAtATime == {{"stream"}, {"events"}, {"history"}}
Streams == {{"stream"}}
History == {{"history"}}
Unfiltered == [c \in {"c1", "c2"} |-> IF c = "c1" THEN {"r1", "r2"} ELSE {"r1"}]
SmallRanges == {<<0, 50>>, <<15, 110>>, <<56, 112>>, <<0, 112>>}
==============================================================================
