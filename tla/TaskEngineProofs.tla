-------------------------- MODULE TaskEngineProofs ---------------------------
(***************************************************************************)
(* Proofs about TaskEngine for every set of robots, zones and requests and *)
(* every bound.                                                            *)
(*                                                                         *)
(* OneRunningPerRobot is not inductive: Start writes "running" without     *)
(* looking.  What makes it true is that between FindRobot and Start nobody *)
(* else writes "running" (CheckedIsFree), that a task's robot never        *)
(* changes once the task exists (Numbered), and that a task on its way to  *)
(* Start was never started before (FreshUntilStarted).                     *)
(***************************************************************************)
EXTENDS TaskEngine, TLAPS

(* Identifiers above created are unused, and the runner, the handlers and  *)
(* the cancel requests only know tasks that exist.                         *)
Numbered ==
    /\ \A t \in TaskId : t > created => status[t] = "none" /\ t \notin started
    /\ cur \in TaskId => cur <= created
    /\ \A t \in handlers : t <= created
    /\ \A t \in cancelling : t <= created

(* The runner has a task exactly while runOne is past List.                *)
CurrentTask == pc \notin {"idle", "stopped"} <=> cur \in TaskId

(* The process stops at most MaxStops times.                               *)
StopsLeft == proc = "draining" => stops < MaxStops

(* An outcome is decided before it is written or announced.                *)
DecidedOutcome == pc \in {"finish", "report", "engwrite"} => outcome \in Terminal

(* Started tasks are exactly the ones that may be running.                 *)
FreshUntilStarted ==
    /\ \A t \in TaskId : status[t] = "pending" => t \notin started
    /\ \A t \in TaskId : status[t] = "running" => t \in started
    /\ pc \in {"picked", "found", "checked"} => cur \notin started
    /\ pc \in {"started", "engine", "engwrite", "step", "send", "hold"} => cur \in started

(* What HasRunningForRobot answered is still true when Start writes.       *)
CheckedIsFree == pc \in {"found", "checked"} => ~HasRunningForRobot(request[cur].robot)

(* The runner's task has no handler, and a handler's task was started.     *)
HandedOver == handlers \subseteq started /\ cur \notin handlers

(* A task that may still be announced has not been announced yet.          *)
Unannounced ==
    ~StoreFaults =>
        /\ pc = "report" => status[cur] # "pending"
        /\ \A t \in TaskId :
              \/ t > created \/ status[t] = "pending" \/ t \in handlers
              \/ t = cur /\ pc # "engwrite"
              => emitted[t] = <<>>

(* The one command that may slip past a cancellation is still to come      *)
(* until a step has been sent, and a cancelled status stays until the next *)
(* checkpoint.                                                             *)
NoOverrunYet ==
    ~StoreFaults =>
        \A t \in TaskId :
            \/ t \notin started
            \/ t = cur /\ pc \in {"picked", "found", "checked", "started", "send"}
            \/ t = cur /\ pc \in {"step", "hold"} /\ status[t] # "cancelled"
            => overrun[t] = 0

IndInv ==
    /\ TypeOK
    /\ Numbered
    /\ CurrentTask
    /\ StopsLeft
    /\ DecidedOutcome
    /\ FreshUntilStarted
    /\ CheckedIsFree
    /\ OneRunningPerRobot
    /\ ZoneLockOwned
    /\ HandedOver
    /\ Unannounced
    /\ OneCompletionEvent
    /\ NoOverrunYet
    /\ CancelOverrun

-----------------------------------------------------------------------------
(* Fleet and API steps *)

(* Registering a robot or changing its capabilities preserves the          *)
(* invariant: no part of it reads the registry.                            *)
LEMMA RegisterRobotInv == ASSUME IndInv, NEW r \in Robots, NEW c \in SUBSET {"walk",
    "stand"}, RegisterRobot(r, c) PROVE IndInv'
<1> USE DEF IndInv, RegisterRobot, storeVars, apiVars, runnerVars, procVars, observed
<1>1. TypeOK'
  BY BoundsAssumption DEF TypeOK, CurrentTask, StopsLeft, DecidedOutcome, TaskId,
     NoTask, Status, Terminal, PC, LocksTypeOK
<1>2. Numbered' /\ CurrentTask' /\ StopsLeft' /\ DecidedOutcome' /\ FreshUntilStarted'
      /\ CheckedIsFree' /\ OneRunningPerRobot' /\ ZoneLockOwned' /\ HandedOver' /\
      Unannounced' /\ OneCompletionEvent' /\ NoOverrunYet' /\ CancelOverrun'
  BY DEF Numbered, CurrentTask, StopsLeft, DecidedOutcome, FreshUntilStarted,
     CheckedIsFree, OneRunningPerRobot, ZoneLockOwned, HandedOver, Unannounced,
     OneCompletionEvent, NoOverrunYet, CancelOverrun, HasRunningForRobot, NeedsZone
<1> QED
  BY <1>1, <1>2

(* Deleting a robot preserves the invariant, also while a task of the      *)
(* robot is running.                                                       *)
LEMMA DeleteRobotInv == ASSUME IndInv, NEW r \in Robots, DeleteRobot(r) PROVE IndInv'
<1> USE DEF IndInv, DeleteRobot, storeVars, apiVars, runnerVars, procVars, observed
<1>1. TypeOK'
  BY BoundsAssumption DEF TypeOK, CurrentTask, StopsLeft, DecidedOutcome, TaskId,
     NoTask, Status, Terminal, PC, LocksTypeOK
<1>2. Numbered' /\ CurrentTask' /\ StopsLeft' /\ DecidedOutcome' /\ FreshUntilStarted'
      /\ CheckedIsFree' /\ OneRunningPerRobot' /\ ZoneLockOwned' /\ HandedOver' /\
      Unannounced' /\ OneCompletionEvent' /\ NoOverrunYet' /\ CancelOverrun'
  BY DEF Numbered, CurrentTask, StopsLeft, DecidedOutcome, FreshUntilStarted,
     CheckedIsFree, OneRunningPerRobot, ZoneLockOwned, HandedOver, Unannounced,
     OneCompletionEvent, NoOverrunYet, CancelOverrun, HasRunningForRobot, NeedsZone
<1> QED
  BY <1>1, <1>2

(* Creating or deleting a stored scenario preserves the invariant.         *)
LEMMA ToggleCustomScenarioInv == ASSUME IndInv, ToggleCustomScenario PROVE IndInv'
<1> USE DEF IndInv, ToggleCustomScenario, storeVars, apiVars, runnerVars, procVars,
    observed
<1>1. TypeOK'
  BY BoundsAssumption DEF TypeOK, CurrentTask, StopsLeft, DecidedOutcome, TaskId,
     NoTask, Status, Terminal, PC, LocksTypeOK
<1>2. Numbered' /\ CurrentTask' /\ StopsLeft' /\ DecidedOutcome' /\ FreshUntilStarted'
      /\ CheckedIsFree' /\ OneRunningPerRobot' /\ ZoneLockOwned' /\ HandedOver' /\
      Unannounced' /\ OneCompletionEvent' /\ NoOverrunYet' /\ CancelOverrun'
  BY DEF Numbered, CurrentTask, StopsLeft, DecidedOutcome, FreshUntilStarted,
     CheckedIsFree, OneRunningPerRobot, ZoneLockOwned, HandedOver, Unannounced,
     OneCompletionEvent, NoOverrunYet, CancelOverrun, HasRunningForRobot, NeedsZone
<1> QED
  BY <1>1, <1>2

(* The checks of createTask write nothing the invariant reads.             *)
LEMMA CreateTaskCheckInv == ASSUME IndInv, NEW q \in Requests, CreateTaskCheck(q) PROVE
    IndInv'
<1> USE DEF IndInv, CreateTaskCheck, HasRunningForRobot, storeVars, fleetVars,
    runnerVars, procVars, observed
<1>1. TypeOK'
  BY BoundsAssumption DEF TypeOK, CurrentTask, StopsLeft, DecidedOutcome, TaskId,
     NoTask, Status, Terminal, PC, LocksTypeOK
<1>2. Numbered' /\ CurrentTask' /\ StopsLeft' /\ DecidedOutcome' /\ FreshUntilStarted'
      /\ CheckedIsFree' /\ OneRunningPerRobot' /\ ZoneLockOwned' /\ HandedOver' /\
      Unannounced' /\ OneCompletionEvent' /\ NoOverrunYet' /\ CancelOverrun'
  BY DEF Numbered, CurrentTask, StopsLeft, DecidedOutcome, FreshUntilStarted,
     CheckedIsFree, OneRunningPerRobot, ZoneLockOwned, HandedOver, Unannounced,
     OneCompletionEvent, NoOverrunYet, CancelOverrun, HasRunningForRobot, NeedsZone
<1> QED
  BY <1>1, <1>2

(* createTask writes under an unused identifier, so no running task, lock  *)
(* or event is disturbed.                                                  *)
LEMMA CreateTaskStoreInv == ASSUME IndInv, NEW q \in Requests, CreateTaskStore(q) PROVE
    IndInv'
<1> USE DEF IndInv, CreateTaskStore, Create, fleetVars, runnerVars, procVars, observed
<1>1. TypeOK'
  <2>1. status' \in [TaskId -> Status]
    BY DEF TypeOK, CurrentTask, DecidedOutcome, Status, Terminal
  <2>2. request' \in [TaskId -> Requests]
    BY DEF TypeOK, TaskId
  <2>3. created' \in 0..MaxTasks
    BY BoundsAssumption DEF TypeOK, TaskId
  <2>4. creating' \subseteq Requests
    BY DEF TypeOK
  <2> QED
    BY <2>1, <2>2, <2>3, <2>4 DEF TypeOK, LocksTypeOK
<1>2. Numbered'
  BY BoundsAssumption DEF Numbered, TypeOK, CurrentTask, DecidedOutcome, TaskId, NoTask
<1>3. FreshUntilStarted'
  BY DEF FreshUntilStarted, TypeOK, Numbered, CurrentTask, DecidedOutcome, Terminal,
     TaskId
<1>4. CheckedIsFree'
  BY DEF CheckedIsFree, TypeOK, Numbered, CurrentTask, DecidedOutcome,
     HasRunningForRobot, Terminal, TaskId
<1>5. OneRunningPerRobot'
  BY DEF OneRunningPerRobot, TypeOK, Numbered, CurrentTask, DecidedOutcome,
     CheckedIsFree, HasRunningForRobot, Terminal, TaskId
<1>6. ZoneLockOwned'
  BY RequestsAssumption, NoRobotAssumption DEF ZoneLockOwned, TypeOK, Numbered,
     CurrentTask, FreshUntilStarted, LocksTypeOK, NeedsZone, Executing, RequestType,
     TaskId
<1>7. Unannounced'
  BY DEF Unannounced, TypeOK, Numbered, CurrentTask, FreshUntilStarted, HandedOver,
     DecidedOutcome, Terminal, TaskId, NoTask
<1>8. NoOverrunYet'
  BY DEF NoOverrunYet, TypeOK, Numbered, FreshUntilStarted, CurrentTask, HandedOver,
     DecidedOutcome, Terminal, TaskId, NoTask
<1>9. CurrentTask' /\ StopsLeft' /\ DecidedOutcome' /\ HandedOver' /\
      OneCompletionEvent' /\ CancelOverrun'
  BY DEF CurrentTask, StopsLeft, DecidedOutcome, HandedOver, OneCompletionEvent,
     CancelOverrun
<1> QED
  BY <1>1, <1>2, <1>3, <1>4, <1>5, <1>6, <1>7, <1>8, <1>9

(* cancelTask reads the status of an existing task and remembers it.       *)
LEMMA CancelTaskCheckInv == ASSUME IndInv, NEW t \in TaskId, CancelTaskCheck(t) PROVE
    IndInv'
<1> USE DEF IndInv, CancelTaskCheck, storeVars, fleetVars, runnerVars, procVars,
    observed
<1>1. TypeOK'
  BY BoundsAssumption DEF TypeOK, CurrentTask, StopsLeft, DecidedOutcome, TaskId,
     NoTask, Status, Terminal, PC, LocksTypeOK
<1>2. Numbered'
  BY BoundsAssumption DEF Numbered, TypeOK, CurrentTask, DecidedOutcome, TaskId, NoTask
<1>3. CurrentTask' /\ StopsLeft' /\ DecidedOutcome' /\ FreshUntilStarted' /\
      CheckedIsFree' /\ OneRunningPerRobot' /\ ZoneLockOwned' /\ HandedOver' /\
      Unannounced' /\ OneCompletionEvent' /\ NoOverrunYet' /\ CancelOverrun'
  BY DEF CurrentTask, StopsLeft, DecidedOutcome, FreshUntilStarted, CheckedIsFree,
     OneRunningPerRobot, ZoneLockOwned, HandedOver, Unannounced, OneCompletionEvent,
     NoOverrunYet, CancelOverrun, HasRunningForRobot, NeedsZone
<1> QED
  BY <1>1, <1>2, <1>3

(* The write of cancelTask, however late, never makes a task running or    *)
(* pending.                                                                *)
LEMMA CancelTaskStoreInv == ASSUME IndInv, NEW t \in TaskId, CancelTaskStore(t) PROVE
    IndInv'
<1> USE DEF IndInv, CancelTaskStore, SetStatus, fleetVars, runnerVars, procVars
<1>1. TypeOK'
  <2>1. status' \in [TaskId -> Status]
    BY DEF TypeOK, CurrentTask, DecidedOutcome, Status, Terminal
  <2>2. cancelling' \subseteq TaskId
    BY DEF TypeOK
  <2>3. acked' \subseteq TaskId
    BY DEF TypeOK
  <2> QED
    BY <2>1, <2>2, <2>3 DEF TypeOK, LocksTypeOK
<1>2. Numbered'
  BY BoundsAssumption DEF Numbered, TypeOK, CurrentTask, DecidedOutcome, TaskId, NoTask
<1>3. FreshUntilStarted'
  BY DEF FreshUntilStarted, TypeOK, Numbered, CurrentTask, DecidedOutcome, Terminal
<1>4. CheckedIsFree'
  BY DEF CheckedIsFree, TypeOK, Numbered, CurrentTask, DecidedOutcome,
     HasRunningForRobot, Terminal
<1>5. OneRunningPerRobot'
  BY DEF OneRunningPerRobot, TypeOK, Numbered, CurrentTask, DecidedOutcome,
     CheckedIsFree, HasRunningForRobot, Terminal
<1>6. Unannounced'
  BY DEF Unannounced, TypeOK, Numbered, CurrentTask, FreshUntilStarted, HandedOver,
     DecidedOutcome, Terminal, TaskId, NoTask
<1>7. NoOverrunYet'
  BY DEF NoOverrunYet, TypeOK, Numbered, FreshUntilStarted, CurrentTask, HandedOver,
     DecidedOutcome, Terminal, TaskId, NoTask
<1>8. CurrentTask' /\ StopsLeft' /\ DecidedOutcome' /\ ZoneLockOwned' /\ HandedOver' /\
      OneCompletionEvent' /\ CancelOverrun'
  BY DEF CurrentTask, StopsLeft, DecidedOutcome, ZoneLockOwned, HandedOver,
     OneCompletionEvent, CancelOverrun, NeedsZone
<1> QED
  BY <1>1, <1>2, <1>3, <1>4, <1>5, <1>6, <1>7, <1>8

-----------------------------------------------------------------------------
(* Steps of the Task Runner *)

(* A picked task is pending, so it was never started, announced or handed  *)
(* over.                                                                   *)
LEMMA PickInv == ASSUME IndInv, NEW t \in TaskId, Pick(t) PROVE IndInv'
<1> USE DEF IndInv, Pick, RunnerAt, FirstPending, OnlyRunner, storeVars, fleetVars,
    apiVars, procVars, observed
<1>1. TypeOK'
  BY BoundsAssumption DEF TypeOK, CurrentTask, StopsLeft, DecidedOutcome, TaskId,
     NoTask, Status, Terminal, PC, LocksTypeOK
<1>2. Numbered'
  BY BoundsAssumption DEF Numbered, TypeOK, CurrentTask, DecidedOutcome, TaskId, NoTask
<1>3. CurrentTask'
  BY DEF CurrentTask, TypeOK, Numbered, TaskId, NoTask
<1>4. DecidedOutcome'
  BY DEF DecidedOutcome, TypeOK, Terminal
<1>5. FreshUntilStarted'
  BY DEF FreshUntilStarted, TypeOK, Numbered, CurrentTask, DecidedOutcome, Terminal
<1>6. CheckedIsFree'
  BY DEF CheckedIsFree, TypeOK, Numbered, CurrentTask, DecidedOutcome,
     HasRunningForRobot, Terminal
<1>7. ZoneLockOwned'
  BY RequestsAssumption, NoRobotAssumption DEF ZoneLockOwned, TypeOK, Numbered,
     CurrentTask, FreshUntilStarted, LocksTypeOK, NeedsZone, Executing, RequestType
<1>8. HandedOver'
  BY DEF HandedOver, TypeOK, CurrentTask, FreshUntilStarted, NoTask, TaskId
<1>9. Unannounced'
  BY DEF Unannounced, TypeOK, Numbered, CurrentTask, FreshUntilStarted, HandedOver,
     DecidedOutcome, Terminal, TaskId, NoTask
<1>10. NoOverrunYet'
  BY DEF NoOverrunYet, TypeOK, Numbered, FreshUntilStarted, CurrentTask, HandedOver,
     DecidedOutcome, Terminal, TaskId, NoTask
<1>11. StopsLeft' /\ OneRunningPerRobot' /\ OneCompletionEvent' /\ CancelOverrun'
  BY DEF StopsLeft, OneRunningPerRobot, OneCompletionEvent, CancelOverrun
<1> QED
  BY <1>1, <1>2, <1>3, <1>4, <1>5, <1>6, <1>7, <1>8, <1>9, <1>10, <1>11

(* A tick without a pending task changes nothing.                          *)
LEMMA IdleTickInv == ASSUME IndInv, IdleTick PROVE IndInv'
BY DEF IndInv, IdleTick, RunnerAt, vars, storeVars, fleetVars, apiVars, runnerVars,
   procVars, observed, TypeOK, Numbered, CurrentTask, StopsLeft, DecidedOutcome,
   FreshUntilStarted, CheckedIsFree, OneRunningPerRobot, ZoneLockOwned, HandedOver,
   Unannounced, OneCompletionEvent, NoOverrunYet, CancelOverrun, LocksTypeOK,
   HasRunningForRobot, NeedsZone

(* Run returns only between two tasks.                                     *)
LEMMA RunReturnsInv == ASSUME IndInv, RunReturns PROVE IndInv'
<1> USE DEF IndInv, RunReturns, RunnerAt, OnlyRunner, storeVars, fleetVars, apiVars,
    procVars, observed
<1>1. TypeOK'
  BY BoundsAssumption DEF TypeOK, CurrentTask, StopsLeft, DecidedOutcome, TaskId,
     NoTask, Status, Terminal, PC, LocksTypeOK
<1>2. CurrentTask'
  BY DEF CurrentTask, TypeOK, Numbered, TaskId, NoTask
<1>3. DecidedOutcome'
  BY DEF DecidedOutcome, TypeOK, Terminal
<1>4. FreshUntilStarted'
  BY DEF FreshUntilStarted, TypeOK, Numbered, CurrentTask, DecidedOutcome, Terminal
<1>5. CheckedIsFree'
  BY DEF CheckedIsFree, TypeOK, Numbered, CurrentTask, DecidedOutcome,
     HasRunningForRobot, Terminal
<1>6. ZoneLockOwned'
  BY RequestsAssumption, NoRobotAssumption DEF ZoneLockOwned, TypeOK, Numbered,
     CurrentTask, FreshUntilStarted, LocksTypeOK, NeedsZone, Executing, RequestType
<1>7. Unannounced'
  BY DEF Unannounced, TypeOK, Numbered, CurrentTask, FreshUntilStarted, HandedOver,
     DecidedOutcome, Terminal, TaskId, NoTask
<1>8. NoOverrunYet'
  BY DEF NoOverrunYet, TypeOK, Numbered, FreshUntilStarted, CurrentTask, HandedOver,
     DecidedOutcome, Terminal, TaskId, NoTask
<1>9. Numbered' /\ StopsLeft' /\ OneRunningPerRobot' /\ HandedOver' /\
      OneCompletionEvent' /\ CancelOverrun'
  BY DEF Numbered, StopsLeft, OneRunningPerRobot, HandedOver, OneCompletionEvent,
     CancelOverrun
<1> QED
  BY <1>1, <1>2, <1>3, <1>4, <1>5, <1>6, <1>7, <1>8, <1>9

(* A tick given up leaves the task as it was.                              *)
LEMMA GiveUpInv == ASSUME IndInv, GiveUp PROVE IndInv'
<1> USE DEF IndInv, GiveUp, RunnerAt, HasRunningForRobot, ToIdle, OnlyRunner, storeVars,
    fleetVars, apiVars, procVars, observed
<1>1. TypeOK'
  <2>1. pc' \in PC
    BY DEF TypeOK, PC
  <2>2. cur' \in TaskId \cup {NoTask}
    BY DEF TypeOK, NoTask
  <2>3. step' \in Nat \ {0}
    BY DEF TypeOK
  <2>4. outcome' \in Terminal \cup {"none"}
    BY DEF TypeOK, Terminal
  <2> QED
    BY <2>1, <2>2, <2>3, <2>4 DEF TypeOK, LocksTypeOK
<1>2. Numbered'
  BY BoundsAssumption DEF Numbered, TypeOK, CurrentTask, DecidedOutcome, TaskId, NoTask
<1>3. CurrentTask'
  BY DEF CurrentTask, TypeOK, Numbered, TaskId, NoTask
<1>4. DecidedOutcome'
  BY DEF DecidedOutcome, TypeOK, Terminal
<1>5. FreshUntilStarted'
  BY DEF FreshUntilStarted, TypeOK, Numbered, CurrentTask, DecidedOutcome, Terminal
<1>6. CheckedIsFree'
  BY DEF CheckedIsFree, TypeOK, Numbered, CurrentTask, DecidedOutcome,
     HasRunningForRobot, Terminal
<1>7. ZoneLockOwned'
  BY RequestsAssumption, NoRobotAssumption DEF ZoneLockOwned, TypeOK, Numbered,
     CurrentTask, FreshUntilStarted, LocksTypeOK, NeedsZone, Executing, RequestType
<1>8. HandedOver'
  BY DEF HandedOver, TypeOK, CurrentTask, FreshUntilStarted, NoTask, TaskId
<1>9. Unannounced'
  BY DEF Unannounced, TypeOK, Numbered, CurrentTask, FreshUntilStarted, HandedOver,
     DecidedOutcome, Terminal, TaskId, NoTask
<1>10. NoOverrunYet'
  BY DEF NoOverrunYet, TypeOK, Numbered, FreshUntilStarted, CurrentTask, HandedOver,
     DecidedOutcome, Terminal, TaskId, NoTask
<1>11. StopsLeft' /\ OneRunningPerRobot' /\ OneCompletionEvent' /\ CancelOverrun'
  BY DEF StopsLeft, OneRunningPerRobot, OneCompletionEvent, CancelOverrun
<1> QED
  BY <1>1, <1>2, <1>3, <1>4, <1>5, <1>6, <1>7, <1>8, <1>9, <1>10, <1>11

(* A task whose robot is found has a robot without a running task.         *)
LEMMA FindRobotInv == ASSUME IndInv, FindRobot PROVE IndInv'
<1> USE DEF IndInv, FindRobot, RunnerAt, HasRunningForRobot, OnlyRunner, storeVars,
    fleetVars, apiVars, procVars, observed
<1>1. TypeOK'
  BY BoundsAssumption DEF TypeOK, CurrentTask, StopsLeft, DecidedOutcome, TaskId,
     NoTask, Status, Terminal, PC, LocksTypeOK
<1>2. CurrentTask'
  BY DEF CurrentTask, TypeOK, Numbered, TaskId, NoTask
<1>3. DecidedOutcome'
  BY DEF DecidedOutcome, TypeOK, Terminal
<1>4. FreshUntilStarted'
  BY DEF FreshUntilStarted, TypeOK, Numbered, CurrentTask, DecidedOutcome, Terminal
<1>5. CheckedIsFree'
  BY DEF CheckedIsFree, TypeOK, Numbered, CurrentTask, DecidedOutcome,
     HasRunningForRobot, Terminal
<1>6. ZoneLockOwned'
  BY RequestsAssumption, NoRobotAssumption DEF ZoneLockOwned, TypeOK, Numbered,
     CurrentTask, FreshUntilStarted, LocksTypeOK, NeedsZone, Executing, RequestType
<1>7. Unannounced'
  BY DEF Unannounced, TypeOK, Numbered, CurrentTask, FreshUntilStarted, HandedOver,
     DecidedOutcome, Terminal, TaskId, NoTask
<1>8. NoOverrunYet'
  BY DEF NoOverrunYet, TypeOK, Numbered, FreshUntilStarted, CurrentTask, HandedOver,
     DecidedOutcome, Terminal, TaskId, NoTask
<1>9. Numbered' /\ StopsLeft' /\ OneRunningPerRobot' /\ HandedOver' /\
      OneCompletionEvent' /\ CancelOverrun'
  BY DEF Numbered, StopsLeft, OneRunningPerRobot, HandedOver, OneCompletionEvent,
     CancelOverrun
<1> QED
  BY <1>1, <1>2, <1>3, <1>4, <1>5, <1>6, <1>7, <1>8, <1>9

(* A task that fails its checks goes to the outcome; one that passes still *)
(* has a free robot.                                                       *)
LEMMA CheckScenarioInv == ASSUME IndInv, CheckScenario PROVE IndInv'
<1> USE DEF IndInv, CheckScenario, RunnerAt, Decide, OnlyRunner, storeVars, fleetVars,
    apiVars, procVars, observed
<1>1. TypeOK'
  BY BoundsAssumption DEF TypeOK, CurrentTask, StopsLeft, DecidedOutcome, TaskId,
     NoTask, Status, Terminal, PC, LocksTypeOK
<1>2. CurrentTask'
  BY DEF CurrentTask, TypeOK, Numbered, TaskId, NoTask
<1>3. DecidedOutcome'
  BY DEF DecidedOutcome, TypeOK, Terminal
<1>4. FreshUntilStarted'
  BY DEF FreshUntilStarted, TypeOK, Numbered, CurrentTask, DecidedOutcome, Terminal
<1>5. CheckedIsFree'
  BY DEF CheckedIsFree, TypeOK, Numbered, CurrentTask, DecidedOutcome,
     HasRunningForRobot, Terminal
<1>6. ZoneLockOwned'
  BY RequestsAssumption, NoRobotAssumption DEF ZoneLockOwned, TypeOK, Numbered,
     CurrentTask, FreshUntilStarted, LocksTypeOK, NeedsZone, Executing, RequestType
<1>7. Unannounced'
  BY DEF Unannounced, TypeOK, Numbered, CurrentTask, FreshUntilStarted, HandedOver,
     DecidedOutcome, Terminal, TaskId, NoTask
<1>8. NoOverrunYet'
  BY DEF NoOverrunYet, TypeOK, Numbered, FreshUntilStarted, CurrentTask, HandedOver,
     DecidedOutcome, Terminal, TaskId, NoTask
<1>9. Numbered' /\ StopsLeft' /\ OneRunningPerRobot' /\ HandedOver' /\
      OneCompletionEvent' /\ CancelOverrun'
  BY DEF Numbered, StopsLeft, OneRunningPerRobot, HandedOver, OneCompletionEvent,
     CancelOverrun
<1> QED
  BY <1>1, <1>2, <1>3, <1>4, <1>5, <1>6, <1>7, <1>8, <1>9

(* The write of "running" is the one step that could give a robot two      *)
(* running tasks; CheckedIsFree excludes it.                               *)
LEMMA StartInv == ASSUME IndInv, Start PROVE IndInv'
<1> USE DEF IndInv, Start, RunnerAt, SetStatus, ToIdle, fleetVars, apiVars, procVars
<1>1. TypeOK'
  <2>1. status' \in [TaskId -> Status]
    BY DEF TypeOK, CurrentTask, DecidedOutcome, Status, Terminal
  <2>2. pc' \in PC
    BY DEF TypeOK, PC
  <2>3. cur' \in TaskId \cup {NoTask}
    BY DEF TypeOK, NoTask
  <2>4. step' \in Nat \ {0}
    BY DEF TypeOK
  <2>5. outcome' \in Terminal \cup {"none"}
    BY DEF TypeOK, Terminal
  <2>6. started' \subseteq TaskId
    BY DEF TypeOK, CurrentTask
  <2> QED
    BY <2>1, <2>2, <2>3, <2>4, <2>5, <2>6 DEF TypeOK, LocksTypeOK
<1>2. Numbered'
  BY BoundsAssumption DEF Numbered, TypeOK, CurrentTask, DecidedOutcome, TaskId, NoTask
<1>3. CurrentTask'
  BY DEF CurrentTask, TypeOK, Numbered, TaskId, NoTask
<1>4. DecidedOutcome'
  BY DEF DecidedOutcome, TypeOK, Terminal
<1>5. FreshUntilStarted'
  BY DEF FreshUntilStarted, TypeOK, Numbered, CurrentTask, DecidedOutcome, Terminal
<1>6. CheckedIsFree'
  BY DEF CheckedIsFree, TypeOK, Numbered, CurrentTask, DecidedOutcome,
     HasRunningForRobot, Terminal
<1>7. OneRunningPerRobot'
  BY DEF OneRunningPerRobot, TypeOK, Numbered, CurrentTask, DecidedOutcome,
     CheckedIsFree, HasRunningForRobot, Terminal
<1>8. ZoneLockOwned'
  BY RequestsAssumption, NoRobotAssumption DEF ZoneLockOwned, TypeOK, Numbered,
     CurrentTask, FreshUntilStarted, LocksTypeOK, NeedsZone, Executing, RequestType
<1>9. HandedOver'
  BY DEF HandedOver, TypeOK, CurrentTask, FreshUntilStarted, NoTask, TaskId
<1>10. Unannounced'
  BY DEF Unannounced, TypeOK, Numbered, CurrentTask, FreshUntilStarted, HandedOver,
     DecidedOutcome, Terminal, TaskId, NoTask
<1>11. NoOverrunYet'
  BY DEF NoOverrunYet, TypeOK, Numbered, FreshUntilStarted, CurrentTask, HandedOver,
     DecidedOutcome, Terminal, TaskId, NoTask
<1>12. StopsLeft' /\ OneCompletionEvent' /\ CancelOverrun'
  BY DEF StopsLeft, OneCompletionEvent, CancelOverrun
<1> QED
  BY <1>1, <1>2, <1>3, <1>4, <1>5, <1>6, <1>7, <1>8, <1>9, <1>10, <1>11, <1>12

(* A mall_assistant task moves from the runner to a handler of its own.    *)
LEMMA DispatchMallInv == ASSUME IndInv, DispatchMall PROVE IndInv'
<1> USE DEF IndInv, DispatchMall, RunnerAt, ToIdle, storeVars, fleetVars, apiVars,
    observed
<1>1. TypeOK'
  <2>1. pc' \in PC
    BY DEF TypeOK, PC
  <2>2. cur' \in TaskId \cup {NoTask}
    BY DEF TypeOK, NoTask
  <2>3. step' \in Nat \ {0}
    BY DEF TypeOK
  <2>4. outcome' \in Terminal \cup {"none"}
    BY DEF TypeOK, Terminal
  <2>5. handlers' \subseteq TaskId
    BY DEF TypeOK, CurrentTask
  <2>6. displaced' \subseteq handlers'
    BY DEF TypeOK
  <2> QED
    BY <2>1, <2>2, <2>3, <2>4, <2>5, <2>6 DEF TypeOK, LocksTypeOK
<1>2. Numbered'
  BY BoundsAssumption DEF Numbered, TypeOK, CurrentTask, DecidedOutcome, TaskId, NoTask
<1>3. CurrentTask'
  BY DEF CurrentTask, TypeOK, Numbered, TaskId, NoTask
<1>4. DecidedOutcome'
  BY DEF DecidedOutcome, TypeOK, Terminal
<1>5. FreshUntilStarted'
  BY DEF FreshUntilStarted, TypeOK, Numbered, CurrentTask, DecidedOutcome, Terminal
<1>6. CheckedIsFree'
  BY DEF CheckedIsFree, TypeOK, Numbered, CurrentTask, DecidedOutcome,
     HasRunningForRobot, Terminal
<1>7. ZoneLockOwned'
  BY RequestsAssumption, NoRobotAssumption DEF ZoneLockOwned, TypeOK, Numbered,
     CurrentTask, FreshUntilStarted, LocksTypeOK, NeedsZone, Executing, RequestType
<1>8. HandedOver'
  BY DEF HandedOver, TypeOK, CurrentTask, FreshUntilStarted, NoTask, TaskId
<1>9. Unannounced'
  BY DEF Unannounced, TypeOK, Numbered, CurrentTask, FreshUntilStarted, HandedOver,
     DecidedOutcome, Terminal, TaskId, NoTask
<1>10. NoOverrunYet'
  BY DEF NoOverrunYet, TypeOK, Numbered, FreshUntilStarted, CurrentTask, HandedOver,
     DecidedOutcome, Terminal, TaskId, NoTask
<1>11. StopsLeft' /\ OneRunningPerRobot' /\ OneCompletionEvent' /\ CancelOverrun'
  BY DEF StopsLeft, OneRunningPerRobot, OneCompletionEvent, CancelOverrun
<1> QED
  BY <1>1, <1>2, <1>3, <1>4, <1>5, <1>6, <1>7, <1>8, <1>9, <1>10, <1>11

(* The engine takes the current task over without touching the store.      *)
LEMMA DispatchEngineInv == ASSUME IndInv, DispatchEngine PROVE IndInv'
<1> USE DEF IndInv, DispatchEngine, RunnerAt, OnlyRunner, storeVars, fleetVars, apiVars,
    procVars, observed
<1>1. TypeOK'
  BY BoundsAssumption DEF TypeOK, CurrentTask, StopsLeft, DecidedOutcome, TaskId,
     NoTask, Status, Terminal, PC, LocksTypeOK
<1>2. CurrentTask'
  BY DEF CurrentTask, TypeOK, Numbered, TaskId, NoTask
<1>3. DecidedOutcome'
  BY DEF DecidedOutcome, TypeOK, Terminal
<1>4. FreshUntilStarted'
  BY DEF FreshUntilStarted, TypeOK, Numbered, CurrentTask, DecidedOutcome, Terminal
<1>5. CheckedIsFree'
  BY DEF CheckedIsFree, TypeOK, Numbered, CurrentTask, DecidedOutcome,
     HasRunningForRobot, Terminal
<1>6. ZoneLockOwned'
  BY RequestsAssumption, NoRobotAssumption DEF ZoneLockOwned, TypeOK, Numbered,
     CurrentTask, FreshUntilStarted, LocksTypeOK, NeedsZone, Executing, RequestType
<1>7. Unannounced'
  BY DEF Unannounced, TypeOK, Numbered, CurrentTask, FreshUntilStarted, HandedOver,
     DecidedOutcome, Terminal, TaskId, NoTask
<1>8. NoOverrunYet'
  BY DEF NoOverrunYet, TypeOK, Numbered, FreshUntilStarted, CurrentTask, HandedOver,
     DecidedOutcome, Terminal, TaskId, NoTask
<1>9. Numbered' /\ StopsLeft' /\ OneRunningPerRobot' /\ HandedOver' /\
      OneCompletionEvent' /\ CancelOverrun'
  BY DEF Numbered, StopsLeft, OneRunningPerRobot, HandedOver, OneCompletionEvent,
     CancelOverrun
<1> QED
  BY <1>1, <1>2, <1>3, <1>4, <1>5, <1>6, <1>7, <1>8, <1>9

(* The zone is free when the runner asks for it, since every lock belongs  *)
(* to the task in hand.                                                    *)
LEMMA DispatchStepsInv == ASSUME IndInv, DispatchSteps PROVE IndInv'
<1> USE DEF IndInv, DispatchSteps, RunnerAt, NeedsZone, AcquireZone, IsZoneAvailable,
    Decide, storeVars, fleetVars, apiVars, procVars, observed
<1>1. TypeOK'
  <2>1. pc' \in PC
    BY DEF TypeOK, PC
  <2>2. outcome' \in Terminal \cup {"none"}
    BY DEF TypeOK, Terminal
  <2>3. LocksTypeOK'
    BY RequestsAssumption DEF TypeOK, CurrentTask, LocksTypeOK, RequestType
  <2> QED
    BY <2>1, <2>2, <2>3 DEF TypeOK, LocksTypeOK
<1>2. CurrentTask'
  BY DEF CurrentTask, TypeOK, Numbered, TaskId, NoTask
<1>3. DecidedOutcome'
  BY DEF DecidedOutcome, TypeOK, Terminal
<1>4. FreshUntilStarted'
  BY DEF FreshUntilStarted, TypeOK, Numbered, CurrentTask, DecidedOutcome, Terminal
<1>5. CheckedIsFree'
  BY DEF CheckedIsFree, TypeOK, Numbered, CurrentTask, DecidedOutcome,
     HasRunningForRobot, Terminal
<1>6. ZoneLockOwned'
  BY RequestsAssumption, NoRobotAssumption DEF ZoneLockOwned, TypeOK, Numbered,
     CurrentTask, FreshUntilStarted, LocksTypeOK, NeedsZone, Executing, RequestType
<1>7. Unannounced'
  BY DEF Unannounced, TypeOK, Numbered, CurrentTask, FreshUntilStarted, HandedOver,
     DecidedOutcome, Terminal, TaskId, NoTask
<1>8. NoOverrunYet'
  BY DEF NoOverrunYet, TypeOK, Numbered, FreshUntilStarted, CurrentTask, HandedOver,
     DecidedOutcome, Terminal, TaskId, NoTask
<1>9. Numbered' /\ StopsLeft' /\ OneRunningPerRobot' /\ HandedOver' /\
      OneCompletionEvent' /\ CancelOverrun'
  BY DEF Numbered, StopsLeft, OneRunningPerRobot, HandedOver, OneCompletionEvent,
     CancelOverrun
<1> QED
  BY <1>1, <1>2, <1>3, <1>4, <1>5, <1>6, <1>7, <1>8, <1>9

(* A checkpoint lets only tasks through that the store does not call       *)
(* cancelled.                                                              *)
LEMMA StepCheckInv == ASSUME IndInv, StepCheck PROVE IndInv'
<1> USE DEF IndInv, StepCheck, RunnerAt, CheckpointStops, Decide, CheckpointGoesOn,
    OnlyRunner, storeVars, fleetVars, apiVars, procVars, observed
<1>1. TypeOK'
  BY BoundsAssumption DEF TypeOK, CurrentTask, StopsLeft, DecidedOutcome, TaskId,
     NoTask, Status, Terminal, PC, LocksTypeOK
<1>2. CurrentTask'
  BY DEF CurrentTask, TypeOK, Numbered, TaskId, NoTask
<1>3. DecidedOutcome'
  BY DEF DecidedOutcome, TypeOK, Terminal
<1>4. FreshUntilStarted'
  BY DEF FreshUntilStarted, TypeOK, Numbered, CurrentTask, DecidedOutcome, Terminal
<1>5. CheckedIsFree'
  BY DEF CheckedIsFree, TypeOK, Numbered, CurrentTask, DecidedOutcome,
     HasRunningForRobot, Terminal
<1>6. ZoneLockOwned'
  BY RequestsAssumption, NoRobotAssumption DEF ZoneLockOwned, TypeOK, Numbered,
     CurrentTask, FreshUntilStarted, LocksTypeOK, NeedsZone, Executing, RequestType
<1>7. Unannounced'
  BY DEF Unannounced, TypeOK, Numbered, CurrentTask, FreshUntilStarted, HandedOver,
     DecidedOutcome, Terminal, TaskId, NoTask
<1>8. NoOverrunYet'
  BY DEF NoOverrunYet, TypeOK, Numbered, FreshUntilStarted, CurrentTask, HandedOver,
     DecidedOutcome, Terminal, TaskId, NoTask
<1>9. Numbered' /\ StopsLeft' /\ OneRunningPerRobot' /\ HandedOver' /\
      OneCompletionEvent' /\ CancelOverrun'
  BY DEF Numbered, StopsLeft, OneRunningPerRobot, HandedOver, OneCompletionEvent,
     CancelOverrun
<1> QED
  BY <1>1, <1>2, <1>3, <1>4, <1>5, <1>6, <1>7, <1>8, <1>9

(* A cancelled task is sent at most the one command whose checkpoint came  *)
(* before the cancellation.                                                *)
LEMMA StepSendInv == ASSUME IndInv, StepSend PROVE IndInv'
<1> USE DEF IndInv, StepSend, RunnerAt, NextStep, Decide, storeVars, fleetVars, apiVars,
    procVars
<1>1. TypeOK'
  <2>1. pc' \in PC
    BY DEF TypeOK, PC
  <2>2. step' \in Nat \ {0}
    BY DEF TypeOK
  <2>3. outcome' \in Terminal \cup {"none"}
    BY DEF TypeOK, Terminal
  <2>4. overrun' \in [TaskId -> Nat]
    <3>1. cur \in TaskId
      BY DEF CurrentTask
    <3>2. overrun' = overrun \/ overrun' = [overrun EXCEPT ![cur] = overrun[cur] + 1]
      OBVIOUS
    <3> QED
      BY <3>1, <3>2 DEF TypeOK
  <2> QED
    BY <2>1, <2>2, <2>3, <2>4 DEF TypeOK, LocksTypeOK
<1>2. CurrentTask'
  BY DEF CurrentTask, TypeOK, Numbered, TaskId, NoTask
<1>3. DecidedOutcome'
  BY DEF DecidedOutcome, TypeOK, Terminal
<1>4. FreshUntilStarted'
  BY DEF FreshUntilStarted, TypeOK, Numbered, CurrentTask, DecidedOutcome, Terminal
<1>5. CheckedIsFree'
  BY DEF CheckedIsFree, TypeOK, Numbered, CurrentTask, DecidedOutcome,
     HasRunningForRobot, Terminal
<1>6. ZoneLockOwned'
  BY RequestsAssumption, NoRobotAssumption DEF ZoneLockOwned, TypeOK, Numbered,
     CurrentTask, FreshUntilStarted, LocksTypeOK, NeedsZone, Executing, RequestType
<1>7. Unannounced'
  BY DEF Unannounced, TypeOK, Numbered, CurrentTask, FreshUntilStarted, HandedOver,
     DecidedOutcome, Terminal, TaskId, NoTask
<1>8. NoOverrunYet'
  BY DEF NoOverrunYet, TypeOK, Numbered, FreshUntilStarted, CurrentTask, HandedOver,
     DecidedOutcome, Terminal, TaskId, NoTask
<1>9. CancelOverrun'
  <2> SUFFICES ASSUME ~StoreFaults, NEW t \in TaskId
               PROVE  overrun'[t] <= 1
    BY DEF CancelOverrun
  <2>1. cur \in TaskId
    BY DEF CurrentTask
  <2>2. overrun[cur] = 0 /\ overrun[t] <= 1
    BY <2>1 DEF NoOverrunYet, CancelOverrun
  <2>3. overrun' = overrun \/ overrun' = [overrun EXCEPT ![cur] = overrun[cur] + 1]
    OBVIOUS
  <2> QED
    <3>1. CASE overrun' = overrun
      BY <3>1, <2>2
    <3>2. CASE overrun' = [overrun EXCEPT ![cur] = overrun[cur] + 1]
      <4>1. overrun \in [TaskId -> Nat]
        BY DEF TypeOK
      <4>2. overrun'[t] = IF t = cur THEN overrun[cur] + 1 ELSE overrun[t]
        BY <3>2, <4>1, <2>1
      <4> HIDE DEF StepSend
      <4> QED
        BY <4>2, <2>2
    <3> QED
      BY <2>3, <3>1, <3>2
<1>10. Numbered' /\ StopsLeft' /\ OneRunningPerRobot' /\ HandedOver' /\
      OneCompletionEvent'
  BY DEF Numbered, StopsLeft, OneRunningPerRobot, HandedOver, OneCompletionEvent
<1> QED
  BY <1>1, <1>2, <1>3, <1>4, <1>5, <1>6, <1>7, <1>8, <1>9, <1>10

(* The end of a timed step moves only the runner.                          *)
LEMMA StepHoldInv == ASSUME IndInv, StepHold PROVE IndInv'
<1> USE DEF IndInv, StepHold, RunnerAt, CheckpointStops, Decide, NextStep, OnlyRunner,
    storeVars, fleetVars, apiVars, procVars, observed
<1>1. TypeOK'
  <2>1. pc' \in PC
    BY DEF TypeOK, PC
  <2>2. step' \in Nat \ {0}
    BY DEF TypeOK
  <2>3. outcome' \in Terminal \cup {"none"}
    BY DEF TypeOK, Terminal
  <2> QED
    BY <2>1, <2>2, <2>3 DEF TypeOK, LocksTypeOK
<1>2. CurrentTask'
  BY DEF CurrentTask, TypeOK, Numbered, TaskId, NoTask
<1>3. DecidedOutcome'
  BY DEF DecidedOutcome, TypeOK, Terminal
<1>4. FreshUntilStarted'
  BY DEF FreshUntilStarted, TypeOK, Numbered, CurrentTask, DecidedOutcome, Terminal
<1>5. CheckedIsFree'
  BY DEF CheckedIsFree, TypeOK, Numbered, CurrentTask, DecidedOutcome,
     HasRunningForRobot, Terminal
<1>6. ZoneLockOwned'
  BY RequestsAssumption, NoRobotAssumption DEF ZoneLockOwned, TypeOK, Numbered,
     CurrentTask, FreshUntilStarted, LocksTypeOK, NeedsZone, Executing, RequestType
<1>7. Unannounced'
  BY DEF Unannounced, TypeOK, Numbered, CurrentTask, FreshUntilStarted, HandedOver,
     DecidedOutcome, Terminal, TaskId, NoTask
<1>8. NoOverrunYet'
  BY DEF NoOverrunYet, TypeOK, Numbered, FreshUntilStarted, CurrentTask, HandedOver,
     DecidedOutcome, Terminal, TaskId, NoTask
<1>9. Numbered' /\ StopsLeft' /\ OneRunningPerRobot' /\ HandedOver' /\
      OneCompletionEvent' /\ CancelOverrun'
  BY DEF Numbered, StopsLeft, OneRunningPerRobot, HandedOver, OneCompletionEvent,
     CancelOverrun
<1> QED
  BY <1>1, <1>2, <1>3, <1>4, <1>5, <1>6, <1>7, <1>8, <1>9

(* The end of the step list decides the outcome.                           *)
LEMMA StepsDoneInv == ASSUME IndInv, StepsDone PROVE IndInv'
<1> USE DEF IndInv, StepsDone, RunnerAt, Decide, OnlyRunner, storeVars, fleetVars,
    apiVars, procVars, observed
<1>1. TypeOK'
  BY BoundsAssumption DEF TypeOK, CurrentTask, StopsLeft, DecidedOutcome, TaskId,
     NoTask, Status, Terminal, PC, LocksTypeOK
<1>2. CurrentTask'
  BY DEF CurrentTask, TypeOK, Numbered, TaskId, NoTask
<1>3. DecidedOutcome'
  BY DEF DecidedOutcome, TypeOK, Terminal
<1>4. FreshUntilStarted'
  BY DEF FreshUntilStarted, TypeOK, Numbered, CurrentTask, DecidedOutcome, Terminal
<1>5. CheckedIsFree'
  BY DEF CheckedIsFree, TypeOK, Numbered, CurrentTask, DecidedOutcome,
     HasRunningForRobot, Terminal
<1>6. ZoneLockOwned'
  BY RequestsAssumption, NoRobotAssumption DEF ZoneLockOwned, TypeOK, Numbered,
     CurrentTask, FreshUntilStarted, LocksTypeOK, NeedsZone, Executing, RequestType
<1>7. Unannounced'
  BY DEF Unannounced, TypeOK, Numbered, CurrentTask, FreshUntilStarted, HandedOver,
     DecidedOutcome, Terminal, TaskId, NoTask
<1>8. NoOverrunYet'
  BY DEF NoOverrunYet, TypeOK, Numbered, FreshUntilStarted, CurrentTask, HandedOver,
     DecidedOutcome, Terminal, TaskId, NoTask
<1>9. Numbered' /\ StopsLeft' /\ OneRunningPerRobot' /\ HandedOver' /\
      OneCompletionEvent' /\ CancelOverrun'
  BY DEF Numbered, StopsLeft, OneRunningPerRobot, HandedOver, OneCompletionEvent,
     CancelOverrun
<1> QED
  BY <1>1, <1>2, <1>3, <1>4, <1>5, <1>6, <1>7, <1>8, <1>9

(* Writing the outcome ends the running status, or is lost under           *)
(* StoreFaults.                                                            *)
LEMMA WriteOutcomeInv == ASSUME IndInv, WriteOutcome PROVE IndInv'
<1> USE DEF IndInv, WriteOutcome, RunnerAt, UpdateStatusAndCompletedAt, SetStatus,
    fleetVars, apiVars, procVars, observed
<1>1. TypeOK'
  BY BoundsAssumption DEF TypeOK, CurrentTask, StopsLeft, DecidedOutcome, TaskId,
     NoTask, Status, Terminal, PC, LocksTypeOK
<1>2. Numbered'
  BY BoundsAssumption DEF Numbered, TypeOK, CurrentTask, DecidedOutcome, TaskId, NoTask
<1>3. CurrentTask'
  BY DEF CurrentTask, TypeOK, Numbered, TaskId, NoTask
<1>4. DecidedOutcome'
  BY DEF DecidedOutcome, TypeOK, Terminal
<1>5. FreshUntilStarted'
  BY DEF FreshUntilStarted, TypeOK, Numbered, CurrentTask, DecidedOutcome, Terminal
<1>6. CheckedIsFree'
  BY DEF CheckedIsFree, TypeOK, Numbered, CurrentTask, DecidedOutcome,
     HasRunningForRobot, Terminal
<1>7. OneRunningPerRobot'
  BY DEF OneRunningPerRobot, TypeOK, Numbered, CurrentTask, DecidedOutcome,
     CheckedIsFree, HasRunningForRobot, Terminal
<1>8. ZoneLockOwned'
  BY RequestsAssumption, NoRobotAssumption DEF ZoneLockOwned, TypeOK, Numbered,
     CurrentTask, FreshUntilStarted, LocksTypeOK, NeedsZone, Executing, RequestType
<1>9. Unannounced'
  BY DEF Unannounced, TypeOK, Numbered, CurrentTask, FreshUntilStarted, HandedOver,
     DecidedOutcome, Terminal, TaskId, NoTask
<1>10. NoOverrunYet'
  BY DEF NoOverrunYet, TypeOK, Numbered, FreshUntilStarted, CurrentTask, HandedOver,
     DecidedOutcome, Terminal, TaskId, NoTask
<1>11. StopsLeft' /\ HandedOver' /\ OneCompletionEvent' /\ CancelOverrun'
  BY DEF StopsLeft, HandedOver, OneCompletionEvent, CancelOverrun
<1> QED
  BY <1>1, <1>2, <1>3, <1>4, <1>5, <1>6, <1>7, <1>8, <1>9, <1>10, <1>11

(* Announcing the outcome releases the zone in the same step.              *)
LEMMA ReportInv == ASSUME IndInv, Report PROVE IndInv'
<1> USE DEF IndInv, Report, RunnerAt, NeedsZone, ReleaseZone, ToIdle, storeVars,
    fleetVars, apiVars, procVars
<1>1. TypeOK'
  <2>1. pc' \in PC
    BY DEF TypeOK, PC
  <2>2. cur' \in TaskId \cup {NoTask}
    BY DEF TypeOK, NoTask
  <2>3. step' \in Nat \ {0}
    BY DEF TypeOK
  <2>4. outcome' \in Terminal \cup {"none"}
    BY DEF TypeOK, Terminal
  <2>5. emitted' \in [TaskId -> Seq(Terminal)]
    BY DEF TypeOK, CurrentTask, DecidedOutcome
  <2>6. halted' \subseteq TaskId
    BY DEF TypeOK, CurrentTask
  <2>7. LocksTypeOK'
    BY RequestsAssumption DEF TypeOK, CurrentTask, LocksTypeOK, RequestType
  <2> QED
    BY <2>1, <2>2, <2>3, <2>4, <2>5, <2>6, <2>7 DEF TypeOK, LocksTypeOK
<1>2. Numbered'
  BY BoundsAssumption DEF Numbered, TypeOK, CurrentTask, DecidedOutcome, TaskId, NoTask
<1>3. CurrentTask'
  BY DEF CurrentTask, TypeOK, Numbered, TaskId, NoTask
<1>4. DecidedOutcome'
  BY DEF DecidedOutcome, TypeOK, Terminal
<1>5. FreshUntilStarted'
  BY DEF FreshUntilStarted, TypeOK, Numbered, CurrentTask, DecidedOutcome, Terminal
<1>6. CheckedIsFree'
  BY DEF CheckedIsFree, TypeOK, Numbered, CurrentTask, DecidedOutcome,
     HasRunningForRobot, Terminal
<1>7. ZoneLockOwned'
  <2>1. ASSUME NEW z \in Zones PROVE locks'[z] = NoRobot
    <3>1. CASE locks[z] = NoRobot
      BY <3>1 DEF TypeOK, LocksTypeOK
    <3>2. CASE locks[z] # NoRobot
      <4>1. /\ NeedsZone(request[cur])
            /\ request[cur].zone = z /\ request[cur].robot = locks[z]
        BY <3>2 DEF ZoneLockOwned
      <4> QED
        BY <4>1 DEF TypeOK, LocksTypeOK
    <3> QED
      BY <3>1, <3>2
  <2> QED
    BY <2>1 DEF ZoneLockOwned, Executing
<1>8. HandedOver'
  BY DEF HandedOver, TypeOK, CurrentTask, FreshUntilStarted, NoTask, TaskId
<1>9. Unannounced'
  BY DEF Unannounced, TypeOK, Numbered, CurrentTask, FreshUntilStarted, HandedOver,
     DecidedOutcome, Terminal, TaskId, NoTask
<1>10. OneCompletionEvent'
  BY DEF OneCompletionEvent, TypeOK, Unannounced, CurrentTask, Terminal
<1>11. NoOverrunYet'
  BY DEF NoOverrunYet, TypeOK, Numbered, FreshUntilStarted, CurrentTask, HandedOver,
     DecidedOutcome, Terminal, TaskId, NoTask
<1>12. StopsLeft' /\ OneRunningPerRobot' /\ CancelOverrun'
  BY DEF StopsLeft, OneRunningPerRobot, CancelOverrun
<1> QED
  BY <1>1, <1>2, <1>3, <1>4, <1>5, <1>6, <1>7, <1>8, <1>9, <1>10, <1>11, <1>12

-----------------------------------------------------------------------------
(* Engine and mall handlers *)

(* The engine announces a task that nobody has announced before.           *)
LEMMA EngineReportInv == ASSUME IndInv, NEW o \in Terminal, EngineReport(o) PROVE
    IndInv'
<1> USE DEF IndInv, EngineReport, RunnerAt, storeVars, fleetVars, apiVars, procVars
<1>1. TypeOK'
  <2>1. pc' \in PC
    BY DEF TypeOK, PC
  <2>2. outcome' \in Terminal \cup {"none"}
    BY DEF TypeOK, Terminal
  <2>3. emitted' \in [TaskId -> Seq(Terminal)]
    BY DEF TypeOK, CurrentTask, DecidedOutcome
  <2>4. halted' \subseteq TaskId
    BY DEF TypeOK, CurrentTask
  <2> QED
    BY <2>1, <2>2, <2>3, <2>4 DEF TypeOK, LocksTypeOK
<1>2. CurrentTask'
  BY DEF CurrentTask, TypeOK, Numbered, TaskId, NoTask
<1>3. DecidedOutcome'
  BY DEF DecidedOutcome, TypeOK, Terminal
<1>4. FreshUntilStarted'
  BY DEF FreshUntilStarted, TypeOK, Numbered, CurrentTask, DecidedOutcome, Terminal
<1>5. CheckedIsFree'
  BY DEF CheckedIsFree, TypeOK, Numbered, CurrentTask, DecidedOutcome,
     HasRunningForRobot, Terminal
<1>6. ZoneLockOwned'
  BY RequestsAssumption, NoRobotAssumption DEF ZoneLockOwned, TypeOK, Numbered,
     CurrentTask, FreshUntilStarted, LocksTypeOK, NeedsZone, Executing, RequestType
<1>7. Unannounced'
  BY DEF Unannounced, TypeOK, Numbered, CurrentTask, FreshUntilStarted, HandedOver,
     DecidedOutcome, Terminal, TaskId, NoTask
<1>8. OneCompletionEvent'
  BY DEF OneCompletionEvent, TypeOK, Unannounced, CurrentTask, Terminal
<1>9. NoOverrunYet'
  BY DEF NoOverrunYet, TypeOK, Numbered, FreshUntilStarted, CurrentTask, HandedOver,
     DecidedOutcome, Terminal, TaskId, NoTask
<1>10. Numbered' /\ StopsLeft' /\ OneRunningPerRobot' /\ HandedOver' /\ CancelOverrun'
  BY DEF Numbered, StopsLeft, OneRunningPerRobot, HandedOver, CancelOverrun
<1> QED
  BY <1>1, <1>2, <1>3, <1>4, <1>5, <1>6, <1>7, <1>8, <1>9, <1>10

(* The engine stores its result after announcing it.                       *)
LEMMA EngineWriteInv == ASSUME IndInv, EngineWrite PROVE IndInv'
<1> USE DEF IndInv, EngineWrite, RunnerAt, UpdateStatusAndCompletedAt, SetStatus,
    ToIdle, fleetVars, apiVars, procVars, observed
<1>1. TypeOK'
  <2>1. status' \in [TaskId -> Status]
    BY DEF TypeOK, CurrentTask, DecidedOutcome, Status, Terminal
  <2>2. pc' \in PC
    BY DEF TypeOK, PC
  <2>3. cur' \in TaskId \cup {NoTask}
    BY DEF TypeOK, NoTask
  <2>4. step' \in Nat \ {0}
    BY DEF TypeOK
  <2>5. outcome' \in Terminal \cup {"none"}
    BY DEF TypeOK, Terminal
  <2> QED
    BY <2>1, <2>2, <2>3, <2>4, <2>5 DEF TypeOK, LocksTypeOK
<1>2. Numbered'
  BY BoundsAssumption DEF Numbered, TypeOK, CurrentTask, DecidedOutcome, TaskId, NoTask
<1>3. CurrentTask'
  BY DEF CurrentTask, TypeOK, Numbered, TaskId, NoTask
<1>4. DecidedOutcome'
  BY DEF DecidedOutcome, TypeOK, Terminal
<1>5. FreshUntilStarted'
  BY DEF FreshUntilStarted, TypeOK, Numbered, CurrentTask, DecidedOutcome, Terminal
<1>6. CheckedIsFree'
  BY DEF CheckedIsFree, TypeOK, Numbered, CurrentTask, DecidedOutcome,
     HasRunningForRobot, Terminal
<1>7. OneRunningPerRobot'
  BY DEF OneRunningPerRobot, TypeOK, Numbered, CurrentTask, DecidedOutcome,
     CheckedIsFree, HasRunningForRobot, Terminal
<1>8. ZoneLockOwned'
  BY RequestsAssumption, NoRobotAssumption DEF ZoneLockOwned, TypeOK, Numbered,
     CurrentTask, FreshUntilStarted, LocksTypeOK, NeedsZone, Executing, RequestType
<1>9. HandedOver'
  BY DEF HandedOver, TypeOK, CurrentTask, FreshUntilStarted, NoTask, TaskId
<1>10. Unannounced'
  <2>1. cur \in TaskId /\ cur <= created /\ cur \notin handlers
    BY DEF CurrentTask, Numbered, HandedOver
  <2>2. ~StoreFaults => status'[cur] # "pending"
    BY <2>1 DEF DecidedOutcome, Terminal, TypeOK
  <2>3. \A t \in TaskId : t # cur => status'[t] = status[t]
    BY DEF TypeOK
  <2>4. cur' \notin TaskId
    BY DEF TaskId, NoTask
  <2> QED
    BY <2>1, <2>2, <2>3, <2>4 DEF Unannounced, TypeOK, TaskId
<1>11. NoOverrunYet'
  BY DEF NoOverrunYet, TypeOK, Numbered, FreshUntilStarted, CurrentTask, HandedOver,
     DecidedOutcome, Terminal, TaskId, NoTask
<1>12. StopsLeft' /\ OneCompletionEvent' /\ CancelOverrun'
  BY DEF StopsLeft, OneCompletionEvent, CancelOverrun
<1> QED
  BY <1>1, <1>2, <1>3, <1>4, <1>5, <1>6, <1>7, <1>8, <1>9, <1>10, <1>11, <1>12

(* Tasks queued by a mall handler get unused identifiers, as those of      *)
(* createTask.                                                             *)
LEMMA MallCreateInv == ASSUME IndInv, NEW t \in TaskId, NEW q \in Requests,
    MallCreate(t, q) PROVE IndInv'
<1> USE DEF IndInv, MallCreate, Create, fleetVars, apiVars, runnerVars, procVars,
    observed
<1>1. TypeOK'
  <2>1. status' \in [TaskId -> Status]
    BY DEF TypeOK, CurrentTask, DecidedOutcome, Status, Terminal
  <2>2. request' \in [TaskId -> Requests]
    BY DEF TypeOK, TaskId
  <2>3. created' \in 0..MaxTasks
    BY BoundsAssumption DEF TypeOK, TaskId
  <2> QED
    BY <2>1, <2>2, <2>3 DEF TypeOK, LocksTypeOK
<1>2. Numbered'
  BY BoundsAssumption DEF Numbered, TypeOK, CurrentTask, DecidedOutcome, TaskId, NoTask
<1>3. FreshUntilStarted'
  BY DEF FreshUntilStarted, TypeOK, Numbered, CurrentTask, DecidedOutcome, Terminal,
     TaskId
<1>4. CheckedIsFree'
  BY DEF CheckedIsFree, TypeOK, Numbered, CurrentTask, DecidedOutcome,
     HasRunningForRobot, Terminal, TaskId
<1>5. OneRunningPerRobot'
  BY DEF OneRunningPerRobot, TypeOK, Numbered, CurrentTask, DecidedOutcome,
     CheckedIsFree, HasRunningForRobot, Terminal, TaskId
<1>6. ZoneLockOwned'
  BY RequestsAssumption, NoRobotAssumption DEF ZoneLockOwned, TypeOK, Numbered,
     CurrentTask, FreshUntilStarted, LocksTypeOK, NeedsZone, Executing, RequestType,
     TaskId
<1>7. Unannounced'
  BY DEF Unannounced, TypeOK, Numbered, CurrentTask, FreshUntilStarted, HandedOver,
     DecidedOutcome, Terminal, TaskId, NoTask
<1>8. NoOverrunYet'
  BY DEF NoOverrunYet, TypeOK, Numbered, FreshUntilStarted, CurrentTask, HandedOver,
     DecidedOutcome, Terminal, TaskId, NoTask
<1>9. CurrentTask' /\ StopsLeft' /\ DecidedOutcome' /\ HandedOver' /\
      OneCompletionEvent' /\ CancelOverrun'
  BY DEF CurrentTask, StopsLeft, DecidedOutcome, HandedOver, OneCompletionEvent,
     CancelOverrun
<1> QED
  BY <1>1, <1>2, <1>3, <1>4, <1>5, <1>6, <1>7, <1>8, <1>9

(* A handler ends its own task, never the one the runner has in hand.      *)
LEMMA MallFinishInv == ASSUME IndInv, NEW t \in TaskId, NEW o \in Terminal,
    MallFinish(t, o) PROVE IndInv'
<1> USE DEF IndInv, MallFinish, UpdateStatusAndCompletedAt, SetStatus, fleetVars,
    apiVars, runnerVars
<1>1. TypeOK'
  <2>1. status' \in [TaskId -> Status]
    BY DEF TypeOK, CurrentTask, DecidedOutcome, Status, Terminal
  <2>2. handlers' \subseteq TaskId
    BY DEF TypeOK, CurrentTask
  <2>3. displaced' \subseteq handlers'
    BY DEF TypeOK
  <2>4. emitted' \in [TaskId -> Seq(Terminal)]
    BY DEF TypeOK, CurrentTask, DecidedOutcome
  <2> QED
    BY <2>1, <2>2, <2>3, <2>4 DEF TypeOK, LocksTypeOK
<1>2. Numbered'
  <2>1. t <= created
    BY DEF Numbered
  <2>2. \A u \in TaskId : u > created => status'[u] = status[u]
    <3>1. \A u \in TaskId : u # t => status'[u] = status[u]
      BY DEF TypeOK
    <3> QED
      BY <2>1, <3>1, BoundsAssumption DEF TypeOK, TaskId
  <2> QED
    BY <2>2 DEF Numbered
<1>3. FreshUntilStarted'
  BY DEF FreshUntilStarted, TypeOK, Numbered, CurrentTask, DecidedOutcome, Terminal
<1>4. CheckedIsFree'
  BY DEF CheckedIsFree, TypeOK, Numbered, CurrentTask, DecidedOutcome,
     HasRunningForRobot, Terminal
<1>5. OneRunningPerRobot'
  BY DEF OneRunningPerRobot, TypeOK, Numbered, CurrentTask, DecidedOutcome,
     CheckedIsFree, HasRunningForRobot, Terminal
<1>6. HandedOver'
  BY DEF HandedOver, TypeOK, CurrentTask, FreshUntilStarted, NoTask, TaskId
<1>7. Unannounced'
  <2>1. t # cur /\ t <= created /\ status[t] # "pending"
    BY DEF HandedOver, Numbered, FreshUntilStarted
  <2>2. \A u \in TaskId : u # t => emitted'[u] = emitted[u] /\ status'[u] = status[u]
    BY DEF TypeOK
  <2>3. status'[t] # "pending"
    BY <2>1 DEF TypeOK, Terminal
  <2>4. ~StoreFaults /\ pc = "report" => status'[cur] # "pending"
    BY <2>1, <2>2 DEF CurrentTask, Unannounced
  <2> SUFFICES ASSUME ~StoreFaults, NEW u \in TaskId,
                      \/ u > created \/ status'[u] = "pending" \/ u \in handlers'
                      \/ u = cur /\ pc # "engwrite"
               PROVE  emitted'[u] = <<>>
    BY <2>4 DEF Unannounced
  <2>5. u # t
    BY <2>1, <2>3 DEF TypeOK, TaskId
  <2> QED
    BY <2>2, <2>5 DEF Unannounced
<1>8. OneCompletionEvent'
  BY DEF OneCompletionEvent, TypeOK, Unannounced, CurrentTask, Terminal
<1>9. NoOverrunYet'
  BY DEF NoOverrunYet, TypeOK, Numbered, FreshUntilStarted, CurrentTask, HandedOver,
     DecidedOutcome, Terminal, TaskId, NoTask
<1>10. CurrentTask' /\ StopsLeft' /\ DecidedOutcome' /\ ZoneLockOwned' /\ CancelOverrun'
  BY DEF CurrentTask, StopsLeft, DecidedOutcome, ZoneLockOwned, CancelOverrun, NeedsZone
<1> QED
  BY <1>1, <1>2, <1>3, <1>4, <1>5, <1>6, <1>7, <1>8, <1>9, <1>10

-----------------------------------------------------------------------------
(* The process *)

(* SIGTERM only cancels the context.                                       *)
LEMMA ShutdownInv == ASSUME IndInv, Shutdown PROVE IndInv'
<1> USE DEF IndInv, Shutdown, storeVars, fleetVars, apiVars, runnerVars, observed
<1>1. TypeOK'
  BY BoundsAssumption DEF TypeOK, CurrentTask, StopsLeft, DecidedOutcome, TaskId,
     NoTask, Status, Terminal, PC, LocksTypeOK
<1>2. StopsLeft'
  BY DEF StopsLeft, TypeOK
<1>3. Numbered' /\ CurrentTask' /\ DecidedOutcome' /\ FreshUntilStarted' /\
      CheckedIsFree' /\ OneRunningPerRobot' /\ ZoneLockOwned' /\ HandedOver' /\
      Unannounced' /\ OneCompletionEvent' /\ NoOverrunYet' /\ CancelOverrun'
  BY DEF Numbered, CurrentTask, DecidedOutcome, FreshUntilStarted, CheckedIsFree,
     OneRunningPerRobot, ZoneLockOwned, HandedOver, Unannounced, OneCompletionEvent,
     NoOverrunYet, CancelOverrun, HasRunningForRobot, NeedsZone
<1> QED
  BY <1>1, <1>2, <1>3

(* The process ends between any two steps; locks and handlers go with it.  *)
LEMMA ExitInv == ASSUME IndInv, Exit PROVE IndInv'
<1> USE DEF IndInv, Exit, ToIdle, fleetVars, apiVars, observed
<1>1. TypeOK'
  <2>1. status' \in [TaskId -> Status]
    BY DEF TypeOK, CurrentTask, DecidedOutcome, Status, Terminal
  <2>2. creating' \subseteq Requests
    BY DEF TypeOK
  <2>3. cancelling' \subseteq TaskId
    BY DEF TypeOK
  <2>4. pc' \in PC
    BY DEF TypeOK, PC
  <2>5. cur' \in TaskId \cup {NoTask}
    BY DEF TypeOK, NoTask
  <2>6. step' \in Nat \ {0}
    BY DEF TypeOK
  <2>7. outcome' \in Terminal \cup {"none"}
    BY DEF TypeOK, Terminal
  <2>8. proc' \in {"up", "draining", "down"}
    BY DEF TypeOK
  <2>9. stops' \in 0..MaxStops
    BY BoundsAssumption DEF TypeOK, StopsLeft
  <2>10. handlers' \subseteq TaskId
    BY DEF TypeOK, CurrentTask
  <2>11. displaced' \subseteq handlers'
    BY DEF TypeOK
  <2>12. LocksTypeOK'
    BY RequestsAssumption DEF TypeOK, CurrentTask, LocksTypeOK, RequestType
  <2> QED
    BY <2>1, <2>2, <2>3, <2>4, <2>5, <2>6, <2>7, <2>8, <2>9, <2>10, <2>11, <2>12 DEF
       TypeOK, LocksTypeOK
<1>2. Numbered'
  <2>1. cur' \notin TaskId
    BY DEF TaskId, NoTask
  <2>2. \A t \in TaskId : t > created' => status'[t] = "none" /\ t \notin started'
    BY DEF Numbered, TypeOK
  <2>3. \A t \in cancelling' : t <= created'
    BY DEF Numbered, TypeOK
  <2> QED
    BY <2>1, <2>2, <2>3 DEF Numbered
<1>3. CurrentTask'
  BY DEF CurrentTask, TypeOK, Numbered, TaskId, NoTask
<1>4. StopsLeft'
  BY DEF StopsLeft, TypeOK
<1>5. DecidedOutcome'
  BY DEF DecidedOutcome, TypeOK, Terminal
<1>6. FreshUntilStarted'
  BY DEF FreshUntilStarted, TypeOK, Numbered, CurrentTask, DecidedOutcome, Terminal
<1>7. CheckedIsFree'
  BY DEF CheckedIsFree, TypeOK, Numbered, CurrentTask, DecidedOutcome,
     HasRunningForRobot, Terminal
<1>8. OneRunningPerRobot'
  BY DEF OneRunningPerRobot, TypeOK, Numbered, CurrentTask, DecidedOutcome,
     CheckedIsFree, HasRunningForRobot, Terminal
<1>9. ZoneLockOwned'
  BY RequestsAssumption, NoRobotAssumption DEF ZoneLockOwned, TypeOK, Numbered,
     CurrentTask, FreshUntilStarted, LocksTypeOK, NeedsZone, Executing, RequestType
<1>10. HandedOver'
  BY DEF HandedOver, TypeOK, CurrentTask, FreshUntilStarted, NoTask, TaskId
<1>11. Unannounced'
  BY DEF Unannounced, TypeOK, Numbered, CurrentTask, FreshUntilStarted, HandedOver,
     DecidedOutcome, Terminal, TaskId, NoTask
<1>12. NoOverrunYet'
  BY DEF NoOverrunYet, TypeOK, Numbered, FreshUntilStarted, CurrentTask, HandedOver,
     DecidedOutcome, Terminal, TaskId, NoTask
<1>13. OneCompletionEvent' /\ CancelOverrun'
  BY DEF OneCompletionEvent, CancelOverrun
<1> QED
  BY <1>1, <1>2, <1>3, <1>4, <1>5, <1>6, <1>7, <1>8, <1>9, <1>10, <1>11, <1>12, <1>13

(* Starting again repairs nothing and breaks nothing.                      *)
LEMMA RestartInv == ASSUME IndInv, Restart PROVE IndInv'
<1> USE DEF IndInv, Restart, storeVars, fleetVars, apiVars, runnerVars, observed
<1>1. TypeOK'
  BY BoundsAssumption DEF TypeOK, CurrentTask, StopsLeft, DecidedOutcome, TaskId,
     NoTask, Status, Terminal, PC, LocksTypeOK
<1>2. StopsLeft'
  BY DEF StopsLeft, TypeOK
<1>3. Numbered' /\ CurrentTask' /\ DecidedOutcome' /\ FreshUntilStarted' /\
      CheckedIsFree' /\ OneRunningPerRobot' /\ ZoneLockOwned' /\ HandedOver' /\
      Unannounced' /\ OneCompletionEvent' /\ NoOverrunYet' /\ CancelOverrun'
  BY DEF Numbered, CurrentTask, DecidedOutcome, FreshUntilStarted, CheckedIsFree,
     OneRunningPerRobot, ZoneLockOwned, HandedOver, Unannounced, OneCompletionEvent,
     NoOverrunYet, CancelOverrun, HasRunningForRobot, NeedsZone
<1> QED
  BY <1>1, <1>2, <1>3

-----------------------------------------------------------------------------
(* The initial state satisfies the invariant: no task exists and the       *)
(* runner is between two ticks.                                            *)
LEMMA InitInv == Init => IndInv
<1> SUFFICES ASSUME Init PROVE IndInv
  OBVIOUS
<1> USE DEF Init
<1>1. TypeOK
  <2>1. request \in [TaskId -> Requests]
    BY RequestsAssumption
  <2>2. stops \in 0..MaxStops /\ created \in 0..MaxTasks
    BY BoundsAssumption
  <2>3. LocksTypeOK
    BY DEF LocksInit, LocksTypeOK
  <2>4. emitted \in [TaskId -> Seq(Terminal)] /\ overrun \in [TaskId -> Nat]
    OBVIOUS
  <2>5. caps \in [Robots -> SUBSET {"walk", "stand"}]
    OBVIOUS
  <2> QED
    BY <2>1, <2>2, <2>3, <2>4, <2>5 DEF TypeOK, Status, PC
<1>2. Numbered /\ CurrentTask /\ StopsLeft /\ DecidedOutcome
  BY DEF Numbered, CurrentTask, StopsLeft, DecidedOutcome, TaskId, NoTask
<1>3. FreshUntilStarted /\ CheckedIsFree /\ OneRunningPerRobot
  BY DEF FreshUntilStarted, CheckedIsFree, OneRunningPerRobot
<1>4. ZoneLockOwned
  BY DEF ZoneLockOwned, LocksInit
<1>5. HandedOver /\ Unannounced /\ NoOverrunYet
  BY DEF HandedOver, Unannounced, NoOverrunYet
<1>6. OneCompletionEvent /\ CancelOverrun
  BY DEF OneCompletionEvent, CancelOverrun
<1> QED
  BY <1>1, <1>2, <1>3, <1>4, <1>5, <1>6 DEF IndInv

(* A step that changes nothing preserves the invariant.                    *)
LEMMA StutterInv == ASSUME IndInv, UNCHANGED vars PROVE IndInv'
BY DEF IndInv, vars, storeVars, fleetVars, apiVars, runnerVars, procVars, observed,
   TypeOK, Numbered, CurrentTask, StopsLeft, DecidedOutcome, FreshUntilStarted,
   CheckedIsFree, OneRunningPerRobot, ZoneLockOwned, HandedOver, Unannounced,
   OneCompletionEvent, NoOverrunYet, CancelOverrun, LocksTypeOK, HasRunningForRobot,
   NeedsZone

(* Every step of the task engine preserves the invariant.                  *)
LEMMA NextInv == ASSUME IndInv, [Next]_vars PROVE IndInv'
<1>1. CASE Fleet
  BY <1>1, VolatileAssumption, RegisterRobotInv, DeleteRobotInv, ToggleCustomScenarioInv
     DEF Fleet
<1>2. CASE Api
  BY <1>2, CreateTaskCheckInv, CreateTaskStoreInv, CancelTaskCheckInv,
     CancelTaskStoreInv DEF Api
<1>3. CASE RunnerStep
  BY <1>3, PickInv, IdleTickInv, RunReturnsInv, GiveUpInv, FindRobotInv,
     CheckScenarioInv, StartInv, DispatchMallInv, DispatchEngineInv, DispatchStepsInv,
     StepCheckInv, StepSendInv, StepHoldInv, StepsDoneInv, WriteOutcomeInv, ReportInv,
     EngineReportInv, EngineWriteInv DEF RunnerStep
<1>4. CASE Mall
  BY <1>4, MallCreateInv, MallFinishInv DEF Mall
<1>5. CASE Process
  BY <1>5, ShutdownInv, ExitInv, RestartInv DEF Process
<1>6. CASE UNCHANGED vars
  BY <1>6, StutterInv
<1> QED
  BY <1>1, <1>2, <1>3, <1>4, <1>5, <1>6 DEF Next

(* Every reachable state satisfies the inductive invariant.                *)
THEOREM Inductive == Spec => []IndInv
<1>1. Init => IndInv
  BY InitInv
<1>2. IndInv /\ [Next]_vars => IndInv'
  BY NextInv
<1> QED
  BY <1>1, <1>2, PTL DEF Spec

(* Every variable keeps its type: in particular the store only ever holds  *)
(* the statuses of types.go and the lock table only robots.                *)
THEOREM TypeCorrect == Spec => []TypeOK
<1>1. IndInv => TypeOK
  BY DEF IndInv
<1> QED
  BY <1>1, Inductive, PTL

(* runOne never gives a robot a second running task, with any number of    *)
(* clients, cancellations, mall handlers, lost writes and restarts.        *)
THEOREM OneRunning == Spec => []OneRunningPerRobot
<1>1. IndInv => OneRunningPerRobot
  BY DEF IndInv
<1> QED
  BY <1>1, Inductive, PTL

(* Zone locks are held exactly for the task in hand: the deferred          *)
(* ReleaseZone leaves none behind, and AcquireZone never fails.            *)
THEOREM ZoneLocks == Spec => []ZoneLockOwned
<1>1. IndInv => ZoneLockOwned
  BY DEF IndInv
<1> QED
  BY <1>1, Inductive, PTL

(* With a store that does not fail, each task is announced to webhook and  *)
(* stream clients at most once.                                            *)
THEOREM OneCompletion == Spec => []OneCompletionEvent
<1>1. IndInv => OneCompletionEvent
  BY DEF IndInv
<1> QED
  BY <1>1, Inductive, PTL

(* With a store that does not fail, a cancelled task is sent at most one   *)
(* more command.                                                           *)
THEOREM CancelBound == Spec => []CancelOverrun
<1>1. IndInv => CancelOverrun
  BY DEF IndInv
<1> QED
  BY <1>1, Inductive, PTL

(* The only step that writes "running" is Start, and FreshUntilStarted     *)
(* says that its task was never started before.                            *)
LEMMA OnlyStartStarts ==
    ASSUME IndInv, [Next]_vars, NEW t \in TaskId,
           status[t] # "running", status'[t] = "running"
    PROVE  t \notin started
<1> USE DEF IndInv, TypeOK
<1>1. CASE Fleet
  BY <1>1 DEF Fleet, RegisterRobot, DeleteRobot, ToggleCustomScenario, storeVars
<1>2. CASE Api
  BY <1>2 DEF Api, CreateTaskCheck, CreateTaskStore, CancelTaskCheck, CancelTaskStore,
     Create, SetStatus, storeVars, TaskId
<1>3. CASE RunnerStep
  <2>1. CASE Start
    BY <2>1 DEF Start, SetStatus, RunnerAt, FreshUntilStarted
  <2>2. CASE WriteOutcome \/ EngineWrite
    BY <2>2 DEF WriteOutcome, EngineWrite, UpdateStatusAndCompletedAt, SetStatus,
       RunnerAt, DecidedOutcome, Terminal
  <2>3. CASE DispatchMall \/ DispatchSteps \/ StepSend \/ Report \/ IdleTick
             \/ \E o \in Terminal : EngineReport(o)
    BY <2>3 DEF DispatchMall, DispatchSteps, StepSend, Report, IdleTick, EngineReport,
       storeVars, vars
  <2>4. CASE OnlyRunner
    BY <2>4 DEF OnlyRunner, storeVars
  <2>5. (\E u \in TaskId : Pick(u)) \/ RunReturns \/ GiveUp \/ FindRobot
        \/ CheckScenario \/ DispatchEngine \/ StepCheck \/ StepHold \/ StepsDone => OnlyRunner
    BY DEF Pick, RunReturns, GiveUp, FindRobot, CheckScenario, DispatchEngine, StepCheck,
       StepHold,
       StepsDone
  <2> QED
    BY <1>3, <2>1, <2>2, <2>3, <2>4, <2>5 DEF RunnerStep
<1>4. CASE Mall
  BY <1>4 DEF Mall, MallCreate, MallFinish, Create, UpdateStatusAndCompletedAt, SetStatus,
     Terminal, TaskId
<1>5. CASE Process
  BY <1>5 DEF Process, Shutdown, Exit, Restart, storeVars
<1>6. CASE UNCHANGED vars
  BY <1>6 DEF vars, storeVars
<1> QED
  BY <1>1, <1>2, <1>3, <1>4, <1>5, <1>6 DEF Next

(* No task is ever executed a second time.                                 *)
THEOREM StartsOnce == Spec => StartOnce
<1>1. IndInv /\ [Next]_vars =>
        [\A t \in TaskId :
           status[t] # "running" /\ status'[t] = "running" => t \notin started]_vars
  BY OnlyStartStarts
<1> QED
  BY <1>1, Inductive, PTL DEF Spec, StartOnce

-----------------------------------------------------------------------------
(* How a task ends.  While no store call fails and the process has not     *)
(* stopped: what the runner is about to announce is stored, and what the   *)
(* engine is about to store is announced.                                  *)

Calm == ~StoreFaults /\ stops = 0

Settled ==
    Calm => /\ pc = "report" => status[cur] \in {outcome, "cancelled"}
            /\ pc = "engwrite" => emitted[cur] = <<outcome>>

EndInv == RunningHasExecutor /\ AnnouncedIsStored /\ Settled

(* What of IndInv these proofs use.                                        *)
LEMMA EndFacts ==
    ASSUME IndInv
    PROVE  /\ status \in [TaskId -> Status] /\ emitted \in [TaskId -> Seq(Terminal)]
           /\ created \in Nat /\ stops \in Nat /\ outcome \in Terminal \cup {"none"}
           /\ cur \in TaskId \cup {NoTask} /\ NoTask \notin TaskId /\ handlers \subseteq TaskId
           /\ pc \notin {"idle", "stopped"} <=> cur \in TaskId
           /\ cur \notin handlers
           /\ pc \in {"finish", "report", "engwrite"} => outcome \in Terminal
           /\ pc \in {"picked", "found", "checked"} => status[cur] # "running"
           /\ ~StoreFaults => \A t \in TaskId : \/ t > created \/ t \in handlers
                                                \/ t = cur /\ pc # "engwrite"
                                                => emitted[t] = <<>>
<1>1. /\ status \in [TaskId -> Status] /\ emitted \in [TaskId -> Seq(Terminal)]
      /\ created \in Nat /\ stops \in Nat /\ outcome \in Terminal \cup {"none"}
      /\ cur \in TaskId \cup {NoTask} /\ NoTask \notin TaskId /\ handlers \subseteq TaskId
  BY BoundsAssumption DEF IndInv, TypeOK, TaskId, NoTask
<1>2. pc \notin {"idle", "stopped"} <=> cur \in TaskId
  BY DEF IndInv, CurrentTask
<1>3. /\ cur \notin handlers
      /\ pc \in {"finish", "report", "engwrite"} => outcome \in Terminal
  BY DEF IndInv, HandedOver, DecidedOutcome
<1>4. pc \in {"picked", "found", "checked"} => status[cur] # "running"
  BY <1>2 DEF IndInv, FreshUntilStarted
<1>5. ~StoreFaults => \A t \in TaskId : \/ t > created \/ t \in handlers
                                        \/ t = cur /\ pc # "engwrite"
                                        => emitted[t] = <<>>
  BY DEF IndInv, Unannounced
<1>6. QED
  BY <1>1, <1>2, <1>3, <1>4, <1>5

(* A step that neither writes a status nor announces anything, and leaves  *)
(* no running task without an executor.                                    *)
LEMMA EndMoves ==
    ASSUME IndInv, EndInv, UNCHANGED <<status, emitted, stops>>,
           pc' \notin {"report", "engwrite"}, pc # "engwrite",
           \A t \in TaskId : status[t] = "running" /\ (t = cur \/ t \in handlers)
                                => t = cur' \/ t \in handlers'
    PROVE  EndInv'
BY DEF EndInv, RunningHasExecutor, AnnouncedIsStored, Settled, Calm

(* A step that concerns none of it.                                        *)
LEMMA EndStill ==
    ASSUME EndInv, UNCHANGED <<status, emitted, stops, pc, cur, outcome, handlers>>
    PROVE  EndInv'
BY DEF EndInv, RunningHasExecutor, AnnouncedIsStored, Settled, Calm

(* A new task is pending and unannounced.                                  *)
LEMMA EndCreate ==
    ASSUME IndInv, EndInv, NEW q, Create(q),
           UNCHANGED <<emitted, stops, pc, cur, outcome, handlers>>
    PROVE  EndInv'
<1>1. /\ created < MaxTasks /\ created + 1 \in TaskId /\ created + 1 > created
      /\ status' = [status EXCEPT ![created + 1] = "pending"]
  BY EndFacts, BoundsAssumption DEF Create, TaskId
<1>2. /\ status'[created + 1] = "pending"
      /\ \A t \in TaskId \ {created + 1} : status'[t] = status[t]
  BY <1>1, EndFacts
<1>3. cur # created + 1
  BY <1>1, EndFacts DEF IndInv, Numbered
<1>4. ~StoreFaults => emitted[created + 1] = <<>>
  BY <1>1, EndFacts
<1>5. RunningHasExecutor' /\ AnnouncedIsStored'
  BY <1>2, <1>4 DEF EndInv, RunningHasExecutor, AnnouncedIsStored
<1>6. Settled'
  BY <1>2, <1>3, EndFacts DEF EndInv, Settled, Calm
<1>7. QED
  BY <1>5, <1>6 DEF EndInv

(* cancelTask's write, whatever the task is doing.                         *)
LEMMA EndCancel ==
    ASSUME IndInv, EndInv, NEW t \in TaskId, CancelTaskStore(t)
    PROVE  EndInv'
<1>1. /\ status'[t] = "cancelled" /\ \A u \in TaskId \ {t} : status'[u] = status[u]
      /\ UNCHANGED <<emitted, stops, pc, cur, outcome, handlers>>
  BY EndFacts DEF CancelTaskStore, SetStatus, runnerVars, procVars
<1>2. RunningHasExecutor' /\ AnnouncedIsStored'
  BY <1>1 DEF EndInv, RunningHasExecutor, AnnouncedIsStored
<1>3. Settled'
  BY <1>1, EndFacts DEF EndInv, Settled, Calm
<1>4. QED
  BY <1>2, <1>3 DEF EndInv

(* Start: the task was not announced, and is the runner's own.             *)
LEMMA EndStart ==
    ASSUME IndInv, EndInv, Start
    PROVE  EndInv'
<1>1. cur \in TaskId /\ pc = "checked" /\ UNCHANGED <<emitted, stops, handlers>>
  BY EndFacts DEF Start, RunnerAt, procVars
<1>2. CASE SetStatus(cur, "running") /\ pc' = "started" /\ UNCHANGED cur
  <2>1. status'[cur] = "running" /\ \A u \in TaskId \ {cur} : status'[u] = status[u]
    BY <1>1, <1>2, EndFacts DEF SetStatus
  <2>2. ~StoreFaults => emitted[cur] = <<>>
    BY <1>1, EndFacts
  <2>3. RunningHasExecutor' /\ AnnouncedIsStored'
    BY <1>1, <1>2, <2>1, <2>2 DEF EndInv, RunningHasExecutor, AnnouncedIsStored
  <2>4. Settled'
    BY <1>2 DEF Settled
  <2>5. QED
    BY <2>3, <2>4 DEF EndInv
<1>3. CASE StoreFaults
  BY <1>3 DEF EndInv, RunningHasExecutor, AnnouncedIsStored, Settled, Calm
<1>4. QED
  BY <1>2, <1>3 DEF Start

(* The outcome is stored, then announced.                                  *)
LEMMA EndOutcome ==
    ASSUME IndInv, EndInv, WriteOutcome \/ Report
    PROVE  EndInv'
<1>1. /\ cur \in TaskId /\ outcome \in Terminal /\ UNCHANGED <<stops, handlers>>
      /\ ~StoreFaults => emitted[cur] = <<>>
  BY EndFacts DEF WriteOutcome, Report, RunnerAt, procVars
<1>2. CASE StoreFaults
  BY <1>2 DEF EndInv, RunningHasExecutor, AnnouncedIsStored, Settled, Calm
<1>3. CASE ~StoreFaults /\ WriteOutcome
  <2>1. /\ status'[cur] = outcome /\ \A u \in TaskId \ {cur} : status'[u] = status[u]
        /\ UNCHANGED <<emitted, cur, outcome>> /\ pc' = "report"
    BY <1>1, <1>3, EndFacts DEF WriteOutcome, UpdateStatusAndCompletedAt, SetStatus, observed
  <2>2. RunningHasExecutor' /\ AnnouncedIsStored'
    BY <1>1, <1>3, <2>1 DEF EndInv, RunningHasExecutor, AnnouncedIsStored, WriteOutcome, RunnerAt
  <2>3. Settled'
    BY <2>1 DEF Settled
  <2>4. QED
    BY <2>2, <2>3 DEF EndInv
<1>4. CASE ~StoreFaults /\ Report
  <2>1. /\ UNCHANGED status /\ pc = "report" /\ pc' = "idle" /\ cur' = NoTask
        /\ emitted' = [emitted EXCEPT ![cur] = Append(@, outcome)]
    BY <1>4 DEF Report, RunnerAt, ToIdle, storeVars
  <2>2. emitted'[cur] = <<outcome>> /\ \A u \in TaskId \ {cur} : emitted'[u] = emitted[u]
    <3>1. Append(<<>>, outcome) = <<outcome>>
      OBVIOUS
    <3>2. QED
      BY <1>1, <1>4, <2>1, <3>1, EndFacts
  <2>3. Head(<<outcome>>) = outcome
    OBVIOUS
  <2>4. Calm => status[cur] \in {outcome, "cancelled"} /\ status[cur] # "running"
    BY <1>1, <2>1 DEF EndInv, Settled, Terminal
  <2>5. RunningHasExecutor'
    BY <1>1, <2>1, <2>4 DEF EndInv, RunningHasExecutor, Calm
  <2>6. AnnouncedIsStored'
    BY <1>1, <2>1, <2>2, <2>3, <2>4 DEF EndInv, AnnouncedIsStored, Calm
  <2>7. Settled'
    BY <2>1 DEF Settled
  <2>8. QED
    BY <2>5, <2>6, <2>7 DEF EndInv
<1>5. QED
  BY <1>2, <1>3, <1>4

(* The engine announces, then stores.                                      *)
LEMMA EndEngine ==
    ASSUME IndInv, EndInv, EngineWrite \/ \E o \in Terminal : EngineReport(o)
    PROVE  EndInv'
<1>1. cur \in TaskId /\ UNCHANGED <<stops, handlers>>
  BY EndFacts DEF EngineWrite, EngineReport, RunnerAt, procVars
<1>2. CASE StoreFaults
  BY <1>2 DEF EndInv, RunningHasExecutor, AnnouncedIsStored, Settled, Calm
<1>3. ASSUME ~StoreFaults, NEW o \in Terminal, EngineReport(o) PROVE EndInv'
  <2>1. /\ UNCHANGED <<status, cur>> /\ pc = "engine" /\ pc' = "engwrite" /\ outcome' = o
        /\ emitted' = [emitted EXCEPT ![cur] = Append(@, o)] /\ emitted[cur] = <<>>
    BY <1>1, <1>3, EndFacts DEF EngineReport, RunnerAt, storeVars
  <2>2. emitted'[cur] = <<o>> /\ \A u \in TaskId \ {cur} : emitted'[u] = emitted[u]
    <3>1. Append(<<>>, o) = <<o>>
      OBVIOUS
    <3>2. QED
      BY <1>1, <2>1, <3>1, EndFacts
  <2>3. RunningHasExecutor' /\ AnnouncedIsStored'
    BY <1>1, <2>1, <2>2 DEF EndInv, RunningHasExecutor, AnnouncedIsStored
  <2>4. Settled'
    BY <2>1, <2>2 DEF Settled
  <2>5. QED
    BY <2>3, <2>4 DEF EndInv
<1>4. CASE ~StoreFaults /\ EngineWrite
  <2>1. /\ status'[cur] = outcome /\ \A u \in TaskId \ {cur} : status'[u] = status[u]
        /\ UNCHANGED emitted /\ pc = "engwrite" /\ pc' = "idle" /\ cur' = NoTask
        /\ outcome \in Terminal
    BY <1>1, <1>4, EndFacts
       DEF EngineWrite, UpdateStatusAndCompletedAt, SetStatus, RunnerAt, ToIdle, observed
  <2>2. Calm => Head(emitted[cur]) = outcome
    <3>1. Head(<<outcome>>) = outcome
      OBVIOUS
    <3>2. QED
      BY <2>1, <3>1 DEF EndInv, Settled
  <2>3. RunningHasExecutor'
    BY <1>1, <2>1 DEF EndInv, RunningHasExecutor, Terminal
  <2>4. AnnouncedIsStored'
    BY <1>1, <2>1, <2>2 DEF EndInv, AnnouncedIsStored, Calm
  <2>5. Settled'
    BY <2>1 DEF Settled
  <2>6. QED
    BY <2>3, <2>4, <2>5 DEF EndInv
<1>5. QED
  BY <1>2, <1>3, <1>4

(* A mall handler stores and announces the end of a task of its own.       *)
LEMMA EndMall ==
    ASSUME IndInv, EndInv, NEW t \in TaskId, NEW o \in Terminal, MallFinish(t, o)
    PROVE  EndInv'
<1>1. CASE StoreFaults
  BY <1>1 DEF EndInv, RunningHasExecutor, AnnouncedIsStored, Settled, Calm
<1>2. CASE ~StoreFaults
  <2>1. /\ t \in handlers /\ t # cur /\ emitted[t] = <<>>
        /\ UNCHANGED <<stops, pc, cur, outcome>> /\ handlers' = handlers \ {t}
        /\ emitted' = [emitted EXCEPT ![t] = Append(@, o)]
    BY <1>2, EndFacts DEF MallFinish, runnerVars
  <2>2. status'[t] = o /\ \A u \in TaskId \ {t} : status'[u] = status[u]
    BY <1>2, EndFacts DEF MallFinish, UpdateStatusAndCompletedAt, SetStatus
  <2>3. emitted'[t] = <<o>> /\ \A u \in TaskId \ {t} : emitted'[u] = emitted[u]
    <3>1. Append(<<>>, o) = <<o>>
      OBVIOUS
    <3>2. QED
      BY <2>1, <3>1, EndFacts
  <2>4. Head(<<o>>) = o
    OBVIOUS
  <2>5. RunningHasExecutor'
    BY <2>1, <2>2 DEF EndInv, RunningHasExecutor, Terminal
  <2>6. AnnouncedIsStored'
    BY <2>1, <2>2, <2>3, <2>4 DEF EndInv, AnnouncedIsStored
  <2>7. Settled'
    BY <2>1, <2>2, <2>3, EndFacts DEF EndInv, Settled, Calm
  <2>8. QED
    BY <2>5, <2>6, <2>7 DEF EndInv
<1>3. QED
  BY <1>1, <1>2

(* Every step keeps EndInv.                                                *)
LEMMA EndNext ==
    ASSUME IndInv, EndInv, [Next]_vars
    PROVE  EndInv'
<1>1. CASE Fleet
  BY <1>1, EndStill DEF Fleet, RegisterRobot, DeleteRobot, ToggleCustomScenario, storeVars,
                        runnerVars, procVars, observed
<1>2. CASE Api
  <2>1. ASSUME NEW q \in Requests, CreateTaskCheck(q) PROVE EndInv'
    BY <2>1, EndStill DEF CreateTaskCheck, storeVars, runnerVars, procVars, observed
  <2>2. ASSUME NEW q \in Requests, CreateTaskStore(q) PROVE EndInv'
    BY <2>2, EndCreate DEF CreateTaskStore, runnerVars, procVars, observed
  <2>3. ASSUME NEW t \in TaskId, CancelTaskCheck(t) PROVE EndInv'
    BY <2>3, EndStill DEF CancelTaskCheck, storeVars, runnerVars, procVars, observed
  <2>4. QED
    BY <1>2, <2>1, <2>2, <2>3, EndCancel DEF Api
<1>3. CASE RunnerStep
  <2> USE DEF OnlyRunner, RunnerAt, storeVars, procVars, observed
  <2>1. ASSUME NEW t \in TaskId, Pick(t) PROVE EndInv'
    <3>1. cur \notin TaskId
      BY <2>1, EndFacts DEF Pick
    <3>2. QED
      BY <2>1, <3>1, EndMoves DEF Pick
  <2>2. CASE IdleTick
    BY <2>2, EndStill DEF IdleTick, vars, runnerVars
  <2>3. CASE RunReturns
    BY <2>3, EndMoves DEF RunReturns
  <2>4. CASE GiveUp
    BY <2>4, EndFacts, EndMoves DEF GiveUp, ToIdle
  <2>5. CASE FindRobot
    BY <2>5, EndMoves DEF FindRobot
  <2>6. CASE CheckScenario
    BY <2>6, EndMoves DEF CheckScenario, Decide
  <2>7. CASE DispatchMall
    BY <2>7, EndMoves DEF DispatchMall, ToIdle
  <2>8. CASE DispatchEngine
    BY <2>8, EndMoves DEF DispatchEngine
  <2>9. CASE DispatchSteps
    <3>1. /\ pc = "started" /\ pc' \in {"step", "finish"}
          /\ UNCHANGED <<cur, storeVars, procVars, observed>>
      BY <2>9 DEF DispatchSteps, Decide
    <3>2. QED
      BY <3>1, EndMoves
  <2>10. CASE StepCheck
    BY <2>10, EndMoves DEF StepCheck, Decide
  <2>11. CASE StepSend
    <3>1. /\ pc = "send" /\ pc' \in {"step", "hold", "finish"}
          /\ UNCHANGED <<cur, storeVars, procVars, emitted>>
      BY <2>11 DEF StepSend, Decide, NextStep
    <3>2. QED
      BY <3>1, EndMoves
  <2>12. CASE StepHold
    BY <2>12, EndMoves DEF StepHold, Decide, NextStep
  <2>13. CASE StepsDone
    BY <2>13, EndMoves DEF StepsDone, Decide
  <2>14. QED
    BY <1>3, <2>1, <2>2, <2>3, <2>4, <2>5, <2>6, <2>7, <2>8, <2>9, <2>10, <2>11, <2>12, <2>13,
       EndStart, EndOutcome, EndEngine DEF RunnerStep
<1>4. CASE Mall
  <2>1. ASSUME NEW t \in TaskId, NEW q \in Requests, MallCreate(t, q) PROVE EndInv'
    BY <2>1, EndCreate DEF MallCreate, runnerVars, procVars, observed
  <2>2. QED
    BY <1>4, <2>1, EndMall DEF Mall
<1>5. CASE Process
  <2>1. CASE Shutdown \/ Restart
    BY <2>1, EndStill DEF Shutdown, Restart, storeVars, runnerVars, observed
  <2>2. CASE Exit
    <3>1. stops' # 0
      BY <2>2, EndFacts DEF Exit
    <3>2. QED
      BY <3>1 DEF EndInv, RunningHasExecutor, AnnouncedIsStored, Settled, Calm
  <2>3. QED
    BY <1>5, <2>1, <2>2 DEF Process
<1>6. CASE UNCHANGED vars
  BY <1>6, EndStill DEF vars, storeVars, runnerVars, procVars, observed
<1>7. QED
  BY <1>1, <1>2, <1>3, <1>4, <1>5, <1>6 DEF Next

(* At first nothing runs and nothing is announced.                         *)
LEMMA InitEnd == Init => EndInv
BY DEF Init, EndInv, RunningHasExecutor, AnnouncedIsStored, Settled

(* EndInv holds of every behaviour of the task engine.                     *)
THEOREM EndsWell == Spec => []EndInv
<1>1. IndInv /\ EndInv /\ [Next]_vars => EndInv'
  BY EndNext
<1>2. QED
  BY <1>1, InitEnd, Inductive, PTL DEF Spec

(* Without store errors and stops, a task stored as running is executed by *)
(* the runner, the engine or a mall handler: runOne has no path that drops *)
(* one.                                                                    *)
THEOREM RunningIsExecuted == Spec => []RunningHasExecutor
<1>1. EndInv => RunningHasExecutor
  BY DEF EndInv
<1>2. QED
  BY <1>1, EndsWell, PTL

(* Without store errors and stops, what emitTaskCompleted announced is     *)
(* what the store then says, or a late cancelTask overwrote it.            *)
THEOREM AnnouncedStays == Spec => []AnnouncedIsStored
<1>1. EndInv => AnnouncedIsStored
  BY DEF EndInv
<1>2. QED
  BY <1>1, EndsWell, PTL

==============================================================================
