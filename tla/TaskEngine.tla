----------------------------- MODULE TaskEngine ------------------------------
(***************************************************************************)
(* The task engine of the control plane: the task store, the API handlers  *)
(* createTask and cancelTask that write to it, and the Task Runner         *)
(* (pkg/control-plane/tasks/runner.go) that executes pending tasks one at  *)
(* a time.  Every store call is one atomic step; what the code does        *)
(* between two store calls is not, so API requests interleave with the     *)
(* runner wherever the code lets them.                                     *)
(*                                                                         *)
(* Two kinds of task are handed on.  mall_assistant tasks go to a          *)
(* goroutine of their own, navigation tasks with coordinates to the        *)
(* execution engine, which blocks the runner.  Both are kept here to what  *)
(* they do to the task store; their inside is in modules of their own.     *)
(***************************************************************************)
EXTENDS Integers, FiniteSets, ScenarioCatalog, Coordinator

CONSTANTS
    NoZone,       \* the payload names no zone
    Requests,     \* the createTask requests clients make
    Volatile,     \* bound: robots whose registration operators change
    MaxTasks,     \* bound: tasks created in one behaviour
    MaxStops,     \* bound: times the runner's process stops
    CanCrash,     \* whether it may also stop without a signal
    Persistent,   \* TRUE: SQLStore, FALSE: MemoryStore
    StoreFaults,  \* whether store calls of the runner may return an error
    Embedded      \* TRUE: runner in the control plane, FALSE: cmd/workforce

RequestType == [robot : Robots, scenario : Scenarios, zone : Zones \cup {NoZone},
                payloadOk : BOOLEAN, target : BOOLEAN]

ASSUME RequestsAssumption == Requests \subseteq RequestType /\ Requests # {}
ASSUME VolatileAssumption == Volatile \subseteq Robots
ASSUME NoZoneAssumption == NoZone \notin Zones
ASSUME BoundsAssumption == MaxTasks \in Nat /\ MaxStops \in Nat
ASSUME FlagsAssumption ==
    /\ {CanCrash, Persistent, StoreFaults, Embedded} \subseteq BOOLEAN
    /\ Embedded \/ Persistent  \* cmd/workforce refuses to start without a database

TaskId == 1..MaxTasks
NoTask == 0

Terminal == {"completed", "failed", "cancelled"}
Status   == {"none", "pending", "running"} \cup Terminal

(* Where runOne is:                                                        *)
(*   idle      between two ticks          step    top of the step loop     *)
(*   picked    List returned the task     send    step passed the checks   *)
(*   found     its robot is known, free   hold    waiting out a duration   *)
(*   checked   all checks passed          finish  outcome decided          *)
(*   started   status written "running"   report  outcome written          *)
(*   engine    in ExecuteTaskEntry        stopped Run returned             *)
(*   engwrite  outcome announced                                           *)
PC == {"idle", "picked", "found", "checked", "started", "engine", "engwrite", "step", "send",
       "hold", "finish", "report", "stopped"}

VARIABLES
    \* the task store
    status,     \* status[t]; "none" when there is no such task
    request,    \* request[t]: the robot, scenario and payload of task t
    created,    \* tasks are numbered in the order Create ran; this is the last
    \* the fleet and the catalogue, as the task engine reads them
    registered, \* robots in the registry
    caps,       \* caps[r]: capabilities of r that scenarios ask for
    custom,     \* whether the custom scenario is in the catalogue
    \* API requests between their check and their write
    creating,   \* createTask requests that found no running task
    cancelling, \* tasks whose cancelTask read a cancellable status
    \* the process that runs the Task Runner
    proc,       \* "up", "draining" (context cancelled) or "down"
    stops,      \* how often it stopped
    pc, cur, step, outcome, \* the runner's goroutine
    handlers,   \* mall_assistant tasks with a live handler goroutine
    displaced,  \* those whose visitor channel another handler may have closed
    \* what others see
    emitted,    \* emitted[t]: task_completed events for t, in order
    started,    \* tasks ever set to running
    overrun,    \* commands published for t while the store said cancelled
    acked,      \* tasks whose cancellation was acknowledged while running
    halted      \* tasks whose execution ended with a safe_stop

storeVars   == <<status, request, created>>
fleetVars   == <<registered, caps, custom>>
apiVars     == <<creating, cancelling>>
runnerVars  == <<pc, cur, step, outcome>>
procVars    == <<proc, stops, handlers, displaced>>
observed    == <<emitted, started, overrun, acked, halted>>
vars == <<storeVars, fleetVars, apiVars, runnerVars, procVars, observed, locks>>

-----------------------------------------------------------------------------
(* The task store *)

HasRunningForRobot(r) ==
    \E t \in TaskId : status[t] = "running" /\ request[t].robot = r

SetStatus(t, s) == status' = [status EXCEPT ![t] = s]

(* UpdateStatusAndCompletedAt: the callers drop its error, so under        *)
(* StoreFaults the write may be lost and nobody learns of it.              *)
UpdateStatusAndCompletedAt(t, s) ==
    \/ SetStatus(t, s)
    \/ StoreFaults /\ UNCHANGED status

(* Create stores the task as pending under a fresh identifier.             *)
Create(q) ==
    /\ created < MaxTasks
    /\ created' = created + 1
    /\ status' = [status EXCEPT ![created + 1] = "pending"]
    /\ request' = [request EXCEPT ![created + 1] = q]

(* Faulty variant: List without the status filter.                         *)
FirstPendingUnfiltered(t) == status[t] # "none"

(* pending[0] of List: the newest task from SQLStore (ORDER BY created_at  *)
(* DESC), an arbitrary one from MemoryStore (map iteration).               *)
FirstPending(t) ==
    /\ status[t] = "pending"
    /\ Persistent => \A u \in TaskId : status[u] = "pending" => u <= t

-----------------------------------------------------------------------------
(* Fleet and catalogue *)

RegisterRobot(r, c) ==
    /\ registered' = registered \cup {r}
    /\ caps' = [caps EXCEPT ![r] = c]
    /\ UNCHANGED <<storeVars, custom, apiVars, runnerVars, procVars, observed, locks>>

DeleteRobot(r) ==
    /\ r \in registered
    /\ registered' = registered \ {r}
    /\ caps' = [caps EXCEPT ![r] = {}]
    /\ UNCHANGED <<storeVars, custom, apiVars, runnerVars, procVars, observed, locks>>

ToggleCustomScenario ==
    /\ \E q \in Requests : q.scenario = "custom"
    /\ custom' = ~custom
    /\ UNCHANGED <<storeVars, registered, caps, apiVars, runnerVars, procVars, observed,
                   locks>>

KnownScenario(s) == s \in Builtin \/ custom

(* hal.HasCapability is true of a robot that is not (or no longer) there.  *)
HasCapability(r, s) == r \in registered => RequiredCapabilities[s] \subseteq caps[r]

-----------------------------------------------------------------------------
(* API handlers: each reads the store, decides, and writes later.          *)

CreateTaskCheck(q) ==
    /\ q.robot \in registered
    /\ KnownScenario(q.scenario)
    /\ HasCapability(q.robot, q.scenario)
    /\ ~HasRunningForRobot(q.robot)
    /\ created + Cardinality(creating) < MaxTasks
    /\ creating' = creating \cup {q}
    /\ UNCHANGED <<storeVars, fleetVars, cancelling, runnerVars, procVars, observed, locks>>

CreateTaskStore(q) ==
    /\ q \in creating
    /\ Create(q)
    /\ creating' = creating \ {q}
    /\ UNCHANGED <<fleetVars, cancelling, runnerVars, procVars, observed, locks>>

CancelTaskCheck(t) ==
    /\ status[t] \in {"pending", "running"}
    /\ cancelling' = cancelling \cup {t}
    /\ UNCHANGED <<storeVars, fleetVars, creating, runnerVars, procVars, observed, locks>>

(* Faulty variant: a status outside the enumeration.                       *)
CancelTaskStoreMisspelt(t) ==
    /\ t \in cancelling
    /\ SetStatus(t, "canceled")
    /\ cancelling' = cancelling \ {t}
    /\ UNCHANGED <<request, created, fleetVars, creating, runnerVars, procVars, observed,
                   locks>>

(* The write does not look at the status again.                            *)
CancelTaskStore(t) ==
    /\ t \in cancelling
    /\ SetStatus(t, "cancelled")
    /\ cancelling' = cancelling \ {t}
    /\ acked' = IF status[t] = "running" THEN acked \cup {t} ELSE acked
    /\ UNCHANGED <<request, created, fleetVars, creating, runnerVars, procVars, emitted,
                   started, overrun, halted, locks>>

-----------------------------------------------------------------------------
(* The Task Runner *)

(* The other variables of a runner step that only moves its own state.     *)
OnlyRunner == UNCHANGED <<storeVars, fleetVars, apiVars, procVars, observed, locks>>

RunnerAt(l) == pc = l /\ proc # "down"

Decide(o) ==
    /\ pc' = "finish"
    /\ outcome' = o

(* A tick: List, and the first pending task.  select picks at random when  *)
(* both the ticker and ctx.Done() are ready, so a draining process may     *)
(* still start one.                                                        *)
Pick(t) ==
    /\ RunnerAt("idle")
    /\ FirstPending(t)
    /\ pc' = "picked"
    /\ cur' = t
    /\ UNCHANGED <<step, outcome>>
    /\ OnlyRunner

(* A tick that finds no pending task.                                      *)
IdleTick ==
    /\ RunnerAt("idle")
    /\ \A t \in TaskId : status[t] # "pending"
    /\ UNCHANGED vars

RunReturns ==
    /\ RunnerAt("idle")
    /\ proc = "draining"
    /\ pc' = "stopped"
    /\ UNCHANGED <<cur, step, outcome>>
    /\ OnlyRunner

ToIdle ==
    /\ pc' = "idle"
    /\ cur' = NoTask
    /\ step' = 1
    /\ outcome' = "none"

(* runOne gives the tick up: the robot is busy or unknown, or a store read *)
(* failed.  The task stays pending and stays first.                        *)
GiveUp ==
    /\ RunnerAt("picked")
    /\ \/ HasRunningForRobot(request[cur].robot)
       \/ request[cur].robot \notin registered
       \/ StoreFaults
    /\ ToIdle
    /\ OnlyRunner

(* Faulty variant: runOne does not ask whether the robot is busy.          *)
FindRobotBusy ==
    /\ RunnerAt("picked")
    /\ request[cur].robot \in registered
    /\ pc' = "found"
    /\ UNCHANGED <<cur, step, outcome>>
    /\ OnlyRunner

FindRobot ==
    /\ RunnerAt("picked")
    /\ ~HasRunningForRobot(request[cur].robot)
    /\ request[cur].robot \in registered
    /\ pc' = "found"
    /\ UNCHANGED <<cur, step, outcome>>
    /\ OnlyRunner

(* The catalogue, and the robot's capabilities from a second look into the *)
(* registry.                                                               *)
CheckScenario ==
    LET q == request[cur]
        fits == KnownScenario(q.scenario) /\ HasCapability(q.robot, q.scenario)
    IN
    /\ RunnerAt("found")
    /\ \/ fits /\ pc' = "checked" /\ UNCHANGED outcome
       \/ ~fits /\ Decide("failed")
    /\ UNCHANGED <<cur, step>>
    /\ OnlyRunner

(* UpdateStatus(running), whatever the status has become since List.       *)
Start ==
    /\ RunnerAt("checked")
    /\ \/ /\ SetStatus(cur, "running")
          /\ started' = started \cup {cur}
          /\ pc' = "started"
          /\ UNCHANGED <<cur, step, outcome>>
       \/ /\ StoreFaults
          /\ ToIdle
          /\ UNCHANGED <<status, started>>
    /\ UNCHANGED <<request, created, fleetVars, apiVars, procVars, emitted, overrun, acked,
                   halted, locks>>

EngineTask(q) ==
    \/ q.scenario = "navigate_to_store"
    \/ q.scenario = "navigation" /\ q.target

HandOver(q) == Embedded /\ (q.scenario = "mall_assistant" \/ EngineTask(q))

NeedsZone(q) == q.zone # NoZone /\ q.scenario \in {"patrol", "navigation"}

(* Faulty variant: no return after the handler's goroutine is started.     *)
DispatchMallFallsThrough ==
    /\ RunnerAt("started")
    /\ request[cur].scenario = "mall_assistant"
    /\ handlers' = handlers \cup {cur}
    /\ pc' = "step"
    /\ UNCHANGED <<cur, step, outcome>>
    /\ UNCHANGED <<storeVars, fleetVars, apiVars, proc, stops, displaced, observed, locks>>

(* The goroutine registers a visitor channel for its robot, closing the    *)
(* one another handler has there, and closes whatever is registered when   *)
(* it ends, which is after it wrote its outcome; so each handler of a      *)
(* robot may lose its channel to the earlier ones and they to it.          *)
(* (MallAssistant has the detail.)                                         *)
DispatchMall ==
    LET rivals == {t \in started \ {cur} : /\ request[t].scenario = "mall_assistant"
                                           /\ request[t].robot = request[cur].robot}
    IN
    /\ RunnerAt("started")
    /\ HandOver(request[cur])
    /\ request[cur].scenario = "mall_assistant"
    /\ handlers' = handlers \cup {cur}
    /\ displaced' = IF rivals = {} THEN displaced
                     ELSE displaced \cup (rivals \cap handlers) \cup {cur}
    /\ ToIdle
    /\ UNCHANGED <<storeVars, fleetVars, apiVars, proc, stops, observed, locks>>

DispatchEngine ==
    /\ RunnerAt("started")
    /\ HandOver(request[cur])
    /\ EngineTask(request[cur])
    /\ pc' = "engine"
    /\ UNCHANGED <<cur, step, outcome>>
    /\ OnlyRunner

DispatchSteps ==
    LET q == request[cur] IN
    /\ RunnerAt("started")
    /\ ~HandOver(q)
    /\ IF NeedsZone(q)
       THEN /\ AcquireZone(q.robot, q.zone)
            /\ IF IsZoneAvailable(q.zone)
               THEN pc' = "step" /\ UNCHANGED outcome
               ELSE Decide("failed")
       ELSE pc' = "step" /\ UNCHANGED <<outcome, locks>>
    /\ UNCHANGED <<cur, step>>
    /\ UNCHANGED <<storeVars, fleetVars, apiVars, procVars, observed>>

(* A checkpoint: the context first, then the status in the store.  A Get   *)
(* that fails counts as "not cancelled".                                   *)
CheckpointStops == proc = "draining" \/ status[cur] = "cancelled"
(* Faulty variant: only the context is checked.                            *)
CheckpointGoesOnUnread == proc # "draining"

CheckpointGoesOn == proc # "draining" /\ (status[cur] # "cancelled" \/ StoreFaults)

CurrentStep == Steps[request[cur].scenario][step]

StepCheck ==
    /\ RunnerAt("step")
    /\ step <= Len(Steps[request[cur].scenario])
    /\ \/ CheckpointStops /\ Decide("cancelled")
       \/ CheckpointGoesOn /\ pc' = "send" /\ UNCHANGED outcome
    /\ UNCHANGED <<cur, step>>
    /\ OnlyRunner

NextStep ==
    /\ pc' = "step"
    /\ step' = step + 1

(* SafetyAllow and PublishCommand.  A failed publish fails the task.       *)
StepSend ==
    LET allowed == SafetyAllow(CurrentStep.cmd,
                               CurrentStep.fromTask => request[cur].payloadOk)
    IN
    /\ RunnerAt("send")
    /\ \/ /\ allowed
          /\ IF CurrentStep.timed
             THEN pc' = "hold" /\ UNCHANGED step
             ELSE NextStep
          /\ overrun' = IF status[cur] = "cancelled"
                        THEN [overrun EXCEPT ![cur] = @ + 1] ELSE overrun
          /\ UNCHANGED outcome
       \/ Decide("failed") /\ UNCHANGED <<step, overrun>>
    /\ UNCHANGED cur
    /\ UNCHANGED <<storeVars, fleetVars, apiVars, procVars, emitted, started, acked, halted,
                   locks>>

(* The 500 ms polling loop of a timed step.  Once the deadline has passed  *)
(* nothing is checked any more.                                            *)
StepHold ==
    /\ RunnerAt("hold")
    /\ \/ CheckpointStops /\ Decide("cancelled") /\ UNCHANGED step
       \/ NextStep /\ UNCHANGED outcome
    /\ UNCHANGED cur
    /\ OnlyRunner

StepsDone ==
    /\ RunnerAt("step")
    /\ step > Len(Steps[request[cur].scenario])
    /\ Decide("completed")
    /\ UNCHANGED <<cur, step>>
    /\ OnlyRunner

(* Faulty variant: the outcome is announced but never stored.              *)
WriteOutcomeForgotten ==
    /\ RunnerAt("finish")
    /\ pc' = "report"
    /\ UNCHANGED <<cur, step, outcome>>
    /\ OnlyRunner

WriteOutcome ==
    /\ RunnerAt("finish")
    /\ UpdateStatusAndCompletedAt(cur, outcome)
    /\ pc' = "report"
    /\ UNCHANGED <<cur, step, outcome>>
    /\ UNCHANGED <<request, created, fleetVars, apiVars, procVars, observed, locks>>

(* Faulty variant: the zone is released only when the task completes.      *)
ReportKeepsZone ==
    /\ RunnerAt("report")
    /\ emitted' = [emitted EXCEPT ![cur] = Append(@, outcome)]
    /\ IF NeedsZone(request[cur]) /\ outcome = "completed"
       THEN ReleaseZone(request[cur].robot, request[cur].zone) ELSE UNCHANGED locks
    /\ ToIdle
    /\ UNCHANGED <<storeVars, fleetVars, apiVars, procVars, started, overrun, acked, halted>>

(* emitTaskCompleted, sendSafeStop for a cancelled task, and the deferred  *)
(* release of the zone.  (A task that could not acquire its zone defers no *)
(* release; ZoneLockOwned says there is no such task.)                     *)
Report ==
    LET q == request[cur] IN
    /\ RunnerAt("report")
    /\ emitted' = [emitted EXCEPT ![cur] = Append(@, outcome)]
    /\ halted' = IF outcome = "cancelled" THEN halted \cup {cur} ELSE halted
    /\ IF NeedsZone(q) THEN ReleaseZone(q.robot, q.zone) ELSE UNCHANGED locks
    /\ ToIdle
    /\ UNCHANGED <<storeVars, fleetVars, apiVars, procVars, started, overrun, acked>>

-----------------------------------------------------------------------------
(* The execution engine and the mall assistant, seen from the task store.  *)

(* The navigation ends.  The engine looks at the context, never at the     *)
(* task's status, and announces the result before it stores it.            *)
EngineReport(o) ==
    /\ RunnerAt("engine")
    /\ o = "cancelled" => proc = "draining"
    /\ ~request[cur].target => o = "failed"
    /\ outcome' = o
    /\ emitted' = [emitted EXCEPT ![cur] = Append(@, o)]
    /\ halted' = IF o # "completed" THEN halted \cup {cur} ELSE halted
    /\ pc' = "engwrite"
    /\ UNCHANGED <<cur, step>>
    /\ UNCHANGED <<storeVars, fleetVars, apiVars, procVars, started, overrun, acked, locks>>

(* Faulty variant: every navigation is stored as completed.                *)
EngineWriteCompleted ==
    /\ RunnerAt("engwrite")
    /\ SetStatus(cur, "completed")
    /\ ToIdle
    /\ UNCHANGED <<request, created, fleetVars, apiVars, procVars, observed, locks>>

EngineWrite ==
    /\ RunnerAt("engwrite")
    /\ UpdateStatusAndCompletedAt(cur, outcome)
    /\ ToIdle
    /\ UNCHANGED <<request, created, fleetVars, apiVars, procVars, observed, locks>>

(* The handler queues the visitor's navigation and the return to base      *)
(* without asking whether the robot is busy.                               *)
MallCreate(t, q) ==
    /\ t \in handlers /\ proc # "down"
    /\ EngineTask(q) /\ q.robot = request[t].robot
    /\ Create(q)
    /\ UNCHANGED <<fleetVars, apiVars, runnerVars, procVars, observed, locks>>

(* completeTask, with no look at the status.                               *)
MallFinish(t, o) ==
    /\ t \in handlers /\ proc # "down"
    /\ o = "cancelled" => proc = "draining" \/ t \in displaced
    /\ o = "failed" => StoreFaults
    /\ UpdateStatusAndCompletedAt(t, o)
    /\ emitted' = [emitted EXCEPT ![t] = Append(@, o)]
    /\ handlers' = handlers \ {t}
    /\ displaced' = displaced \ {t}
    /\ UNCHANGED <<request, created, fleetVars, apiVars, runnerVars, proc, stops, started,
                   overrun, acked, halted, locks>>

-----------------------------------------------------------------------------
(* The process *)

(* SIGTERM: the root context is cancelled.                                 *)
Shutdown ==
    /\ proc = "up" /\ stops < MaxStops
    /\ proc' = "draining"
    /\ UNCHANGED <<storeVars, fleetVars, apiVars, runnerVars, stops, handlers, displaced,
                   observed, locks>>

(* The process ends: main returns as soon as the context is cancelled and  *)
(* waits for no goroutine, or the process is killed.  An embedded runner   *)
(* takes the API requests in flight with it.                               *)
Exit ==
    /\ proc = "draining" \/ (CanCrash /\ proc = "up" /\ stops < MaxStops)
    /\ proc' = "down"
    /\ stops' = stops + 1
    /\ handlers' = {} /\ displaced' = {}
    /\ ToIdle
    /\ locks' = [z \in Zones |-> NoRobot]
    /\ IF Embedded THEN creating' = {} /\ cancelling' = {} ELSE UNCHANGED apiVars
    /\ status' = IF Persistent THEN status ELSE [t \in TaskId |-> "none"]
    /\ UNCHANGED <<request, created, fleetVars, observed>>

(* Nothing is repaired at start-up: a task stored as running stays so.     *)
Restart ==
    /\ proc = "down"
    /\ proc' = "up"
    /\ UNCHANGED <<storeVars, fleetVars, apiVars, runnerVars, stops, handlers, displaced,
                   observed, locks>>

-----------------------------------------------------------------------------
Init ==
    /\ status = [t \in TaskId |-> "none"]
    /\ request \in [TaskId -> {CHOOSE q \in Requests : TRUE}]
    /\ created = 0
    /\ registered = Robots
    /\ caps = [r \in Robots |-> {"walk", "stand"}]
    /\ custom = TRUE
    /\ creating = {} /\ cancelling = {}
    /\ proc = "up" /\ stops = 0 /\ handlers = {} /\ displaced = {}
    /\ pc = "idle" /\ cur = NoTask /\ step = 1 /\ outcome = "none"
    /\ emitted = [t \in TaskId |-> <<>>]
    /\ started = {} /\ acked = {} /\ halted = {}
    /\ overrun = [t \in TaskId |-> 0]
    /\ LocksInit

(* API handlers of an embedded control plane run only while it is up.      *)
ApiUp == Embedded => proc # "down"

Fleet ==
    \/ \E r \in Volatile, c \in {{"walk", "stand"}, {"stand"}} : RegisterRobot(r, c)
    \/ \E r \in Volatile : DeleteRobot(r)
    \/ ToggleCustomScenario

Api ==
    /\ ApiUp
    /\ \/ \E q \in Requests : CreateTaskCheck(q) \/ CreateTaskStore(q)
       \/ \E t \in TaskId : CancelTaskCheck(t) \/ CancelTaskStore(t)

RunnerStep ==
    \/ \E t \in TaskId : Pick(t)
    \/ IdleTick \/ RunReturns \/ GiveUp \/ FindRobot \/ CheckScenario \/ Start
    \/ DispatchMall \/ DispatchEngine \/ DispatchSteps
    \/ StepCheck \/ StepSend \/ StepHold \/ StepsDone \/ WriteOutcome \/ Report
    \/ (\E o \in Terminal : EngineReport(o)) \/ EngineWrite

Mall ==
    \E t \in TaskId : \/ \E q \in Requests : MallCreate(t, q)
                      \/ \E o \in Terminal : MallFinish(t, o)

Process == Shutdown \/ Exit \/ Restart

Next == Fleet \/ Api \/ RunnerStep \/ Mall \/ Process

Spec == Init /\ [][Next]_vars
-----------------------------------------------------------------------------
(* Properties *)

TypeOK ==
    /\ status \in [TaskId -> Status]
    /\ request \in [TaskId -> Requests]
    /\ created \in 0..MaxTasks
    /\ registered \subseteq Robots
    /\ caps \in [Robots -> SUBSET {"walk", "stand"}]
    /\ custom \in BOOLEAN
    /\ creating \subseteq Requests
    /\ cancelling \subseteq TaskId
    /\ proc \in {"up", "draining", "down"}
    /\ stops \in 0..MaxStops
    /\ pc \in PC
    /\ cur \in TaskId \cup {NoTask}
    /\ step \in Nat \ {0}
    /\ outcome \in Terminal \cup {"none"}
    /\ handlers \subseteq TaskId /\ displaced \subseteq handlers
    /\ emitted \in [TaskId -> Seq(Terminal)]
    /\ started \subseteq TaskId /\ acked \subseteq TaskId /\ halted \subseteq TaskId
    /\ overrun \in [TaskId -> Nat]
    /\ LocksTypeOK

(* At most one task per robot is stored as running, although runOne tests  *)
(* HasRunningForRobot and writes "running" in two separate store calls and *)
(* cancellations, handlers and restarts come in between.                   *)
OneRunningPerRobot ==
    \A t, u \in TaskId :
        /\ status[t] = "running" /\ status[u] = "running"
        /\ request[t].robot = request[u].robot
        => t = u

(* No task is executed twice: runOne sets a task to running at most once   *)
(* in its life, through lost writes, restarts and late cancellations.      *)
StartOnce ==
    [][\A t \in TaskId :
         status[t] # "running" /\ status'[t] = "running" => t \notin started]_vars

Executing == {"step", "send", "hold", "finish", "report"}

(* A zone lock never outlives the task it was taken for, and a task that   *)
(* needs a zone holds it from its first step to its last: what the defer   *)
(* in runOne is for.  Consequently AcquireZone never meets a held zone.    *)
ZoneLockOwned ==
    \A z \in Zones :
        /\ locks[z] # NoRobot =>
              /\ pc \in Executing /\ cur \in started
              /\ NeedsZone(request[cur])
              /\ request[cur].zone = z /\ request[cur].robot = locks[z]
        /\ /\ pc \in {"step", "send", "hold"}
           /\ NeedsZone(request[cur]) /\ request[cur].zone = z
           => locks[z] = request[cur].robot

(* Webhook and stream clients see at most one task_completed per task,     *)
(* whichever of runner, engine and mall handler ends it.                   *)
(* (A lost write of a task that failed its checks leaves it pending, and   *)
(* the next tick announces it again; hence the premise.)                   *)
OneCompletionEvent == ~StoreFaults => \A t \in TaskId : Len(emitted[t]) <= 1

(* Once the store says cancelled, a step-executed task publishes at most   *)
(* one more command: the one between a checkpoint and its send.            *)
CancelOverrun == ~StoreFaults => \A t \in TaskId : overrun[t] <= 1

(* While the process has not stopped, a task stored as running is being    *)
(* executed by the runner, the engine or a handler: runOne has no path     *)
(* that returns without writing an outcome.                                *)
RunningHasExecutor ==
    ~StoreFaults /\ stops = 0 =>
        \A t \in TaskId : status[t] = "running" => t = cur \/ t \in handlers

(* What task_completed announced is what the store then says, unless a     *)
(* late cancelTask overwrote it.  The engine announces before it stores.   *)
AnnouncedIsStored ==
    ~StoreFaults /\ stops = 0 =>
        \A t \in TaskId :
            emitted[t] # <<>> /\ ~(pc = "engwrite" /\ cur = t)
                => status[t] \in {Head(emitted[t]), "cancelled"}

-----------------------------------------------------------------------------
(* Liveness: the runner's goroutine is scheduled, commands and navigations *)
(* end by their deadlines.  Clients, visitors and signals owe nothing.     *)

Fairness == WF_vars(RunnerStep)

FairSpec == Spec /\ Fairness

(* A task the runner or the engine has in hand leaves the running status,  *)
(* or a mall handler, which may wait for a visitor forever, takes it over. *)
InHandEnds ==
    \A t \in TaskId :
        (cur = t /\ status[t] = "running") ~> (status[t] # "running" \/ t \in handlers)

(* A newer pending task, which SQLStore lists before t.                    *)
Overtaken(t) == \E u \in TaskId : u > t /\ status[u] = "pending"

(* With the SQL store a pending task is eventually taken up or, whenever it *)
(* is the newest pending one, overtaken by one that is newer still.  So it  *)
(* is served once arrivals pause, and while newer tasks keep arriving it    *)
(* may wait for ever: runOne takes pending[0] of a list with the newest     *)
(* first.  No robot may stay deregistered and mall handlers must keep       *)
(* ending, for one blocked task blocks all.                                 *)
PendingServed ==
    (Persistent /\ <>[](registered = Robots) /\ []<>(handlers = {})) =>
        \A t \in TaskId :
            status[t] = "pending" ~> (status[t] # "pending" \/ Overtaken(t))

-----------------------------------------------------------------------------
(* What the documentation says and the code does not do *)

(* phase-2.2-task-engine.md: on cancellation the Task Runner sends         *)
(* safe_stop to the robot.  A cancellation after the last checkpoint is    *)
(* acknowledged, overwritten with "completed", and no safe_stop is sent.   *)
(* (One before a send that fails is overwritten with "failed" likewise.)   *)
CancelHalts ==
    \A t \in acked : status[t] = "completed" /\ cur # t => t \in halted

(* phase-2.2-task-engine.md: one robot, one active task.  Cancelling a     *)
(* mall_assistant task frees the robot in the store while its handler      *)
(* still runs, and the runner starts the next task beside it.              *)
OneExecutorPerRobot ==
    \A t \in handlers :
        pc \in Executing \cup {"engine"} => request[cur].robot # request[t].robot

(* graceful-shutdown.md: tasks interrupted by shutdown are marked          *)
(* Cancelled.  main returns without waiting for the runner's goroutine.    *)
ShutdownCancels == proc = "down" => \A t \in TaskId : status[t] # "running"
==============================================================================
