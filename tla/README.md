# A TLA+ verification of SAI AUROSY

SAI AUROSY is a platform for fleets of robots. One Go process, the control
plane, keeps the fleet registry, runs tasks on robots, relays operators'
commands, streams telemetry and notifies webhooks; robots, adapters and the
control plane talk over NATS. This directory models the parts of it that are
hard to test, checks them with TLC on small instances, and proves the
invariants that matter with TLAPS for all values of the constants.

Contents: [inventory](#1-inventory), [modules and code](#2-modules-and-code),
[runs](#3-runs), [proofs](#4-proofs), [where code and documents disagree](#5-where-code-and-documents-disagree),
[what is left out](#6-what-is-left-out), [plan](#7-plan).

## 1. Inventory

| Component | State | Operations | Interacts with | What is hard | What makes it correct |
|---|---|---|---|---|---|
| Task store `tasks/store.go`, `sqlstore.go` | tasks with a status | Create, UpdateStatus, UpdateStatusAndCompletedAt, List, HasRunningForRobot | runner, API, engine, mall assistant, workflows | check and write are separate calls; callers drop errors | one running task per robot; a task starts once |
| Task Runner `tasks/runner.go` | one goroutine, the task in hand | `runOne` every two seconds | store, registry, catalogue, coordinator, bus, engine, mall assistant | cancellation, shutdown and the clients race with every step | one outcome, announced as stored; zones released; cancelled tasks stop |
| Task API `api/server.go` | none between requests | createTask, cancelTask | task store | reads, then writes, without a lock | no effect on a task that has ended |
| Zone coordinator `coordinator/` | lock table | AcquireZone, ReleaseZone | runner | locks are in memory, tasks in a database | a lock lives as long as the task it was taken for |
| Scenario catalogue `scenarios/` | stored scenarios | Get, create, update, delete | runner, API | a scenario may vanish under a pending task | the task fails once |
| Robot registry and tenants `registry/`, `tenants/` | robots with capabilities and a tenant; tenants | Get, Add, Update, Delete, ListByTenant; create, update, delete over the API | runner, workflows, API, sim robots | check and write are separate calls; changes between two looks of the runner or of a workflow; a failing read returns nothing, not an error | robots belong to tenants that exist |
| Safety filter `arbiter/safety.go` | none | SafetyAllow | runner, engine, sendCommand | – | nothing unchecked is published |
| Execution engine `internal/robot/` | a state per robot | ExecuteTaskEntry, Transition | runner, bus, task store | telemetry that is stale, missing or false; timeout against arrival against cancellation; dropped transitions | every navigation ends; arrivals are real; the state fits the outcome |
| Simulated robot `internal/simrobot/` | mode, position, target, distance | commands, ticks, failures, start, stop, reset | bus | failures and operator commands in the middle of a navigation | reported distance is the real one |
| Webhooks `webhooks/` | webhooks, circuit breakers, dead letters, deliveries in flight | Dispatch, sendWithRetry, Record, CRUD | runner, sendCommand, engine | one goroutine per delivery, a breaker shared per URL, contexts that end | bounded retries, no duplicates after success, nothing given up without a cause |
| Mall assistant `mallassistant/` | one goroutine and one channel per visit, the visitor registry | Run, Register, Unregister, Submit | runner, store, mall map, cognitive gateway | channels closed and replaced under a sender; a visit waits for a task of its own robot | visitors do not meet each other; visits end |
| Workflows `orchestration/` | runs and their tasks | Run | task store, registry | a run fails half way; robots and tenants change under it | tasks follow the steps; robots and tenants are not mixed up |
| Commands `commands/`, sendCommand | idempotency keys | Reserve, Cleanup | bus, edge store | retries after a failure behind the reservation, one key for two commands | at most once, and silently zero times only behind another request with the key |
| Edge relay `edges/`, `pkg/edge/` | queued commands, heartbeats | EnqueueCommand, FetchAndAck, Sync | sendCommand, robots at an edge | answers lost after the acknowledgement, heartbeats that overlap | no command twice or out of order; the queue drains |
| Streams `events/`, `streaming/`, telemetryStream | subscriber channels, ring buffer | Subscribe, Broadcast, GetSince | every producer of events | full buffers, replay then subscribe, channels closed, identifiers that do not sort like times | order kept and nothing repeated where identifiers sort; no send on a closed channel |
| Analytics and retention `analytics/` | samples, hourly aggregates | aggregate, delete | telemetry | late samples of an aggregated hour | whole hours are counted before they are deleted (in SQLite they are not, section 5); summaries do not inflate |
| Mall map `internal/mall/` | a graph | ShortestPath | mall assistant | – | the path is a shortest one, on every map |
| Processes `cmd/` | contexts, goroutines | start, SIGTERM | all | nobody waits for goroutines | tasks are not left running |
| OAuth `oauth/` | clients, codes, tokens in three tables | authorize, token (code, refresh), revoke, validate; administration of clients | API middleware | reads and deletes without a transaction, errors dropped, clients changed under a grant | a code is used once; a grant stays what was granted; revocation is final |
| Authentication and roles; cognitive gateway, speech, conversations; marketplace, audit, OpenAPI, health, observability, secrets; console, adapters, SDK, validation harness | stores and configuration | CRUD, calls to external services | API | – | not a protocol; not modelled |

The hazards of each part, at the lines where they bite, are listed under
`hazards` in `PROJECT.json`.

## 2. Modules and code

| Module | Models |
|---|---|
| `Coordinator` | the zone lock table |
| `ScenarioCatalog` | the built-in scenarios, their steps, and SafetyAllow for their commands |
| `TaskEngine` | task store, createTask/cancelTask, Task Runner, what the engine and the mall assistant do to tasks, process life cycle; composes the two modules above |
| `TaskEngineProofs` | the proofs about `TaskEngine` |
| `CircuitBreaker` | one circuit breaker as operators on a record |
| `Webhooks` | webhook store, dispatcher, dead letters, over `CircuitBreaker` |
| `WebhooksProofs` | the proofs about `Webhooks` |
| `SimRobot` | the simulated robot as operators on a record |
| `Navigation` | execution engine, navigation executor, state manager and bus, over `SimRobot` |
| `NavigationProofs` | the proofs about `Navigation` |
| `CommandDelivery` | abstract: what a sender of commands may rely on |
| `CommandRelay` | sendCommand, idempotency keys, edge queue, heartbeat handler, edge agent; implements `CommandDelivery` |
| `CommandRelayProofs` | the proofs about `CommandRelay`, the refinement included |
| `MallRoute` | NewGraph and ShortestPath as operators, and the reference they are checked against |
| `MallAssistant` | visitor registry, visits, the runner as far as visits see it; over `MallRoute` |
| `MallAssistantProofs` | the proofs about `MallAssistant` |
| `Broadcaster` | the event broadcaster |
| `Retention` | samples, hourly aggregates, the retention job, RobotSummary |
| `Telemetry` | the bus, ring buffer, telemetryStream and the robot-online watcher; composes the two modules above |
| `TelemetryProofs` | the proofs about `Telemetry`, `Broadcaster` and `Retention` |
| `Fleet` | robots, tenants and their administration |
| `Workflow` | orchestration.Runner over `Fleet`, beside the Task Runner |
| `WorkflowProofs` | the proofs about `Workflow` and `Fleet` |
| `OAuth` | the OAuth server, its three tables and the administration of clients |
| `OAuthProofs` | the proofs about `OAuth` |
| `MC*` | instances: requests, interventions, maps, traces, workflows, symmetry sets |

`PROJECT.json` maps every definition to its lines. Definitions commented as
faulty variants are plausible bugs of the code; each property is shown to
reject one of them.

**TaskEngine.** Each store call, publish and state test of `runOne` is a step
(`pc` names the place), because that is where requests of clients interleave
with it. `createTask` and `cancelTask` are two steps each, the read and the
write. `SQLStore` lists the newest task first and may return errors
(`StoreFaults`); `MemoryStore` lists in any order and is lost with the process
(`Persistent`). A navigation handed to the engine blocks the runner; its task
is announced (`EngineReport`) before it is stored (`EngineWrite`), as in the
code. A `mall_assistant` task leaves the runner for a goroutine (`handlers`),
which nothing but its own end stops. `Embedded` selects the deployment: the
runner inside the control plane, or `cmd/workforce`, which has no engine and
no mall handler. `Shutdown` cancels the context, `Exit` ends the process
whenever it likes after that (main waits for nobody), `Restart` repairs
nothing. `emitted`, `started`, `overrun`, `acked`, `halted` only observe.

**Webhooks.** A delivery is a goroutine with its own program counter: `Gate`
(Allow), `Send` (backoff and request), `Succeed` or `Fail` (recorded in the
breaker of its URL), `Record` (dead letter). Time is only what the breaker
sees of it: `CoolDown` is the 60 seconds passing. A delivery dispatched from
sendCommand (safe_stop events) carries the request's context, `RequestEnds`
ends it. The insert of a dead letter may fail under any context, and must fail
under one that is over; either way the delivery ends as "lost", since the
dispatcher drops the error. `failed` and `probes` are what an observer of the
endpoints counts: failed attempts at each, and attempts of a delivery that met
a circuit that was not closed since it last cooled down or closed. All modelled
webhooks subscribe to all modelled events.

**Navigation.** The engine and the executor run on the runner's goroutine
(`pc`); commands and telemetry are two queues, since NATS keeps the order of
one publisher and drops what nobody subscribes to. The robot is a record that
commands and ticks transform, each under its mutex. Positions are quarter
metres on the line between base and store; the robot moves two of them per
tick, arrives within two (0.5 m), and the executor's threshold is four (1 m).
The trigger of an injected failure is left open (`TickFails` may happen at any
tick after the injection), the failure itself is not. `pursuing` and `heard`
only observe. The deadline is a step that is always possible while no
result is there.

**CommandRelay.** A request is an attempt at a sending, and several sendings,
for other robots and of other commands, may bear the same key. The key is
reserved first; the reservation itself may fail ("unclaimed"), and everything
behind it may refuse, fail or be cut off by a crash. The store compares keys
and nothing else (idempotency.go:58, 110). The edge side is a table of rows, up to two heartbeat handlers
(`beat`, because the agent gives up after its timeout while the handler goes
on), and the agent that publishes what an answer holds. The rows of a handler
and of an answer are sets of row numbers; every step takes the oldest
(`Oldest`), as the SELECT's ORDER BY and the loops do. `doubts` counts
acknowledgements that failed. `RefinesDelivery` maps the relay to
`CommandDelivery` with the identity on `accepted`, `doubts`, `delivered` and
`taken <- spent`, the sendings accepted under keys that are still stored.

**MallAssistant.** Tasks of two visits (visit, navigation, return), their
handlers, the channel of each visit, and texts that a request carries from
the look-up to the send. The runner takes any pending task of a free robot.
What the visitor wants is the choice of a store, the route to it the one
`MallRoute` computes on the chosen map.

**Telemetry.** A trace of samples is published one by one; three consumers
read it. `used` says which of them an instance looks at: they share nothing
but the trace, so each is explored by itself. Clients connect, are cut off
and reconnect with the last identifier they saw (`Replays` are what the buffer
may then give them: sort.Slice is not stable). A timestamp is a number, its
text (`EventID`) the second and the digits of the fraction; `CutShort` is what
RFC3339Nano does to trailing zeros and `IdLess` the order of the texts, for a
fraction of any number of digits (`Second`, `Places`): .12Z before .1Z before Z. `spilling` is the
callback between taking the oldest message out and putting its own in.
`Retention` keeps what was ever stored as history, and marks the hours that a
cutoff split. `driver` is the database of the deployment: `Buckets` are the
hours its SQL finds, which in SQLite are none, because the driver stores a time
as Go's Time.String() and strftime makes NULL of that text.

**Workflow.** The walk of a run is split at every look into the registry and
every store call, and every call may fail once. The registry has no errors to
return: a failing `Get` is nil and a failing `ListByTenant` empty, and the code
goes on with that (`DeleteTenant`, `CreateRobot`, `Pick`, `Admit`, `Check`).
Two histories say where the code lets something slip, as narrowly as it can be
said. `excused` in `Fleet` holds a robot with a tenant whose deletion overlapped
a write of that robot into it, or could not see that the robot was there.
`slipped` holds a step of a run at which the registry did not return the robot
when its tenant was compared, or at which that robot changed hands between the
comparison and the copy. All other robots and steps have to be right.

**OAuth.** A code and a token are identified with the request that creates
them, so `at` says where the request or its row is. Every statement is a step
that may fail; the deletion of a code and revocation drop the error, as in the
code. Expiry is a step that may happen at any time after creation. `shared`,
`crossed`, `intended` and `issued` only observe.

## 3. Runs

`tlc -workers 2 -config <cfg> <module>`; every run takes below five minutes.

| Run | Shows |
|---|---|
| `tasks_safety` | two tasks of every kind on two robots, failing SQL store, one stop or crash: `OneRunningPerRobot`, `ZoneLockOwned`, `StartOnce` |
| `tasks_liveness` | two tasks, cancelled at every moment, while robots and a scenario come and go: `OneCompletionEvent`, `CancelOverrun`, `RunningHasExecutor`, `AnnouncedIsStored`; tasks in hand end (`InHandEnds`), pending ones are served unless newer ones overtake them (`PendingServed`) |
| `webhooks` | two events to a webhook that is updated and deleted meanwhile, over two endpoints with their breakers, dead letters whose insert fails: `AttemptsBounded`, `OneProbeEach`, `GivenUpForCause`, `DeletedIsSilent`; every delivery ends (`DeliveriesEnd`) |
| `navigation_safety` | two navigations, two interventions of any kind, lost commands and refused subscriptions: `RestState`, `TrueArrival` |
| `navigation_liveness` | every navigation ends (`NavigationEnds`), and a robot whose navigation failed stops (`FailedHalts`) |
| `command_relay` | a keyed motion sent twice, the stop that is to end it and a command for another robot on the bus under the same key, two faults of any kind, a key that expires: the relay implements `CommandDelivery` (`RefinesDelivery`), `EdgeOrder`, `SilentOnlyBehindRival`; the queue drains again and again (`EdgeDelivers`) |
| `mall_visit` | two visits, two texts, one cancellation, six maps: `UndisturbedVisits`, `TextsStayWithVisit`, `RoutesShortest`; a visit that has heard its visitor ends (`VisitEnds`) |
| `telemetry` | four samples, two streaming clients with three connections, two subscribers, a retention job with five cutoffs in either database: `SeenInOrder`, `OnlineEdges`, `NoSendOnClosed`, `WholeHoursKept`, `SummaryNoInflation` |
| `workflow` | two runs of two steps, three requests of administrators or runs, one failing call, reads included: `RobotsHaveTenants`, `TasksArePrefix`, `OneStepPerRobot`, `RunsStayInTenant` |
| `oauth` | one code, three token requests, two requests of administrators, one fault: `GrantFollowsCode`, `CodeUsedOnce`, `RevokedIsFinal`, `EditsKept` |
| `cancel_lost`, `mall_false_arrival` | violated on purpose, see section 5 |

**Bounds.** Every bound is a constant named `Max...`, a capacity (`MaxQueue`,
`Cap`, `RingCap`, `ChanCap`, `EventCap`, `Slots`) or the size of a finite set.
Two tasks are enough for any conflict of two tasks over a robot, a zone or
the runner. `webhooks` uses threshold 3 and two retries, where the code has 5
and 3: two deliveries of three attempts each open the circuit, meet it
half-open together and open it again; the proofs cover every threshold and
limit. Two navigations show a state that depends on the previous one, two
interventions a failure injected into a robot that was stopped, reset or
commanded. A store at six quarter metres is the nearest that the robot needs
several ticks to reach, some of them outside the executor's threshold. At the
edge, two slots are a heartbeat that was given up and the one after it. Two
visits and a channel of one text show every way in which a visit can close,
fill or inherit the channel of another. The streaming buffers hold two
messages of four, so both overflow. Timestamps have two digits of a second's
fraction; the trace over its turn (.99Z, Z, .1Z, .12Z) is the one where
identifiers do not sort, in both ways: against no fraction and against a longer
one. It crosses an hour as well. One failing call is one for each of the reads
and writes of a workflow or a deletion, at every moment. Two workflow runs of two steps meet at
one robot; three token requests are an exchange, a concurrent one and a
refresh, or a chain of two refreshes. All systems but the task engine stop
when their bounds are used up: their configurations do not check deadlock. The
task engine's do: its runner ticks for ever.

**Fairness.** `tasks_liveness`: weak fairness of the runner's goroutine, which
Go schedules and whose every wait (ticker, HTTP, navigation deadline) is
bounded; nothing is assumed of clients, visitors or signals, and
`PendingServed` is conditional on the fleet being complete and mall handlers
ending. It claims no service of a task that a newer one overtakes: SQLStore
lists the newest first and runOne takes the first (sqlstore.go:111), so that
an older task starves while newer ones keep arriving, whatever is fair.
`webhooks`: weak fairness of each delivery goroutine; its HTTP client has a
timeout; time passing for the breaker is not assumed.
`navigation_liveness`: weak fairness of the engine's goroutine and of the command
queue; nothing is assumed of the robot, so it may be silent for ever.
`command_relay`: weak fairness of the agent's loop and of each heartbeat
handler, whose waits (ticker, HTTP timeout, SQL) are bounded; nothing is
assumed of senders. `mall_visit`: weak fairness of the runner and of each
visit's goroutine; nothing is assumed of visitors, and `VisitEnds` speaks of
visits that have heard theirs.

## 4. Proofs

`tlapm <Module>.tla` checks each module. Theorems are `Spec => [](...)`, or
`Spec => P` for an action property or a specification `P`, for every value of
the constants under the named assumptions. These are as weak as the code:
request sets that are not empty, natural bounds, Boolean flags, values that
mean "none" outside the sets they complete, and in particular

- `FlagsAssumption`: `cmd/workforce` is never without a database;
- `AttemptsAssumption`: finitely many requests, each retried finitely often
  (only counting needs it; there is no bound on either);
- `OAuthAssumption`: a registration has scopes (createOAuthClient refuses one
  without), an update names some of the fields and, where it names scopes, at
  least one (updateOAuthClient ignores empty ones);
- `StepsAssumption`: a workflow is a sequence of at least one step, each for a
  robot of the fleet or any robot;
- `TraceAssumption`: samples have natural timestamps, and clients are not
  called like the three built-in consumers; `HourAssumption`: hours have
  positive length, cutoffs and the ends of a summary's range are natural;
- `MapsAssumption`: a map has finitely many nodes, no empty identifier and no
  negative length. The loader checks none of this: a file with a negative
  length is read as it is, and nothing is claimed of it. Lengths are naturals,
  where the code adds floating point numbers, whose rounding is left out.

In each module there is one lemma per action (or per group of actions that
leave a part alone), and the lemmas are combined over `Next`. An inductive
invariant is a conjunction of named parts; TLC has checked each as an
invariant of the module's run. The prover has no induction over data: where a
fact about a sequence, a sum or a search needs one, the lemma assumes a
counterexample, takes the least one and contradicts it.

**TaskEngineProofs**: `TypeCorrect`, `OneRunning`, `ZoneLocks`,
`OneCompletion`, `CancelBound`, `StartsOnce`, `RunningIsExecuted`,
`AnnouncedStays`. None of the properties is inductive. `OneRunningPerRobot`
needs that between FindRobot and Start nobody else writes "running"
(`CheckedIsFree`), that a task's robot does not change (`Numbered`), and that a
task on its way to Start was never started (`FreshUntilStarted`).
`ZoneLockOwned` needs to know when the runner has a task (`CurrentTask`).
`OneCompletionEvent` needs that tasks which may still be announced have not
been (`Unannounced`) and that a task has one executor at a time (`HandedOver`).
`CancelOverrun` needs `NoOverrunYet`: the one command that may slip through is
still to come. `IndInv` is their conjunction. `RunningHasExecutor` and
`AnnouncedIsStored` need each other and `Settled`, that the runner stores an
outcome before it reports it while the engine reports before it stores: a
cancellation between the two is the only thing that may come in between
(`EndInv`, over `IndInv`).

**WebhooksProofs**: `TypeCorrect`, `Breakers`, `Attempts`, `OpenCircuits`,
`GivenUpForCauseHolds`, `Deletion`. `IndInv` adds to the properties `Stages`
(what a delivery's counters are at each place), `Fresh` (a delivery not
dispatched has done nothing) and `Counts`. For `OneProbeEach` it says that a
delivery which met a circuit that was not closed found it blocked afterwards
(`Probes`): its own failure reopens a half-open circuit, and is beyond the
threshold of an open one, so that it cannot pass the gate before the circuit
cools down or another delivery succeeds. For `GivenUpForCause` it says that a
breaker counts only failures that happened (`FailuresReal`), whichever
successes and failures of other deliveries it recorded in between.

**NavigationProofs**: `TypeCorrect`, `RestStates`, `Arrivals`. `RestState`
needs `ShownStates`, which states the state manager may show at each point of
a navigation: it explains why dropped transitions never leave a wrong state at
rest. `TrueArrival` needs a chain: a pursuing robot has the navigation's target
and a measured distance (`OnCourse`), hence its messages are honest
(`HonestInbox`), hence so is the one that decided the result (`HeardArrival`).

**CommandRelayProofs**: `TypeCorrect`, `SilentOnlyBehindRivalHolds`,
`EdgeOrderHolds`, `Refinement`. `BaseInv` says whose hands the rows are in
(`Handed`) and that the queue never has more rows than requests were made
(`RoomLeft`). A keyed request being handled is the only one with its key, and
that key is unused (`KeyOnce`). A command whose key is claimed and which was not
forwarded has a rival: a request with the key that failed or is under way, or
one of another command that was forwarded (`Claimed`). Rivals stay rivals,
since a request that ends well ends as one, and only the expiry of the key
clears the claim; the silent answers given before keep theirs
(`SilentOnlyBehindRival`). `EdgeOrder`, an action property, follows from
`OrderInv`: below a row that was published, or that the agent has or will get
(`Out`), everything is marked, flawed or about to be marked by the same
handler, and a row that is out and not flawed is newer than everything
published. The refinement of `CommandDelivery` is proved step by step:
every step of the relay is an acceptance, a delivery, a doubt, an expiry of
keys, or changes nothing the sender sees. The delivery step needs `Budget`, the
heart of the proof: what was delivered, plus the rows that are out, plus those
that will be handed out again, is covered by acceptances and doubts. A failed
mark moves a row from one summand to two and raises `doubts`; a lost answer or a
crash only takes away. The doubt step needs `QueuedAccepted`.

**WorkflowProofs**: `TypeCorrect`, `RobotsHaveTenantsHolds`,
`TasksArePrefixHolds`, `OneStepPerRobotHolds`, `RunsStayInTenantHolds`.
`RobotsHaveTenants` needs that a robot which is in a tenant, or about to be, has
its excuse before the tenant is gone: from the moment its deletion is past its
check (`Accounted`), which must hold for every order in which requests check
and write, and that requests are of the two kinds (`Formed`: nobody deletes the
default tenant). The properties of runs need where a walk stands: earlier steps
have tasks, later ones none (`Placed`), a robot chosen freely is new to the run
(`Fresh`), and what a walk learned about the robot's tenant is true unless the
step slipped (`Asked`).

**OAuthProofs**: `TypeCorrect`, `GrantFollowsCodeHolds`, `CodeUsedOnceHolds`,
`RevokedIsFinalHolds`, `EditsKeptHolds`. `GrantFollowsCode` needs that a code
follows the registration its request read (`CodeFollowsRead`) and that the
grant a request holds on the way to its row already follows the code
(`GrantHeld`). `CodeUsedOnce` needs `SpentOnce`: once an exchange is past the
deletion, its code is no longer stored, so that no second one finds it.
`RevokedIsFinal` needs that what a request may not refresh was revoked before it
began (`BarredRevoked`); `EditsKept` that a copy which is not outdated equals
the row (`CopiesCurrent`).

**MallAssistantProofs**: `TextsStayWithVisitHolds`, `UndisturbedVisitsHolds`,
`OneTaskRuns`, `ArrivalsNeverBegun`, `CalculateRouteShortest`,
`RoutesShortestHolds`, `TypeCorrect`.
`TextsStayWithVisit` is inductive together with the types.
`UndisturbedVisits` needs that the robot runs one task at a time
(`OneRunning`, a theorem of its own), although tasks are started by two
different tests, and that, while nobody interferes (`Quiet`), a visit that
acts is that task (`ActingRuns`), no other is on its way out
(`NobodyLeaves`), and whoever listens has the registered, open channel
(`ListenerOpen`). On top of it, `ArrivalsNeverBegun`: in quiet, the navigation
a visit waits for is pending until the wait ends (`NeverBegun`), since the
waiting visit is itself the robot's running task. What `mall_false_arrival` shows
in one behaviour is what every undisturbed visit does. This needs that a
navigation is not stored before its visit leads (`NotCreated`) and that the one
the runner has taken up is no longer pending (`TakenUp`).

`CalculateRouteShortest` is about ShortestPath itself, on every map of
`MapsAssumption` and between any two of its nodes; `RoutesShortest` needs
besides that a visit's plan is one the planner returned (`PlanInv`). NewGraph
is first shown to build the graph of the reference, edge by edge. A round of
the search keeps `Searching`: links lead back to the start along edges of the
graph and add up to the distances (`LinksBack`, `Trails`, which also keeps
every distance below the number that stands for +Inf), a node seen has relaxed
its edges (`Settled`), an entry of the heap is no nearer than what was seen
(`HeapAhead`), and a node that was reached but not seen still has its entry
(`Waiting`). That the rounds empty the heap follows from `Budget`: each takes an
entry out, and a node pushes one per neighbour, once. Reading the links back
then gives a way of the length found; and along any way of the reference, the
first node with a distance greater than its way contradicts `Settled`, so that
no way is shorter and, where the target has no distance, there is none.

**TelemetryProofs**: `NoSendOnClosedHolds`, `OnlineEdgesHolds`,
`WholeHoursKeptHolds`, `SummaryNoInflationHolds`, `SeenInOrderHolds`,
`TypeCorrect`. `NoSendOnClosed` is inductive with the types of the
broadcaster. `OnlineEdges` needs that the watcher's queue holds the samples
that were sent and not handled, in order (`Queue`), and that its map shows the
last handled sample of each robot (`Known`). `WholeHoursKept` needs that the
cutoff lies before everything still to be stored (`AheadOfCutoff`), that what
was or is about to be deleted has an aggregate (`DeletedCounted`,
`DoomedCounted`: the job may die between its statements), and that the
aggregate of an hour no cutoff split is complete and its hour over
(`WholeCounted`). `SummaryNoInflation` needs of the store only that an
aggregate never exceeds what its hour held (`CountedOnce`); the rest is about
the query: a summary counts samples or adds aggregates, never both,
hours are disjoint, and a sum over finitely many of them is bounded by the
samples in their union. `SeenInOrder` is not conditional on how texts sort. It needs `SeenInv`: what
waits in a client's channel, the sample its callback holds and what the bus
still holds for it follow each other and come after all it has seen
(`InOrder`), and a client without a subscription has nothing waiting (`Idle`).
What it has seen was published before what follows, or the texts do not say so:
a replay is sorted by text and its first text lies behind the last one shown,
for which `IdLess` has to be asymmetric over `CutShort` (`IdAsymmetric`).
Dropping the oldest message leaves a suffix, and each step moves the head of one
of the parts to the end of the part before. `Replays` is the set of sorted
orders of a finite set; that it is never empty, hence that `Connect` is always
possible, is an induction left to TLC.

**Only model-checked.** Liveness (`InHandEnds`, `PendingServed`,
`DeliveriesEnd`, `NavigationEnds`, `FailedHalts`, `EdgeDelivers`, `VisitEnds`),
which is out of the prover's reach. Every invariant and every action property of
a passing run, and the refinement, is a theorem.

## 5. Where code and documents disagree

Two have a run whose counterexample is the behaviour described, and an entry
under `findings`:

- `cancel_lost`: a cancellation acknowledged after the runner's last look is
  overwritten with "completed"; no safe_stop is sent.
- `mall_false_arrival`: a visit waits for the navigation it created, and the
  runner does not start it because the visit's own task is running on that
  robot; after 30 seconds the wait ends, the handler emits
  `navigation_completed` and says "We have arrived" where the robot stands.

Nine more have a configuration, so that `tlc -config <cfg> <module>` shows the
counterexample:

- `TaskEngineTwoExecutors.cfg` (`OneExecutorPerRobot`): cancelling a
  mall_assistant task does not stop its handler, and the next task for the
  robot starts beside it, where phase-2.2-task-engine.md:58 has one active task
  per robot.
- `TaskEngineShutdown.cfg` (`ShutdownCancels`): SIGTERM may end the process
  with a task stored as running, where graceful-shutdown.md:53 has it
  cancelled; nothing repairs it and its robot is blocked.
- `WebhooksFailuresRecorded.cfg` (`FailuresRecorded`): the dead letter of a
  safe_stop event is inserted under a request context that has ended, and any
  insert may fail; the error is dropped (dispatcher.go:109, 130) and the
  delivery lost, where webhooks.md:114 has every failed delivery recorded.
- `NavigationStaleTelemetry.cfg` (`ArrivedIsThere`): the distance 0 an idle
  robot publishes before it takes navigate_to completes the navigation at once
  (robot-execution-layer.md:61). The same test passes for a robot stopped on
  its way, which also reports 0.
- `CommandRelayEdgeFilter.cfg` (`EdgeMirrors`): the comment of
  pkg/edge/safety.go says it mirrors the control plane's filter, which accepts
  navigate_to; the edge drops it after it was accepted and acknowledged.
- `TelemetrySqlite.cfg` (`DeletedAggregated`): in SQLite, the default database,
  samples are deleted and never aggregated, where telemetry-retention.md:16 has
  them aggregated first: modernc.org/sqlite stores time.Time as its String(),
  strftime makes NULL of it, and INSERT OR IGNORE skips the row (job.go:83).
- `TelemetryEventIDs.cfg` (`SeenOnce`): a client that reconnects sees a sample
  again, where the comment of eventID calls the identifiers "lexicographically
  sortable" (buffer.go:85): Z sorts behind .1Z and .1Z behind .12Z.
- `WorkflowTenantDeleted.cfg` (`TenantsKeepRobots`): a tenant is deleted although
  it has robots, where phase-2.6-multi-tenant.md:51 allows that only without
  any: a write overlapped, or ListByTenant could not read the registry and
  returned nothing.
- `WorkflowForeignRobot.cfg` (`RobotsOfTenantOnly`): a tenant's run uses a robot
  of another tenant, where phase-2.6-multi-tenant.md:27 has it choose only its
  own: the registry returned nil when the tenant was to be compared, or the
  robot changed hands.

Seen while modelling, without a configuration: a sample that arrives between
the replay and the subscription of telemetryStream is in neither, where
phase-3.1-streaming-gateway.md has the stream continue after the replay; its
callback can wait for ever on a channel it has found full and the writer has
emptied (server.go:1407); the rest of an hour that a retention cutoff split is
deleted uncounted; no code completes a workflow run; a robot deleted while a
workflow works with it breaks the request off; an idempotency key that is used
again for another command or robot gets 202 and the command is not sent
(`SilentOnlyBehindRival` counts it among the rivals); an older task starves while
newer ones arrive (`PendingServed`); a cancellation before a send that fails is
overwritten with "failed" just as one after the last look is with "completed";
two overlapping exchanges of one OAuth code both succeed, a revocation whose
statement fails is answered like one that worked, an expired access token
that is presented takes its refresh token with it, and tokens outlive their
client; overlapping updates of a webhook or an OAuth client undo each other; a half-open circuit
lets one request of every delivery through where webhooks.md:110 promises one
probe (`OneProbeEach` says how far that goes); a visit
after a visit or a failure never shows NAVIGATING_TO_STORE, because the state
table has no such transition (`RestState` says what is shown at the end); an
injected slowdown is never undone, not even by Reset; the control plane sets
`TimeoutAsCompletion`, so a timed-out navigation is shown as an arrival where
the error table of `robot-execution-layer.md` says ERROR_STATE (the same page
calls completion by timeout a fallback); the webhook page gives backoffs of 2,
4 and 8 s, the code waits 1, 2 and 4 s; since the runner executes one task at
a time, AcquireZone never meets a held zone (part of `ZoneLockOwned`); a
mall_assistant task under `cmd/workforce` completes at once without doing
anything; a simulated robot started over the API stops ticking when the
request is answered.

## 6. What is left out

Payloads are reduced to what the code branches on: whether they pass
SafetyAllow, name a zone, name a target. Audit entries, metrics, logs and the
wording of events are left out, and tenants except in `Fleet`, `Workflow` and
`OAuth`. Secrets, hashes and random tokens are identities. Floating point is replaced by quarter
metres on a line, so rounding of the arrival test is not covered. One robot and
one navigation at a time are modelled in `Navigation`, as the runner drives
one. Battery level, speech, replay scripts and routes of the simulated robot
are data that nothing reads. Replies of the HTTP server that are lost or slow
are covered only where the code keeps something (`RequestEnds`,
`StartRequestEnds`). The parts marked not modelled in `PROJECT.json` have no
module.

## 7. Plan

Done: task engine; webhooks; navigation; command relay and its refinement;
mall assistant and route search; telemetry, broadcaster and retention; fleet
and workflows; OAuth; each with proofs. Every safety property of a passing run
is proved. What would come next:

1. The edge relay upwards: robot states in heartbeats, and what the control
   plane shows of a robot whose heartbeats arrive late.
2. The command arbiter, once something in the program creates one.
