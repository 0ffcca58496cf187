---------------------------- MODULE MallAssistant ----------------------------
(***************************************************************************)
(* Mall visits of one robot: the handler goroutine a visit runs in, the    *)
(* registry that routes visitors' texts to it, the API requests that send  *)
(* them, the tasks a visit creates, and as much of the Task Runner as      *)
(* decides when those run.  The Task Runner has a module of its own        *)
(* (TaskEngine); here a navigation is one step that starts and one that    *)
(* ends.                                                                   *)
(***************************************************************************)
EXTENDS MallRoute

CONSTANTS
    MaxVisits,  \* bound: mall_assistant tasks created
    Texts,      \* bound: the visitor requests that clients make
    Cap,        \* capacity of a visitor channel (4 in the code)
    MaxCancels, \* bound: cancelTask requests
    Maps,       \* the mall maps considered, a sequence
    Directory   \* the stores the directory knows, on the map or not

ASSUME VisitBounds == {MaxVisits, MaxCancels} \subseteq Nat /\ Cap \in Nat \ {0}
ASSUME MapsAssumption == \A i \in DOMAIN Maps : IsMap(Maps[i])

Visits == 1..MaxVisits
NoVisit == 0

(* A visit's own task, its navigation to the store and its way back.       *)
TaskKinds == {"visit", "nav", "return"}
Tasks == Visits \X TaskKinds
NoTask == <<NoVisit, "visit">>
NoPlan == [map |-> 0, store |-> "none", route |-> NoRoute]
Ended == {"completed", "failed", "cancelled"}

(* Where the handler of a visit is:                                        *)
(*   none, asked     the API request has not created the task yet          *)
(*   queued          the task waits for the runner                         *)
(*   greeting        Run started; it speaks before it registers            *)
(*   listening       registered, waiting for a text                        *)
(*   thinking        asking the cognitive gateway what the text means      *)
(*   routing         looking the store up in the mall map                  *)
(*   following       the route is planned, the visitor is told to follow   *)
(*   leading         waitForNavigation                                     *)
(*   arriving        arrival announced                                     *)
(*   leaving         completeTask called, the deferred Unregister is next  *)
(*   done                                                                  *)
Alive == {"greeting", "listening", "thinking", "routing", "following", "leading", "arriving",
          "leaving"}
VisitPC == Alive \cup {"none", "asked", "queued", "done"}

VARIABLES
    status,     \* status[t] in the task store
    runner,     \* the navigation the Task Runner is executing, or NoTask
    pc,         \* pc[v]
    registered, \* the visit whose channel the registry holds, or NoVisit
    closed,     \* visits whose channel was closed
    buffer,     \* buffer[v]: texts in the channel of v
    holder,     \* holder[x]: visit whose channel the request x looked up
    reply,      \* reply[x]: what the client of request x got
    plan,       \* map, store and route planned for the next navigation
    announced,  \* visits that announced the arrival
    late,       \* visits that had yet to unregister when another one began
    stopping,   \* the process's context is cancelled
    cancels     \* cancelTask requests so far

taskVars  == <<status, runner, cancels>>
visitVars == <<pc, plan, announced, late>>
chanVars  == <<registered, closed, buffer>>
textVars  == <<holder, reply>>
vars == <<taskVars, visitVars, chanVars, textVars, stopping>>

-----------------------------------------------------------------------------
(* Task store and Task Runner *)

HasRunning == \E t \in Tasks : status[t] = "running"

CreateTask(t) == status' = [status EXCEPT ![t] = "pending"]

(* mallAssistantStart: no task may be running when it looks; it creates    *)
(* the task later.                                                         *)
StartCheck(v) ==
    /\ pc[v] = "none" /\ \A u \in Visits : u < v => pc[u] # "none"
    /\ ~HasRunning
    /\ pc' = [pc EXCEPT ![v] = "asked"]
    /\ UNCHANGED <<taskVars, plan, announced, late, chanVars, textVars, stopping>>

StartStore(v) ==
    /\ pc[v] = "asked"
    /\ CreateTask(<<v, "visit">>)
    /\ pc' = [pc EXCEPT ![v] = "queued"]
    /\ UNCHANGED <<runner, cancels, plan, announced, late, chanVars, textVars, stopping>>

CancelTask(t) ==
    /\ cancels < MaxCancels /\ status[t] \in {"pending", "running"}
    /\ status' = [status EXCEPT ![t] = "cancelled"]
    /\ cancels' = cancels + 1
    /\ UNCHANGED <<runner, visitVars, chanVars, textVars, stopping>>

(* Faulty variant: the runner does not ask whether the robot is busy.      *)
RunTaskBusy(t) ==
    /\ runner = NoTask /\ status[t] = "pending"
    /\ status' = [status EXCEPT ![t] = "running"]
    /\ IF t[2] = "visit"
       THEN /\ pc' = [pc EXCEPT ![t[1]] = "greeting"]
            /\ late' = late \cup {v \in Visits : pc[v] = "leaving"}
            /\ UNCHANGED runner
       ELSE runner' = t /\ UNCHANGED <<pc, late>>
    /\ UNCHANGED <<cancels, plan, announced, chanVars, textVars, stopping>>

(* runOne with a free robot and the first pending task, which may be any:  *)
(* the memory store lists in map order, the SQL store newest first.  A     *)
(* visit becomes a goroutine, a navigation blocks the runner.              *)
RunTask(t) ==
    /\ runner = NoTask /\ status[t] = "pending"
    /\ ~HasRunning
    /\ status' = [status EXCEPT ![t] = "running"]
    /\ IF t[2] = "visit"
       THEN /\ pc' = [pc EXCEPT ![t[1]] = "greeting"]
            /\ late' = late \cup {v \in Visits : pc[v] = "leaving"}
            /\ UNCHANGED runner
       ELSE runner' = t /\ UNCHANGED <<pc, late>>
    /\ UNCHANGED <<cancels, plan, announced, chanVars, textVars, stopping>>

(* ExecuteTaskEntry ends, by its deadline at the latest.                   *)
NavigationEnds(o) ==
    /\ runner # NoTask
    /\ o = "cancelled" => stopping
    /\ status' = [status EXCEPT ![runner] = o]
    /\ runner' = NoTask
    /\ UNCHANGED <<cancels, visitVars, chanVars, textVars, stopping>>

-----------------------------------------------------------------------------
(* The visitor request registry *)

Close(v) == closed' = IF v = NoVisit THEN closed ELSE closed \cup {v}

(* Faulty variant: the new channel takes the texts of the old one along.   *)
RegisterKeepsTexts(v) ==
    /\ pc[v] = "greeting"
    /\ Close(registered)
    /\ registered' = v
    /\ buffer' = IF registered = NoVisit THEN buffer
                 ELSE [buffer EXCEPT ![v] = buffer[registered]]
    /\ pc' = [pc EXCEPT ![v] = "listening"]
    /\ UNCHANGED <<taskVars, plan, announced, late, textVars, stopping>>

(* After the greeting: a new channel, closing the one registered before.   *)
Register(v) ==
    /\ pc[v] = "greeting"
    /\ Close(registered)
    /\ registered' = v
    /\ pc' = [pc EXCEPT ![v] = "listening"]
    /\ UNCHANGED <<taskVars, plan, announced, late, buffer, textVars, stopping>>

(* The deferred Unregister: whichever channel the robot has is closed and  *)
(* removed, be it another visit's.                                         *)
Leave(v) ==
    /\ pc[v] = "leaving"
    /\ Close(registered)
    /\ registered' = NoVisit
    /\ pc' = [pc EXCEPT ![v] = "done"]
    /\ UNCHANGED <<taskVars, plan, announced, late, buffer, textVars, stopping>>

(* Submit: the channel is looked up under the lock ...                     *)
LookUp(x) ==
    /\ holder[x] = NoVisit /\ reply[x] = "none"
    /\ IF registered = NoVisit
       THEN reply' = [reply EXCEPT ![x] = "refused"] /\ UNCHANGED holder
       ELSE holder' = [holder EXCEPT ![x] = registered] /\ UNCHANGED reply
    /\ UNCHANGED <<taskVars, visitVars, chanVars, stopping>>

(* ... and the text sent after unlocking.  A closed channel makes the send *)
(* panic, which net/http turns into a broken connection.                   *)
Send(x) ==
    LET v == holder[x] IN
    /\ v # NoVisit /\ reply[x] = "none"
    /\ \/ v \in closed /\ reply' = [reply EXCEPT ![x] = "panic"] /\ UNCHANGED buffer
       \/ /\ v \notin closed /\ Len(buffer[v]) < Cap
          /\ reply' = [reply EXCEPT ![x] = "accepted"]
          /\ buffer' = [buffer EXCEPT ![v] = Append(@, x)]
       \/ /\ v \notin closed /\ Len(buffer[v]) >= Cap
          /\ reply' = [reply EXCEPT ![x] = "refused"] /\ UNCHANGED buffer
    /\ UNCHANGED <<taskVars, visitVars, registered, closed, holder, stopping>>

-----------------------------------------------------------------------------
(* The handler's Run *)

(* completeTask writes the outcome whatever the task's status is.          *)
Complete(v, o) ==
    /\ status' = [status EXCEPT ![<<v, "visit">>] = o]
    /\ pc' = [pc EXCEPT ![v] = "leaving"]

(* The first text.  Texts that were buffered when the channel was closed   *)
(* are still received.                                                     *)
Hear(v) ==
    /\ pc[v] = "listening" /\ buffer[v] # <<>>
    /\ buffer' = [buffer EXCEPT ![v] = Tail(@)]
    /\ pc' = [pc EXCEPT ![v] = "thinking"]
    /\ UNCHANGED <<taskVars, plan, announced, late, registered, closed, textVars, stopping>>

(* The context ends or the channel is closed: cancelled.                   *)
GiveUp(v) ==
    /\ pc[v] = "listening"
    /\ stopping \/ (v \in closed /\ buffer[v] = <<>>)
    /\ Complete(v, "cancelled")
    /\ UNCHANGED <<runner, cancels, plan, announced, late, chanVars, textVars, stopping>>

(* processRequest: the gateway finds a store in the text or does not.      *)
Understand(v) ==
    /\ pc[v] = "thinking"
    /\ \/ /\ pc' = [pc EXCEPT ![v] = "routing"]
          /\ UNCHANGED status
       \/ Complete(v, "completed")
    /\ UNCHANGED <<runner, cancels, plan, announced, late, chanVars, textVars, stopping>>

(* The planner's answers for a map and a store: a route needs both ends.   *)
RoutesTo ==
    [i \in DOMAIN Maps |-> [store \in Directory |->
        LET dest == FindStoreNode(Maps[i], store)
            base == GetBasePoint(Maps[i])
        IN IF NoNode \in {dest, base} THEN {NoRoute}
           ELSE CalculateRoute(Maps[i], base, dest)]]

(* The store's node, the base and the route between them, as far as the    *)
(* map has them.  The map is loaded once; nothing else depends on it, so   *)
(* it is chosen here.                                                      *)
Plan(v, i, store) ==
    /\ pc[v] = "routing"
    /\ \E r \in RoutesTo[i][store] : plan' = [map |-> i, store |-> store, route |-> r]
    /\ pc' = [pc EXCEPT ![v] = "following"]
    /\ UNCHANGED <<taskVars, announced, late, chanVars, textVars, stopping>>

(* createNavigateTask, or failed if the store refuses it.                  *)
Lead(v) ==
    /\ pc[v] = "following"
    /\ CreateTask(<<v, "nav">>)
    /\ plan' = NoPlan
    /\ pc' = [pc EXCEPT ![v] = "leading"]
    /\ UNCHANGED <<runner, cancels, announced, late, chanVars, textVars, stopping>>

LeadFails(v) ==
    /\ pc[v] = "following"
    /\ Complete(v, "failed")
    /\ plan' = NoPlan
    /\ UNCHANGED <<runner, cancels, announced, late, chanVars, textVars, stopping>>

(* Faulty variant: the wait has no deadline.                               *)
ArriveWithoutDeadline(v) ==
    /\ pc[v] = "leading"
    /\ status[<<v, "nav">>] \in Ended \/ stopping
    /\ announced' = announced \cup {v}
    /\ pc' = [pc EXCEPT ![v] = "arriving"]
    /\ UNCHANGED <<taskVars, plan, late, chanVars, textVars, stopping>>

(* waitForNavigation returns: the task has ended, the context has ended or *)
(* 30 seconds have passed.  navigation_completed and the arrival are       *)
(* announced in every case.                                                *)
Arrive(v) ==
    /\ pc[v] = "leading"
    /\ announced' = announced \cup {v}
    /\ pc' = [pc EXCEPT ![v] = "arriving"]
    /\ UNCHANGED <<taskVars, plan, late, chanVars, textVars, stopping>>

(* createReturnTask, whose error is dropped, and completeTask.             *)
Finish(v) ==
    /\ pc[v] = "arriving"
    /\ \E back \in {"pending", "none"} :
          status' = [status EXCEPT ![<<v, "return">>] = back, ![<<v, "visit">>] = "completed"]
    /\ pc' = [pc EXCEPT ![v] = "leaving"]
    /\ UNCHANGED <<runner, cancels, plan, announced, late, chanVars, textVars, stopping>>

Shutdown ==
    /\ ~stopping
    /\ stopping' = TRUE
    /\ UNCHANGED <<taskVars, visitVars, chanVars, textVars>>

-----------------------------------------------------------------------------
Init ==
    /\ status = [t \in Tasks |-> "none"]
    /\ runner = NoTask /\ cancels = 0
    /\ pc = [v \in Visits |-> "none"]
    /\ registered = NoVisit /\ closed = {}
    /\ buffer = [v \in Visits |-> <<>>]
    /\ holder = [x \in Texts |-> NoVisit] /\ reply = [x \in Texts |-> "none"]
    /\ plan = NoPlan
    /\ announced = {} /\ late = {}
    /\ stopping = FALSE

Handler(v) ==
    \/ Register(v) \/ Hear(v) \/ GiveUp(v) \/ Understand(v)
    \/ \E i \in DOMAIN Maps, store \in Directory : Plan(v, i, store)
    \/ Lead(v) \/ LeadFails(v) \/ Arrive(v) \/ Finish(v) \/ Leave(v)

Runner == (\E t \in Tasks : RunTask(t)) \/ (\E o \in Ended : NavigationEnds(o))

Clients ==
    \/ \E v \in Visits : StartCheck(v) \/ StartStore(v)
    \/ \E t \in Tasks : CancelTask(t)
    \/ \E x \in Texts : LookUp(x) \/ Send(x)

Next == (\E v \in Visits : Handler(v)) \/ Runner \/ Clients \/ Shutdown

Spec == Init /\ [][Next]_vars

(* Goroutines are scheduled; visitors and operators owe nothing.           *)
FairSpec == Spec /\ WF_vars(Runner) /\ \A v \in Visits : WF_vars(Handler(v))
-----------------------------------------------------------------------------
(* Properties *)

TypeOK ==
    /\ status \in [Tasks -> {"none", "pending", "running"} \cup Ended]
    /\ runner \in Tasks \cup {NoTask} /\ cancels \in 0..MaxCancels
    /\ pc \in [Visits -> VisitPC]
    /\ registered \in Visits \cup {NoVisit} /\ closed \subseteq Visits
    /\ buffer \in [Visits -> Seq(Texts)] /\ \A v \in Visits : Len(buffer[v]) <= Cap
    /\ holder \in [Texts -> Visits \cup {NoVisit}]
    /\ reply \in [Texts -> {"none", "accepted", "refused", "panic"}]
    /\ plan = NoPlan \/ (plan.map \in DOMAIN Maps /\ plan.store \in Directory)
    /\ plan.route.dist \in Nat
    /\ announced \subseteq Visits /\ late \subseteq Visits /\ stopping \in BOOLEAN

(* A visit ends cancelled only if operators cancelled something, the       *)
(* process is stopping, or an earlier visit's deferred Unregister came     *)
(* late and closed its channel.  Visits close each other's channels, but   *)
(* while the runner keeps the robot exclusive no two of them listen.       *)
UndisturbedVisits ==
    cancels = 0 /\ ~stopping /\ late = {} =>
        \A v \in Visits : status[<<v, "visit">>] # "cancelled"

(* A channel holds only texts that were accepted and whose request found   *)
(* this visit: a text held up between lookup and send never reaches the    *)
(* next visitor.                                                           *)
TextsStayWithVisit ==
    \A v \in Visits : \A x \in Range(buffer[v]) : holder[x] = v /\ reply[x] = "accepted"

(* The route handed to a navigation is a shortest one on the map, and      *)
(* there is none only when the map has none, even if the map is one-way,   *)
(* disconnected, ambiguous or names nodes it does not have.                *)
Shortest ==
    [i \in DOMAIN Maps |-> [store \in Directory |->
        LET ends == <<GetBasePoint(Maps[i]), FindStoreNode(Maps[i], store)>> IN
        IF NoNode \in Range(ends) THEN {NoRoute}
        ELSE ShortestRoutes(Maps[i], ends[1], ends[2])]]

RoutesShortest == plan # NoPlan => plan.route \in Shortest[plan.map][plan.store]

(* Once it has heard the visitor, a visit ends: the mutual waiting of      *)
(* visit and navigation is cut by the deadline of waitForNavigation.       *)
VisitEnds == \A v \in Visits : pc[v] = "thinking" ~> pc[v] = "done"

-----------------------------------------------------------------------------
(* What the documentation says and the code does not do *)

(* mall-assistant-scenario.md: the runner executes the navigation and on   *)
(* its completion the handler announces the arrival.  The arrival is       *)
(* announced when the wait times out, before the navigation has begun.     *)
ArrivalIsReal == \A v \in announced : status[<<v, "nav">>] = "completed"
==============================================================================
