------------------------- MODULE MallAssistantProofs -------------------------
(***************************************************************************)
(* Proofs about mall visits, for any number of visits and texts and any    *)
(* channel capacity: types, the channels of the visitors, what disturbs a  *)
(* visit.  Proofs about the route search, for any maps with identifiers    *)
(* and lengths: NewGraph builds the graph of the reference, a round of     *)
(* ShortestPath keeps Searching, its rounds empty the heap, and then no    *)
(* path is shorter than the answer.  Inductions, over edges, rounds and    *)
(* the nodes of a path, take the least counterexample.                     *)
(***************************************************************************)
EXTENDS MallAssistant, FiniteSetTheorems, SequenceTheorems, WellFoundedInduction, TLAPS

(* The types of everything but the planned route.                          *)
Typed ==
    /\ status \in [Tasks -> {"none", "pending", "running"} \cup Ended]
    /\ runner \in Tasks \cup {NoTask} /\ cancels \in 0..MaxCancels
    /\ pc \in [Visits -> VisitPC]
    /\ registered \in Visits \cup {NoVisit} /\ closed \subseteq Visits
    /\ buffer \in [Visits -> Seq(Texts)]
    /\ holder \in [Texts -> Visits \cup {NoVisit}]
    /\ reply \in [Texts -> {"none", "accepted", "refused", "panic"}]
    /\ late \subseteq Visits

(* Before a visit has a channel.                                           *)
Early == {"none", "asked", "queued", "greeting"}

(* The handler goroutine holds the robot: started, not yet completed.      *)
Acting == Alive \ {"leaving"}

(* The robot runs one task at a time; the runner itself only runs          *)
(* navigations; a visit waits for the runner only before it starts.        *)
OneRunning == \A t, u \in Tasks : status[t] = "running" /\ status[u] = "running" => t = u
RunnerNavigates == runner # NoTask => runner[2] # "visit"
PendingQueued == \A v \in Visits : status[<<v, "visit">>] = "pending" => pc[v] = "queued"

(* A visit has no channel, open or closed, before it registers.            *)
NoEarlyChannel == \A v \in Visits : v = registered \/ v \in closed => pc[v] \notin Early

(* Nobody has interfered: no cancellation, no shutdown, no late leaver.    *)
Quiet == cancels = 0 /\ ~stopping /\ late = {}

(* Then an acting visit is the running task, nobody else is on the way     *)
(* out, and the visit that listens has the registered, open channel.       *)
ActingRuns == Quiet => \A v \in Visits : pc[v] \in Acting => status[<<v, "visit">>] = "running"
NobodyLeaves == Quiet => \A v, u \in Visits : pc[v] \in Acting => pc[u] # "leaving"
ListenerOpen == Quiet => \A v \in Visits : pc[v] = "listening" => v = registered /\ v \notin closed

VisitInv ==
    /\ Typed /\ OneRunning /\ RunnerNavigates /\ PendingQueued /\ NoEarlyChannel
    /\ ActingRuns /\ NobodyLeaves /\ ListenerOpen
    /\ UndisturbedVisits

TextInv == Typed /\ TextsStayWithVisit

-----------------------------------------------------------------------------
(* Tasks *)

(* A visit has three tasks, which differ.                                  *)
LEMMA TaskOf ==
    /\ \A v \in Visits, k \in TaskKinds : <<v, k>> \in Tasks
    /\ \A t \in Tasks : t[1] \in Visits /\ t[2] \in TaskKinds
    /\ NoVisit \notin Visits /\ 0 \in 0..MaxCancels
BY VisitBounds DEF Tasks, TaskKinds, Visits, NoVisit

(* Tasks are told apart by their visit and their kind.                     *)
LEMMA TaskApart ==
    ASSUME NEW t \in Tasks, NEW v, NEW k
    PROVE  t = <<v, k>> <=> t[1] = v /\ t[2] = k
BY DEF Tasks

-----------------------------------------------------------------------------
(* Types *)

(* The initial state has the types.                                        *)
LEMMA InitTyped == Init => Typed
BY TaskOf DEF Init, Typed, VisitPC

(* Every step keeps them.                                                  *)
LEMMA TypedStep == Typed /\ Next => Typed'
<1> SUFFICES ASSUME Typed, Next PROVE Typed'
  OBVIOUS
<1> USE TaskOf, VisitBounds DEF Typed, VisitPC, Alive, taskVars, visitVars, chanVars, textVars,
        Ended, TaskKinds
<1>1. ASSUME NEW v \in Visits, Handler(v) PROVE Typed'
  <2>1. CASE Register(v)
    BY <2>1 DEF Register, Close
  <2>2. CASE Hear(v)
    <3>1. Tail(buffer[v]) \in Seq(Texts)
      BY <2>2 DEF Hear
    <3>2. QED
      BY <2>2, <3>1 DEF Hear
  <2>3. CASE GiveUp(v)
    BY <2>3 DEF GiveUp, Complete
  <2>4. CASE Understand(v)
    <3>1. CASE Complete(v, "completed")
      BY <2>4, <3>1 DEF Understand, Complete
    <3>2. CASE pc' = [pc EXCEPT ![v] = "routing"] /\ UNCHANGED status
      BY <2>4, <3>2 DEF Understand
    <3>3. QED
      BY <2>4, <3>1, <3>2 DEF Understand
  <2>5. CASE \E i \in DOMAIN Maps, store \in Directory : Plan(v, i, store)
    BY <2>5 DEF Plan
  <2>6. CASE Lead(v)
    BY <2>6 DEF Lead, CreateTask
  <2>7. CASE LeadFails(v)
    BY <2>7 DEF LeadFails, Complete
  <2>8. CASE Arrive(v)
    BY <2>8 DEF Arrive
  <2>9. CASE Finish(v)
    <3>1. PICK back \in {"pending", "none"} :
             status' = [status EXCEPT ![<<v, "return">>] = back, ![<<v, "visit">>] = "completed"]
      BY <2>9 DEF Finish
    <3>2. QED
      BY <2>9, <3>1 DEF Finish
  <2>10. CASE Leave(v)
    BY <2>10 DEF Leave, Close
  <2>11. QED
    BY <1>1, <2>1, <2>2, <2>3, <2>4, <2>5, <2>6, <2>7, <2>8, <2>9, <2>10 DEF Handler
<1>2. ASSUME NEW t \in Tasks, RunTask(t) PROVE Typed'
  BY <1>2 DEF RunTask
<1>3. ASSUME NEW o \in Ended, NavigationEnds(o) PROVE Typed'
  BY <1>3 DEF NavigationEnds
<1>4. ASSUME NEW v \in Visits, StartCheck(v) \/ StartStore(v) PROVE Typed'
  <2>1. CASE StartCheck(v)
    BY <2>1 DEF StartCheck
  <2>2. CASE StartStore(v)
    BY <2>2 DEF StartStore, CreateTask
  <2>3. QED
    BY <1>4, <2>1, <2>2
<1>5. ASSUME NEW t \in Tasks, CancelTask(t) PROVE Typed'
  BY <1>5 DEF CancelTask
<1>6. ASSUME NEW x \in Texts, LookUp(x) PROVE Typed'
  <2>1. holder' \in [Texts -> Visits \cup {NoVisit}]
    BY <1>6 DEF LookUp
  <2>2. reply' \in [Texts -> {"none", "accepted", "refused", "panic"}]
    BY <1>6 DEF LookUp
  <2>3. QED
    BY <1>6, <2>1, <2>2 DEF LookUp
<1>7. ASSUME NEW x \in Texts, Send(x) PROVE Typed'
  <2>1. holder[x] \in Visits
    BY <1>7 DEF Send
  <2>2. Append(buffer[holder[x]], x) \in Seq(Texts)
    <3>1. buffer[holder[x]] \in Seq(Texts)
      BY ONLY <2>1, Typed DEF Typed
    <3>2. QED
      BY ONLY <3>1, x \in Texts
  <2>3. buffer' = buffer \/ buffer' = [buffer EXCEPT ![holder[x]] = Append(@, x)]
    BY <1>7 DEF Send
  <2>4. buffer' \in [Visits -> Seq(Texts)]
    <3>1. buffer \in [Visits -> Seq(Texts)]
      BY ONLY Typed DEF Typed
    <3>2. QED
      BY ONLY <2>1, <2>2, <2>3, <3>1
  <2>5. \E r \in {"accepted", "refused", "panic"} : reply' = [reply EXCEPT ![x] = r]
    BY <1>7 DEF Send
  <2>6. QED
    BY <1>7, <2>4, <2>5 DEF Send
<1>8. CASE Shutdown
  BY <1>8 DEF Shutdown
<1>9. QED
  BY <1>1, <1>2, <1>3, <1>4, <1>5, <1>6, <1>7, <1>8 DEF Next, Runner, Clients

-----------------------------------------------------------------------------
(* Texts *)

(* Sending appends one text, receiving takes one away.                     *)
LEMMA TextsOf ==
    ASSUME NEW S, NEW s \in Seq(S)
    PROVE  /\ \A x \in S : Range(Append(s, x)) = Range(s) \cup {x}
           /\ s # <<>> => Range(Tail(s)) \subseteq Range(s)
<1>1. ASSUME NEW x \in S PROVE Range(Append(s, x)) = Range(s) \cup {x}
  <2>1. ASSUME NEW i \in DOMAIN s PROVE i \in DOMAIN Append(s, x) /\ Append(s, x)[i] = s[i]
    BY <1>1
  <2>2. Len(s) + 1 \in DOMAIN Append(s, x) /\ Append(s, x)[Len(s) + 1] = x
    BY <1>1
  <2>3. ASSUME NEW i \in DOMAIN Append(s, x), i # Len(s) + 1
        PROVE  i \in DOMAIN s /\ Append(s, x)[i] = s[i]
    BY <1>1, <2>3
  <2>4. QED
    BY <2>1, <2>2, <2>3 DEF Range
<1>2. ASSUME s # <<>>, NEW i \in DOMAIN Tail(s) PROVE Tail(s)[i] \in Range(s)
  <2>1. i + 1 \in DOMAIN s /\ Tail(s)[i] = s[i + 1]
    BY <1>2
  <2>2. QED
    BY <2>1 DEF Range
<1>3. QED
  BY <1>1, <1>2 DEF Range

(* No text has been accepted at first.                                     *)
LEMMA InitTexts == Init => TextsStayWithVisit
BY DEF Init, TextsStayWithVisit, Range

(* A text enters a channel when it is accepted, and its request then never *)
(* looks another channel up.                                               *)
LEMMA TextStep == TextInv /\ Next => TextsStayWithVisit'
<1> SUFFICES ASSUME Typed, TextsStayWithVisit, Next PROVE TextsStayWithVisit'
  BY DEF TextInv
<1>1. CASE UNCHANGED <<buffer, holder, reply>>
  BY <1>1 DEF TextsStayWithVisit
<1>2. ASSUME NEW v \in Visits, Hear(v) PROVE TextsStayWithVisit'
  <2>1. buffer' = [buffer EXCEPT ![v] = Tail(@)] /\ UNCHANGED textVars
    BY <1>2 DEF Hear
  <2>2. \A u \in Visits : Range(buffer'[u]) \subseteq Range(buffer[u])
    <3>1. Range(Tail(buffer[v])) \subseteq Range(buffer[v])
      BY <1>2, TextsOf DEF Hear, Typed
    <3>2. QED
      BY <2>1, <3>1 DEF Typed
  <2>3. QED
    BY <2>1, <2>2 DEF TextsStayWithVisit, textVars
<1>3. ASSUME NEW x \in Texts, LookUp(x) PROVE TextsStayWithVisit'
  <2>1. \A u \in Visits : x \notin Range(buffer[u])
    BY <1>3 DEF LookUp, TextsStayWithVisit
  <2>2. /\ \A y \in Texts \ {x} : holder'[y] = holder[y] /\ reply'[y] = reply[y]
        /\ buffer' = buffer
    BY <1>3 DEF LookUp, Typed, chanVars
  <2>3. \A u \in Visits : Range(buffer[u]) \subseteq Texts
    BY DEF Typed, Range
  <2>4. QED
    BY <2>1, <2>2, <2>3 DEF TextsStayWithVisit
<1>4. ASSUME NEW x \in Texts, Send(x) PROVE TextsStayWithVisit'
  <2>1. holder[x] \in Visits /\ holder' = holder /\ reply[x] = "none"
    BY <1>4 DEF Send, Typed
  <2>2. \A u \in Visits : x \notin Range(buffer[u])
    BY <2>1 DEF TextsStayWithVisit
  <2>3. \A u \in Visits : Range(buffer[u]) \subseteq Texts
    BY DEF Typed, Range
  <2>4. \A y \in Texts \ {x} : reply'[y] = reply[y]
    BY <1>4 DEF Send, Typed
  <2>5. CASE buffer' = buffer
    BY <2>1, <2>2, <2>3, <2>4, <2>5 DEF TextsStayWithVisit
  <2>6. CASE /\ reply' = [reply EXCEPT ![x] = "accepted"]
             /\ buffer' = [buffer EXCEPT ![holder[x]] = Append(@, x)]
    <3>1. Range(Append(buffer[holder[x]], x)) = Range(buffer[holder[x]]) \cup {x}
      BY <2>1, TextsOf DEF Typed
    <3>2. /\ Range(buffer'[holder[x]]) = Range(buffer[holder[x]]) \cup {x}
          /\ \A u \in Visits \ {holder[x]} : buffer'[u] = buffer[u]
      BY <2>1, <2>6, <3>1 DEF Typed
    <3>3. reply'[x] = "accepted"
      BY <2>6 DEF Typed
    <3>4. QED
      BY <2>1, <2>2, <2>3, <2>4, <3>2, <3>3 DEF TextsStayWithVisit
  <2>7. QED
    BY <1>4, <2>5, <2>6 DEF Send
<1>5. QED
  <2>1. ASSUME NEW v \in Visits, Handler(v) PROVE Hear(v) \/ UNCHANGED <<buffer, holder, reply>>
    BY <2>1 DEF Handler, Register, GiveUp, Understand, Plan, Lead, LeadFails, Arrive, Finish,
                Leave, chanVars, textVars
  <2>2. Runner \/ Shutdown => UNCHANGED <<buffer, holder, reply>>
    BY DEF Runner, RunTask, NavigationEnds, Shutdown, chanVars, textVars
  <2>3. Clients => \/ UNCHANGED <<buffer, holder, reply>>
                   \/ \E x \in Texts : LookUp(x) \/ Send(x)
    BY DEF Clients, StartCheck, StartStore, CancelTask, chanVars, textVars
  <2>4. QED
    BY <1>1, <1>2, <1>3, <1>4, <2>1, <2>2, <2>3 DEF Next

(* Everything the texts need is kept, by steps that stutter too.           *)
LEMMA TextInvStep == TextInv /\ [Next]_vars => TextInv'
<1> SUFFICES ASSUME TextInv, [Next]_vars PROVE TextInv'
  OBVIOUS
<1>1. CASE Next
  BY <1>1, TypedStep, TextStep DEF TextInv
<1>2. CASE UNCHANGED vars
  BY <1>2 DEF TextInv, Typed, TextsStayWithVisit, vars, taskVars, visitVars, chanVars, textVars
<1>3. QED
  BY <1>1, <1>2

(* A text held up between lookup and send never reaches the next visitor:  *)
(* VisitorRequestRegistry's channels hold accepted texts of their own      *)
(* visit only.                                                             *)
THEOREM TextsStayWithVisitHolds == Spec => []TextsStayWithVisit
<1>1. Init => TextInv
  BY InitTyped, InitTexts DEF TextInv
<1>2. TextInv => TextsStayWithVisit
  BY DEF TextInv
<1>3. QED
  BY <1>1, <1>2, TextInvStep, PTL DEF Spec

-----------------------------------------------------------------------------
(* Visits *)

(* Nothing holds or closes a channel at first, and no task exists.         *)
LEMMA InitVisits == Init => VisitInv
<1> SUFFICES ASSUME Init PROVE VisitInv
  OBVIOUS
<1>1. Typed
  BY InitTyped
<1>2. OneRunning /\ RunnerNavigates /\ PendingQueued /\ NoEarlyChannel
  BY TaskOf DEF Init, OneRunning, RunnerNavigates, PendingQueued, NoEarlyChannel, TaskKinds
<1>3. ActingRuns /\ NobodyLeaves /\ ListenerOpen /\ UndisturbedVisits
  BY TaskOf DEF Init, ActingRuns, NobodyLeaves, ListenerOpen, UndisturbedVisits, Acting, Alive,
                TaskKinds
<1>4. QED
  BY <1>1, <1>2, <1>3 DEF VisitInv

(* What a step of a handler, other than registering and leaving, does to   *)
(* its visit: the handler was acting, stays so or is on the way out, and   *)
(* then its task has ended.  Navigations it creates are only pending.      *)
Ends(v, p) ==
    IF p = "leaving"
    THEN \/ status'[<<v, "visit">>] \in {"completed", "failed"}
         \/ /\ status'[<<v, "visit">>] = "cancelled" /\ pc[v] = "listening"
            /\ stopping \/ v \in closed
    ELSE status'[<<v, "visit">>] = status[<<v, "visit">>]

Acts(v, p) ==
    /\ pc[v] \in Acting \ {"greeting"} /\ p \in Alive \ {"greeting", "listening"}
    /\ pc' = [pc EXCEPT ![v] = p]
    /\ \A t \in Tasks : \/ status'[t] = status[t]
                        \/ t[2] # "visit" /\ status'[t] \in {"pending", "none"}
                        \/ t = <<v, "visit">>
    /\ Ends(v, p)
    /\ UNCHANGED <<runner, cancels, late, registered, closed, stopping>>

(* A write to one task.                                                    *)
Writes(v, k, o) ==
    /\ status'[<<v, k>>] = o
    /\ \A t \in Tasks : status'[t] = status[t] \/ (t = <<v, k>> /\ status'[t] = o)

(* That is what storing a status does.                                     *)
LEMMA StatusSet ==
    ASSUME NEW v \in Visits, NEW k \in TaskKinds, NEW o, Typed,
           status' = [status EXCEPT ![<<v, k>>] = o]
    PROVE  Writes(v, k, o)
BY TaskOf DEF Typed, Writes

(* The handler's steps are of that kind.                                   *)
LEMMA HandlerActs ==
    ASSUME NEW v \in Visits, Typed, Handler(v)
    PROVE  Register(v) \/ Leave(v) \/ \E p \in Alive : Acts(v, p)
<1> DEFINE task == <<v, "visit">>
<1>0. /\ {"visit", "nav", "return"} \subseteq TaskKinds
      /\ task[2] = "visit" /\ <<v, "nav">>[2] # "visit" /\ <<v, "return">>[2] # "visit"
      /\ task \in Tasks /\ <<v, "nav">> \in Tasks /\ <<v, "return">> \in Tasks
  BY TaskOf DEF TaskKinds
<1>1. ASSUME NEW p \in Alive \ {"greeting", "listening", "leaving"},
             pc[v] \in Acting \ {"greeting"}, pc' = [pc EXCEPT ![v] = p],
             status' = status \/ CreateTask(<<v, "nav">>),
             UNCHANGED <<runner, cancels, late, registered, closed, stopping>>
      PROVE  Acts(v, p)
  <2>1. CASE status' = status
    BY <1>1, <2>1 DEF Acts, Ends
  <2>2. CASE CreateTask(<<v, "nav">>)
    <3>1. \A t \in Tasks : \/ status'[t] = status[t]
                           \/ t = <<v, "nav">> /\ status'[t] = "pending"
      <4>1. Writes(v, "nav", "pending")
        BY <1>0, <2>2, StatusSet DEF CreateTask
      <4>2. QED
        BY <4>1 DEF Writes
    <3>2. status'[task] = status[task]
      BY <1>0, <3>1
    <3>3. QED
      BY <1>0, <1>1, <3>1, <3>2 DEF Acts, Ends
  <2>3. QED
    BY <1>1, <2>1, <2>2
<1>2. ASSUME NEW o, pc[v] \in Acting \ {"greeting"}, Complete(v, o),
             \/ o \in {"completed", "failed"}
             \/ o = "cancelled" /\ pc[v] = "listening" /\ (stopping \/ v \in closed),
             UNCHANGED <<runner, cancels, late, registered, closed, stopping>>
      PROVE  Acts(v, "leaving")
  <2>1. /\ status'[task] = o
        /\ \A t \in Tasks : status'[t] = status[t] \/ t = task
    <3>1. status' = [status EXCEPT ![<<v, "visit">>] = o] /\ "visit" \in TaskKinds
      BY <1>0, <1>2 DEF Complete
    <3>2. /\ status'[<<v, "visit">>] = o
          /\ \A t \in Tasks :
                status'[t] = status[t] \/ (t = <<v, "visit">> /\ status'[t] = o)
      <4>1. Writes(v, "visit", o)
        BY <3>1, StatusSet
      <4>2. QED
        BY ONLY <4>1 DEF Writes
    <3>3. QED
      BY ONLY <3>2
  <2>2. "leaving" \in Alive \ {"greeting", "listening"}
    BY DEF Alive
  <2>3. Ends(v, "leaving")
    BY <1>2, <2>1 DEF Ends
  <2>4. pc' = [pc EXCEPT ![v] = "leaving"]
    BY <1>2 DEF Complete
  <2>5. QED
    BY ONLY <1>2, <2>1, <2>2, <2>3, <2>4 DEF Acts
<1>3. "leaving" \in Alive
  BY DEF Alive
<1> USE DEF taskVars, chanVars, textVars, Acting, Alive
<1>4. CASE Hear(v)
  BY <1>1, <1>4 DEF Hear
<1>5. CASE GiveUp(v)
  BY <1>2, <1>3, <1>5 DEF GiveUp
<1>6. CASE Understand(v)
  BY <1>1, <1>2, <1>3, <1>6 DEF Understand
<1>7. CASE \E i \in DOMAIN Maps, store \in Directory : Plan(v, i, store)
  <2>1. pc[v] = "routing" /\ pc' = [pc EXCEPT ![v] = "following"] /\ status' = status
    BY <1>7 DEF Plan
  <2>2. UNCHANGED <<runner, cancels, late, registered, closed, stopping>>
    BY <1>7 DEF Plan
  <2>3. QED
    BY <1>1, <2>1, <2>2
<1>8. CASE Lead(v)
  BY <1>1, <1>8 DEF Lead
<1>9. CASE LeadFails(v)
  BY <1>2, <1>3, <1>9 DEF LeadFails
<1>10. CASE Arrive(v)
  BY <1>1, <1>10 DEF Arrive
<1>11. CASE Finish(v)
  <2>1. PICK back \in {"pending", "none"} :
           status' = [status EXCEPT ![<<v, "return">>] = back, ![task] = "completed"]
    BY <1>11 DEF Finish
  <2>2. /\ status'[task] = "completed"
        /\ \A t \in Tasks : \/ status'[t] = status[t]
                            \/ t = <<v, "return">> /\ status'[t] \in {"pending", "none"}
                            \/ t = task
    BY <1>0, <2>1 DEF Typed
  <2>3. QED
    BY <1>0, <1>3, <1>11, <2>2 DEF Finish, Acts, Ends
<1>12. QED
  BY <1>4, <1>5, <1>6, <1>7, <1>8, <1>9, <1>10, <1>11 DEF Handler

(* A handler's step between registering and leaving.  The visit it ends as *)
(* cancelled was listening on a closed channel, and in quiet that of a     *)
(* listener is open.                                                       *)
LEMMA ActsKeeps ==
    ASSUME VisitInv, Typed', NEW v \in Visits, NEW p \in Alive, Acts(v, p)
    PROVE  VisitInv'
<1> USE DEF VisitInv, Typed, Acts
<1>1. <<v, "visit">>[1] = v /\ <<v, "visit">>[2] = "visit" /\ <<v, "visit">> \in Tasks
  BY TaskOf DEF TaskKinds
<1>2. /\ pc'[v] = p /\ \A u \in Visits \ {v} : pc'[u] = pc[u]
      /\ \A u \in Visits \ {v} : status'[<<u, "visit">>] = status[<<u, "visit">>]
  <2>1. \A u \in Visits \ {v} : /\ <<u, "visit">> \in Tasks /\ <<u, "visit">>[2] = "visit"
                                /\ <<u, "visit">> # <<v, "visit">>
    BY TaskOf DEF TaskKinds
  <2>2. QED
    BY <2>1
<1>3. \A t \in Tasks : status'[t] = "running" => status[t] = "running"
  BY DEF Ends
<1>4. status'[<<v, "visit">>] = "pending" => pc[v] = "queued"
  BY DEF Ends, PendingQueued
<1>5. OneRunning' /\ RunnerNavigates'
  BY <1>3 DEF OneRunning, RunnerNavigates
<1>6. PendingQueued'
  <2>1. status'[<<v, "visit">>] # "pending"
    BY <1>4 DEF Acting, Alive
  <2>2. QED
    BY <1>2, <2>1 DEF PendingQueued
<1>7. NoEarlyChannel'
  BY <1>2 DEF NoEarlyChannel, Early, Acting, Alive
<1>8. Quiet' <=> Quiet
  BY DEF Quiet
<1>9. ActingRuns'
  BY <1>2, <1>8 DEF ActingRuns, Acting, Ends
<1>10. NobodyLeaves'
  <2>1. ASSUME Quiet, NEW u \in Visits, u # v PROVE pc[u] \notin Acting
    <3>1. pc[u] \in Acting => status[<<u, "visit">>] = "running"
      BY <2>1 DEF ActingRuns
    <3>2. status[<<v, "visit">>] = "running"
      BY <2>1 DEF ActingRuns
    <3>3. <<u, "visit">> \in Tasks /\ <<u, "visit">> # <<v, "visit">>
      BY <2>1, TaskOf DEF TaskKinds
    <3>4. QED
      BY <1>1, <3>1, <3>2, <3>3 DEF OneRunning
  <2>2. QED
    BY <1>2, <1>8, <2>1 DEF NobodyLeaves, Acting
<1>11. ListenerOpen'
  BY <1>2, <1>8 DEF ListenerOpen
<1>12. UndisturbedVisits'
  <2>1. Quiet => status'[<<v, "visit">>] # "cancelled"
    BY DEF Ends, ListenerOpen, Quiet, UndisturbedVisits
  <2>2. QED
    BY <1>2, <1>8, <2>1 DEF UndisturbedVisits, Quiet
<1>13. QED
  BY <1>5, <1>6, <1>7, <1>9, <1>10, <1>11, <1>12

(* Registering closes the channel of the visit before, which in quiet no   *)
(* longer listens: only one visit acts at a time.                          *)
LEMMA RegisterKeeps ==
    ASSUME VisitInv, Typed', NEW v \in Visits, Register(v)
    PROVE  VisitInv'
<1> USE DEF VisitInv, Typed, Register, taskVars
<1>1. pc'[v] = "listening" /\ \A u \in Visits \ {v} : pc'[u] = pc[u]
  OBVIOUS
<1>2. registered # v /\ v \notin closed'
  BY TaskOf DEF NoEarlyChannel, Early, Close
<1>3. OneRunning' /\ RunnerNavigates'
  BY DEF OneRunning, RunnerNavigates
<1>4. PendingQueued'
  BY <1>1 DEF PendingQueued
<1>5. NoEarlyChannel'
  BY <1>1 DEF NoEarlyChannel, Early, Close
<1>6. Quiet' <=> Quiet
  BY DEF Quiet
<1>7. ActingRuns'
  BY <1>1, <1>6 DEF ActingRuns, Acting, Alive
<1>8. NobodyLeaves'
  BY <1>1, <1>6 DEF NobodyLeaves, Acting, Alive
<1>9. ListenerOpen'
  <2>1. ASSUME Quiet, NEW u \in Visits, u # v PROVE pc[u] # "listening"
    <3>1. pc[u] = "listening" => status[<<u, "visit">>] = "running"
      BY <2>1 DEF ActingRuns, Acting, Alive
    <3>2. status[<<v, "visit">>] = "running"
      BY <2>1 DEF ActingRuns, Acting, Alive
    <3>3. /\ <<u, "visit">> \in Tasks /\ <<v, "visit">> \in Tasks
          /\ <<u, "visit">> # <<v, "visit">>
      BY <2>1, TaskOf DEF TaskKinds
    <3>4. QED
      BY <3>1, <3>2, <3>3 DEF OneRunning
  <2>2. QED
    BY <1>1, <1>2, <1>6, <2>1 DEF ListenerOpen
<1>10. UndisturbedVisits'
  BY <1>6 DEF UndisturbedVisits, Quiet
<1>11. QED
  BY <1>3, <1>4, <1>5, <1>7, <1>8, <1>9, <1>10

(* Leaving closes whichever channel is registered; in quiet nobody acts    *)
(* while somebody leaves, so nobody listens on it.                         *)
LEMMA LeaveKeeps ==
    ASSUME VisitInv, Typed', NEW v \in Visits, Leave(v)
    PROVE  VisitInv'
<1> USE DEF VisitInv, Typed, Leave, taskVars
<1>1. pc'[v] = "done" /\ \A u \in Visits \ {v} : pc'[u] = pc[u]
  OBVIOUS
<1>2. OneRunning' /\ RunnerNavigates'
  BY DEF OneRunning, RunnerNavigates
<1>3. PendingQueued'
  BY <1>1 DEF PendingQueued
<1>4. NoEarlyChannel'
  BY <1>1, TaskOf DEF NoEarlyChannel, Early, Close
<1>5. Quiet' <=> Quiet
  BY DEF Quiet
<1>6. ActingRuns'
  BY <1>1, <1>5 DEF ActingRuns, Acting, Alive
<1>7. NobodyLeaves'
  BY <1>1, <1>5 DEF NobodyLeaves, Acting, Alive
<1>8. ListenerOpen'
  <2>1. Quiet => \A u \in Visits : pc[u] # "listening"
    BY DEF NobodyLeaves, Acting, Alive
  <2>2. QED
    BY <1>1, <1>5, <2>1 DEF ListenerOpen
<1>9. UndisturbedVisits'
  BY <1>5 DEF UndisturbedVisits, Quiet
<1>10. QED
  BY <1>2, <1>3, <1>4, <1>6, <1>7, <1>8, <1>9

(* The runner starts a task only when none is running; a visit it starts   *)
(* while another one has yet to unregister ends the quiet.                 *)
LEMMA RunTaskKeeps ==
    ASSUME VisitInv, Typed', NEW t \in Tasks, RunTask(t)
    PROVE  VisitInv'
<1>0. /\ t[1] \in Visits /\ \A u \in Visits : <<u, "visit">> \in Tasks
      /\ \A u \in Visits : t = <<u, "visit">> <=> t[1] = u /\ t[2] = "visit"
  <2>1. t[1] \in Visits /\ \A u \in Visits : <<u, "visit">> \in Tasks
    BY ONLY TaskOf, t \in Tasks DEF TaskKinds
  <2>2. QED
    BY ONLY <2>1, TaskApart, t \in Tasks
<1> USE DEF VisitInv, Typed, RunTask, chanVars
<1>1. /\ status'[t] = "running" /\ \A u \in Tasks \ {t} : status'[u] = status[u]
      /\ \A u \in Tasks : status[u] # "running"
  BY DEF HasRunning
<1>2. OneRunning'
  BY <1>1 DEF OneRunning
<1>3. RunnerNavigates'
  BY DEF RunnerNavigates
<1>4. Quiet' => Quiet
  BY DEF Quiet
<1>5. Quiet => \A u \in Visits : pc[u] \notin Acting
  BY <1>0, <1>1 DEF ActingRuns
<1>6. \A u \in Visits : status'[<<u, "visit">>] \in {status[<<u, "visit">>], "running"}
  BY <1>0, <1>1
<1>7. UndisturbedVisits'
  BY <1>4, <1>6 DEF UndisturbedVisits, Quiet
<1>8. CASE t[2] = "visit"
  <2>1. /\ t = <<t[1], "visit">> /\ pc[t[1]] = "queued" /\ pc'[t[1]] = "greeting"
        /\ \A u \in Visits \ {t[1]} : pc'[u] = pc[u]
        /\ late' = late \cup {v \in Visits : pc[v] = "leaving"}
    BY <1>0, <1>8 DEF PendingQueued
  <2>2. PendingQueued'
    BY <1>0, <1>1, <2>1 DEF PendingQueued
  <2>3. NoEarlyChannel'
    BY <1>0, <2>1 DEF NoEarlyChannel, Early
  <2>4. ActingRuns'
    BY <1>1, <1>4, <1>5, <2>1 DEF ActingRuns
  <2>5. NobodyLeaves'
    BY <2>1 DEF NobodyLeaves, Quiet
  <2>6. ListenerOpen'
    BY <1>4, <2>1 DEF ListenerOpen
  <2>7. QED
    BY <1>2, <1>3, <1>7, <2>2, <2>3, <2>4, <2>5, <2>6
<1>9. CASE t[2] # "visit"
  <2>1. /\ pc' = pc /\ late' = late
        /\ \A u \in Visits : status'[<<u, "visit">>] = status[<<u, "visit">>]
    BY <1>0, <1>1, <1>9
  <2>2. PendingQueued' /\ NoEarlyChannel'
    BY <2>1 DEF PendingQueued, NoEarlyChannel
  <2>3. ActingRuns' /\ NobodyLeaves' /\ ListenerOpen'
    BY <1>4, <2>1 DEF ActingRuns, NobodyLeaves, ListenerOpen
  <2>4. QED
    BY <1>2, <1>3, <1>7, <2>2, <2>3
<1>10. QED
  BY <1>8, <1>9

(* The navigation that ends is no visit.                                   *)
LEMMA NavigationEndsKeeps ==
    ASSUME VisitInv, Typed', NEW o \in Ended, NavigationEnds(o)
    PROVE  VisitInv'
<1> USE DEF VisitInv, Typed, NavigationEnds, visitVars, chanVars
<1>1. /\ runner \in Tasks /\ status'[runner] = o
      /\ \A t \in Tasks \ {runner} : status'[t] = status[t]
  OBVIOUS
<1>2. \A u \in Visits : /\ <<u, "visit">> \in Tasks
                        /\ status'[<<u, "visit">>] = status[<<u, "visit">>]
  <2>1. \A u \in Visits : <<u, "visit">> \in Tasks /\ <<u, "visit">> # runner
    BY <1>1, TaskOf, TaskApart DEF RunnerNavigates, TaskKinds
  <2>2. QED
    BY <1>1, <2>1
<1>3. OneRunning'
  BY <1>1 DEF OneRunning, Ended
<1>4. RunnerNavigates'
  BY DEF RunnerNavigates
<1>5. PendingQueued' /\ NoEarlyChannel' /\ UndisturbedVisits'
  BY <1>2 DEF PendingQueued, NoEarlyChannel, UndisturbedVisits
<1>6. Quiet' <=> Quiet
  BY DEF Quiet
<1>7. ActingRuns' /\ NobodyLeaves' /\ ListenerOpen'
  BY <1>2, <1>6 DEF ActingRuns, NobodyLeaves, ListenerOpen
<1>8. QED
  BY <1>3, <1>4, <1>5, <1>7

(* A visit is asked for and its task created; nothing acts on it yet.      *)
LEMMA StartKeeps ==
    ASSUME VisitInv, Typed', NEW v \in Visits, StartCheck(v) \/ StartStore(v)
    PROVE  VisitInv'
<1> USE DEF VisitInv, Typed, chanVars, taskVars
<1>1. /\ pc[v] \in {"none", "asked"} /\ pc'[v] \in {"asked", "queued"}
      /\ \A u \in Visits \ {v} : pc'[u] = pc[u]
      /\ UNCHANGED <<runner, cancels, late, registered, closed, stopping>>
  BY DEF StartCheck, StartStore
<1>2. \/ status' = status
      \/ pc'[v] = "queued" /\ status' = [status EXCEPT ![<<v, "visit">>] = "pending"]
  BY DEF StartCheck, StartStore, CreateTask
<1>3. \A t \in Tasks : \/ status'[t] = status[t]
                       \/ t = <<v, "visit">> /\ status'[t] = "pending" /\ pc'[v] = "queued"
  BY <1>2
<1>4. \A u \in Visits : /\ <<u, "visit">> \in Tasks
                        /\ u # v => <<u, "visit">> # <<v, "visit">>
  BY TaskOf DEF TaskKinds
<1>5. OneRunning' /\ RunnerNavigates'
  BY <1>1, <1>3 DEF OneRunning, RunnerNavigates
<1>6. PendingQueued'
  BY <1>1, <1>3, <1>4 DEF PendingQueued
<1>7. NoEarlyChannel'
  BY <1>1 DEF NoEarlyChannel, Early
<1>8. Quiet' <=> Quiet
  BY <1>1 DEF Quiet
<1>9. ActingRuns'
  BY <1>1, <1>3, <1>4, <1>8 DEF ActingRuns, Acting, Alive
<1>10. NobodyLeaves' /\ ListenerOpen'
  BY <1>1, <1>8 DEF NobodyLeaves, ListenerOpen, Acting, Alive
<1>11. UndisturbedVisits'
  BY <1>1, <1>3, <1>4 DEF UndisturbedVisits
<1>12. QED
  BY <1>5, <1>6, <1>7, <1>9, <1>10, <1>11

(* A cancellation or a shutdown ends the quiet.                            *)
LEMMA DisturbedKeeps ==
    ASSUME VisitInv, Typed', Shutdown \/ \E t \in Tasks : CancelTask(t)
    PROVE  VisitInv'
<1> USE DEF VisitInv, Typed
<1>1. ~Quiet' /\ UNCHANGED <<pc, runner, registered, closed>>
  BY VisitBounds DEF Quiet, Shutdown, CancelTask, visitVars, chanVars, taskVars
<1>2. \A t \in Tasks : status'[t] = status[t] \/ status'[t] = "cancelled"
  BY DEF Shutdown, CancelTask, taskVars
<1>3. \A u \in Visits : <<u, "visit">> \in Tasks
  BY TaskOf DEF TaskKinds
<1>4. OneRunning' /\ RunnerNavigates' /\ PendingQueued' /\ NoEarlyChannel'
  <2>1. OneRunning'
    BY <1>2 DEF OneRunning
  <2>2. RunnerNavigates' /\ NoEarlyChannel'
    BY <1>1 DEF RunnerNavigates, NoEarlyChannel
  <2>3. PendingQueued'
    BY <1>1, <1>2, <1>3 DEF PendingQueued
  <2>4. QED
    BY ONLY <2>1, <2>2, <2>3
<1>5. ActingRuns' /\ NobodyLeaves' /\ ListenerOpen' /\ UndisturbedVisits'
  BY <1>1 DEF ActingRuns, NobodyLeaves, ListenerOpen, UndisturbedVisits, Quiet
<1>6. QED
  BY <1>4, <1>5

(* Every step keeps the visits' invariant.                                 *)
LEMMA VisitInvStep == VisitInv /\ [Next]_vars => VisitInv'
<1> SUFFICES ASSUME VisitInv, [Next]_vars PROVE VisitInv'
  OBVIOUS
<1>1. CASE UNCHANGED <<status, runner, cancels, pc, late, registered, closed, stopping>> /\ Typed'
  <2>1. (OneRunning /\ RunnerNavigates /\ PendingQueued /\ NoEarlyChannel)'
    BY <1>1 DEF VisitInv, OneRunning, RunnerNavigates, PendingQueued, NoEarlyChannel
  <2>2. (ActingRuns /\ NobodyLeaves /\ ListenerOpen /\ UndisturbedVisits)'
    BY <1>1 DEF VisitInv, ActingRuns, NobodyLeaves, ListenerOpen, UndisturbedVisits, Quiet
  <2>3. QED
    BY <1>1, <2>1, <2>2 DEF VisitInv
<1>2. CASE Next
  <2>1. Typed'
    BY <1>2, TypedStep DEF VisitInv
  <2>2. ASSUME NEW v \in Visits, Handler(v) PROVE VisitInv'
    BY <2>1, <2>2, HandlerActs, RegisterKeeps, LeaveKeeps, ActsKeeps DEF VisitInv
  <2>3. CASE Runner
    BY <2>1, <2>3, RunTaskKeeps, NavigationEndsKeeps DEF Runner
  <2>4. ASSUME NEW x \in Texts, LookUp(x) \/ Send(x) PROVE VisitInv'
    BY <1>1, <2>1, <2>4 DEF LookUp, Send, taskVars, visitVars, chanVars
  <2>5. CASE Clients
    BY <2>1, <2>4, <2>5, StartKeeps, DisturbedKeeps DEF Clients
  <2>6. QED
    BY <1>2, <2>1, <2>2, <2>3, <2>5, DisturbedKeeps DEF Next
<1>3. CASE UNCHANGED vars
  <2>1. Typed'
    BY <1>3 DEF VisitInv, Typed, vars, taskVars, visitVars, chanVars, textVars
  <2>2. QED
    BY <1>1, <1>3, <2>1 DEF vars, taskVars, visitVars, chanVars
<1>4. QED
  BY <1>2, <1>3

(* A visit ends cancelled only through a cancellation, a shutdown or a     *)
(* late Unregister: the task runner's exclusion of the robot is what keeps *)
(* visits from closing each other's visitor channels.                      *)
THEOREM UndisturbedVisitsHolds == Spec => []UndisturbedVisits
<1>1. VisitInv => UndisturbedVisits
  BY DEF VisitInv
<1>2. QED
  BY <1>1, InitVisits, VisitInvStep, PTL DEF Spec

(* The runner's exclusion itself: of a robot's visits, navigations and     *)
(* ways back, at most one is running in the task store.                    *)
THEOREM OneTaskRuns == Spec => []OneRunning
<1>1. VisitInv => OneRunning
  BY DEF VisitInv
<1>2. QED
  BY <1>1, InitVisits, VisitInvStep, PTL DEF Spec

-----------------------------------------------------------------------------
(* Arrivals: a visit and the navigation it waits for                       *)

(* The navigation of a visit is stored when its handler begins to wait for *)
(* it, and a navigation the runner has taken up is no longer pending.      *)
Setting == {"none", "asked", "queued", "greeting", "listening", "thinking", "routing", "following"}
NotCreated == \A v \in Visits : pc[v] \in Setting => status[<<v, "nav">>] = "none"
TakenUp == runner[2] = "nav" => status[runner] \notin {"none", "pending"}

(* In quiet, it is not begun while the handler waits for it, nor when the  *)
(* handler announces the arrival.                                          *)
NeverBegun ==
    Quiet => \A v \in Visits : pc[v] \in {"leading", "arriving"} => status[<<v, "nav">>] = "pending"

ArrivalInv == VisitInv /\ NotCreated /\ TakenUp /\ NeverBegun

(* A handler's step that is no Lead leaves the navigations alone.          *)
LeadsOnly(v) ==
    /\ \A u \in Visits \ {v} : /\ pc'[u] = pc[u]
                              /\ status'[<<u, "nav">>] = status[<<u, "nav">>]
    /\ \/ status'[<<v, "nav">>] = status[<<v, "nav">>] /\ pc'[v] # "leading"
       \/ /\ status'[<<v, "nav">>] = "pending" /\ pc'[v] = "leading" /\ pc[v] = "following"
    /\ pc'[v] \in Setting => pc[v] \in Setting
    /\ pc'[v] = "arriving" => pc[v] = "leading"
    /\ UNCHANGED <<runner, cancels, late, stopping>>

(* The handlers' steps are of that kind.                                   *)
LEMMA HandlerLeads ==
    ASSUME NEW v \in Visits, Typed, Handler(v)
    PROVE  LeadsOnly(v)
<1>0. /\ {"visit", "nav", "return"} \subseteq TaskKinds /\ pc[v] \in VisitPC
      /\ \A u \in Visits : <<u, "nav">> \in Tasks
  BY TaskOf DEF TaskKinds, Typed
<1>1. ASSUME NEW k \in {"visit", "return"}, NEW o, status' = [status EXCEPT ![<<v, k>>] = o]
      PROVE  \A u \in Visits : status'[<<u, "nav">>] = status[<<u, "nav">>]
  BY <1>0, <1>1 DEF Typed
<1>2. CASE Register(v) \/ Hear(v) \/ Arrive(v) \/ Leave(v)
           \/ \E i \in DOMAIN Maps, store \in Directory : Plan(v, i, store)
  BY <1>2 DEF Register, Hear, Arrive, Leave, Plan, taskVars, Typed, Setting, LeadsOnly
<1>3. CASE GiveUp(v) \/ LeadFails(v)
  BY <1>1, <1>3 DEF GiveUp, LeadFails, Complete, Typed, Setting, LeadsOnly
<1>4. CASE Understand(v)
  BY <1>1, <1>4 DEF Understand, Complete, Typed, Setting, LeadsOnly
<1>5. CASE Lead(v)
  <2>1. /\ status'[<<v, "nav">>] = "pending"
        /\ \A u \in Visits \ {v} : status'[<<u, "nav">>] = status[<<u, "nav">>]
    BY <1>0, <1>5 DEF Lead, CreateTask, Typed
  <2>2. pc'[v] = "leading" /\ pc[v] = "following" /\ \A u \in Visits \ {v} : pc'[u] = pc[u]
    BY <1>5 DEF Lead, Typed
  <2>3. QED
    BY <1>5, <2>1, <2>2 DEF Lead, Setting, LeadsOnly
<1>6. CASE Finish(v)
  <2>1. PICK back \in {"pending", "none"} :
           status' = [status EXCEPT ![<<v, "return">>] = back, ![<<v, "visit">>] = "completed"]
    BY <1>6 DEF Finish
  <2>2. \A u \in Visits : status'[<<u, "nav">>] = status[<<u, "nav">>]
    BY <1>0, <2>1 DEF Typed
  <2>3. QED
    BY <1>6, <2>2 DEF Finish, Typed, Setting, LeadsOnly
<1>7. QED
  BY <1>2, <1>3, <1>4, <1>5, <1>6 DEF Handler

(* The runner begins no navigation while a visit is running, and one whose *)
(* visit has not led yet does not exist.                                   *)
LEMMA RunnerWaits ==
    ASSUME ArrivalInv, Runner
    PROVE  NotCreated' /\ TakenUp' /\ NeverBegun'
<1> USE DEF ArrivalInv, VisitInv, Typed
<1>0. \A u \in Visits : <<u, "nav">> \in Tasks /\ <<u, "visit">> \in Tasks
                        /\ <<u, "nav">>[2] = "nav" /\ <<u, "nav">> # <<u, "visit">>
  BY TaskOf DEF TaskKinds
<1>1. ASSUME NEW t \in Tasks, RunTask(t) PROVE NotCreated' /\ TakenUp' /\ NeverBegun'
  <2>1. /\ runner = NoTask /\ status[t] = "pending" /\ status'[t] = "running"
        /\ \A s \in Tasks \ {t} : status'[s] = status[s]
        /\ \A s \in Tasks : status[s] # "running"
    BY <1>1 DEF RunTask, HasRunning
  <2>2. \A u \in Visits : pc'[u] = pc[u] \/ (pc[u] = "queued" /\ pc'[u] = "greeting")
    <3>1. CASE t[2] = "visit"
      <4>1. t[1] \in Visits /\ t = <<t[1], "visit">>
        BY <3>1, TaskOf, TaskApart
      <4>2. pc[t[1]] = "queued"
        BY <2>1, <4>1 DEF PendingQueued
      <4>3. pc' = [pc EXCEPT ![t[1]] = "greeting"] /\ pc \in [Visits -> VisitPC]
        BY <1>1, <3>1 DEF RunTask
      <4>4. QED
        BY ONLY <4>1, <4>2, <4>3
    <3>2. CASE t[2] # "visit"
      BY <1>1, <3>2 DEF RunTask
    <3>3. QED
      BY <3>1, <3>2
  <2>3. NotCreated'
    <3>1. ASSUME NEW u \in Visits, pc'[u] \in Setting PROVE status'[<<u, "nav">>] = "none"
      <4>1. pc[u] \in Setting
        BY ONLY <2>2, <3>1 DEF Setting
      <4>2. status[<<u, "nav">>] = "none" /\ <<u, "nav">> \in Tasks
        BY <1>0, <4>1 DEF NotCreated
      <4>3. <<u, "nav">> # t
        BY ONLY <2>1, <4>2
      <4>4. QED
        BY ONLY <2>1, <4>2, <4>3
    <3>2. QED
      BY ONLY <3>1 DEF NotCreated
  <2>4. TakenUp'
    BY <1>1, <2>1 DEF RunTask, NoTask, TakenUp
  <2>5. Quiet' => Quiet
    BY <1>1 DEF Quiet, RunTask
  <2>6. NeverBegun'
    <3>1. Quiet => \A u \in Visits : pc[u] \notin {"leading", "arriving"}
      BY <1>0, <2>1 DEF ActingRuns, Acting, Alive
    <3>2. QED
      BY <2>2, <2>5, <3>1 DEF NeverBegun
  <2>7. QED
    BY <2>3, <2>4, <2>6
<1>2. ASSUME NEW o \in Ended, NavigationEnds(o) PROVE NotCreated' /\ TakenUp' /\ NeverBegun'
  <2>1. /\ runner \in Tasks /\ runner' = NoTask /\ pc' = pc
        /\ \A s \in Tasks \ {runner} : status'[s] = status[s]
        /\ UNCHANGED <<cancels, late, stopping>>
    BY <1>2 DEF NavigationEnds, visitVars
  <2>2. \A u \in Visits : status[<<u, "nav">>] \in {"none", "pending"} =>
                             status'[<<u, "nav">>] = status[<<u, "nav">>]
    BY <1>0, <2>1 DEF TakenUp
  <2>3. NotCreated' /\ NeverBegun'
    BY <2>1, <2>2 DEF NotCreated, NeverBegun, Quiet
  <2>4. TakenUp'
    BY <2>1 DEF TakenUp, NoTask
  <2>5. QED
    BY <2>3, <2>4
<1>3. QED
  BY <1>1, <1>2 DEF Runner

(* Every step keeps the invariant of arrivals.                             *)
LEMMA ArrivalStep == ArrivalInv /\ [Next]_vars => ArrivalInv'
<1> SUFFICES ASSUME ArrivalInv, [Next]_vars PROVE ArrivalInv'
  OBVIOUS
<1>0. VisitInv' /\ Typed /\ \A u \in Visits : <<u, "nav">> \in Tasks /\ <<u, "nav">>[2] = "nav"
  BY VisitInvStep, TaskOf DEF ArrivalInv, VisitInv, TaskKinds
<1>1. CASE UNCHANGED <<status, runner, pc, cancels, late, stopping>>
  BY <1>0, <1>1 DEF ArrivalInv, NotCreated, TakenUp, NeverBegun, Quiet
<1>2. ASSUME NEW v \in Visits, Handler(v) PROVE ArrivalInv'
  <2>0. LeadsOnly(v)
    BY <1>0, <1>2, HandlerLeads
  <2>1. NotCreated'
    <3>1. ASSUME NEW u \in Visits, pc'[u] \in Setting PROVE status'[<<u, "nav">>] = "none"
      <4>1. pc[u] \in Setting /\ status'[<<u, "nav">>] = status[<<u, "nav">>]
        BY <2>0, <3>1 DEF LeadsOnly, Setting
      <4>2. QED
        BY <4>1 DEF ArrivalInv, NotCreated
    <3>2. QED
      BY <3>1 DEF NotCreated
  <2>2. NeverBegun'
    BY <2>0 DEF LeadsOnly, ArrivalInv, NeverBegun, Quiet
  <2>3. TakenUp'
    <3>1. runner' = runner
      BY <2>0 DEF LeadsOnly
    <3>2. ASSUME runner[2] = "nav" PROVE status'[runner] \notin {"none", "pending"}
      <4>1. runner # NoTask
        BY <3>2 DEF NoTask
      <4>2. runner \in Tasks /\ status[runner] \notin {"none", "pending"}
        BY <1>0, <3>2, <4>1 DEF ArrivalInv, TakenUp, Typed
      <4>3. runner[1] \in Visits /\ runner = <<runner[1], "nav">>
        BY <3>2, <4>2, TaskOf, TaskApart
      <4>4. PICK u \in Visits : runner = <<u, "nav">>
        BY <4>3
      <4>5. status[<<u, "nav">>] # "none" /\ pc[u] \notin Setting
        BY <4>2, <4>4 DEF ArrivalInv, NotCreated
      <4>6. status'[<<u, "nav">>] = status[<<u, "nav">>]
        BY <2>0, <4>5 DEF LeadsOnly, Setting
      <4>7. QED
        BY <4>2, <4>4, <4>6
    <3>3. QED
      BY <3>1, <3>2 DEF TakenUp
  <2>4. QED
    BY <1>0, <2>1, <2>2, <2>3 DEF ArrivalInv
<1>3. ASSUME NEW v \in Visits, StartCheck(v) \/ StartStore(v) PROVE ArrivalInv'
  <2>1. /\ pc[v] \in {"none", "asked"} /\ pc'[v] \in {"asked", "queued"}
        /\ \A u \in Visits \ {v} : pc'[u] = pc[u]
        /\ UNCHANGED <<runner, cancels, late, stopping>>
    BY <1>0, <1>3 DEF StartCheck, StartStore, Typed, taskVars
  <2>2. \A t \in Tasks : t[2] = "nav" => status'[t] = status[t]
    BY <1>0, <1>3 DEF StartCheck, StartStore, CreateTask, Typed, taskVars
  <2>3. NotCreated' /\ NeverBegun'
    BY <1>0, <2>1, <2>2 DEF ArrivalInv, NotCreated, NeverBegun, Setting, Quiet
  <2>4. TakenUp'
    BY <1>0, <2>1, <2>2 DEF ArrivalInv, TakenUp, Typed, NoTask
  <2>5. QED
    BY <1>0, <2>3, <2>4 DEF ArrivalInv
<1>4. CASE Shutdown \/ \E t \in Tasks : CancelTask(t)
  <2>1. ~Quiet' /\ UNCHANGED <<pc, runner>>
    BY <1>0, <1>4, VisitBounds DEF Quiet, Shutdown, CancelTask, visitVars, taskVars, Typed
  <2>2. \A t \in Tasks : \/ status'[t] = status[t]
                         \/ status[t] # "none" /\ status'[t] = "cancelled"
    BY <1>0, <1>4 DEF Shutdown, CancelTask, taskVars, Typed
  <2>3. NotCreated'
    BY <1>0, <2>1, <2>2 DEF ArrivalInv, NotCreated
  <2>4. TakenUp'
    BY <1>0, <2>1, <2>2 DEF ArrivalInv, TakenUp, Typed, NoTask
  <2>5. QED
    BY <1>0, <2>1, <2>3, <2>4 DEF ArrivalInv, NeverBegun
<1>5. ASSUME NEW x \in Texts, LookUp(x) \/ Send(x) PROVE ArrivalInv'
  BY <1>1, <1>5 DEF LookUp, Send, taskVars, visitVars
<1>6. CASE Runner
  BY <1>0, <1>6, RunnerWaits DEF ArrivalInv
<1>7. CASE UNCHANGED vars
  BY <1>1, <1>7 DEF vars, taskVars, visitVars
<1>8. QED
  BY <1>2, <1>3, <1>4, <1>5, <1>6, <1>7 DEF Next, Clients

(* waitForNavigation waits in vain: nobody cancels, nobody shuts down and  *)
(* no visit overlaps another one's end, and still the navigation has not   *)
(* begun when the arrival is announced, in every visit that gets so far.   *)
THEOREM ArrivalsNeverBegun == Spec => []NeverBegun
<1>1. Init => ArrivalInv
  <2>1. Init => NotCreated
    BY TaskOf DEF Init, NotCreated, TaskKinds
  <2>2. Init => TakenUp /\ NeverBegun
    BY DEF Init, TakenUp, NeverBegun, NoTask
  <2>3. QED
    BY <2>1, <2>2, InitVisits DEF ArrivalInv
<1>2. ArrivalInv => NeverBegun
  BY DEF ArrivalInv
<1>3. QED
  BY <1>1, <1>2, ArrivalStep, PTL DEF Spec

-----------------------------------------------------------------------------
(* Induction and arithmetic *)

(* Induction is done by taking the least counterexample: every set of      *)
(* naturals that is not empty has a least element.                         *)
LEMMA Least ==
    ASSUME NEW T \in SUBSET Nat, T # {}
    PROVE  \E m \in T : \A n \in T : m <= n
<1>1. PICK x \in T : \A y \in T : ~ (<<y, x>> \in OpToRel(<, Nat))
  BY NatLessThanWellFounded, WFMin
<1>2. ASSUME NEW y \in T PROVE x <= y
  <2>1. <<y, x>> \in Nat \X Nat /\ <<y, x>>[1] = y /\ <<y, x>>[2] = x
    OBVIOUS
  <2>2. ~(y < x)
    BY <1>1, <2>1 DEF OpToRel
  <2>3. QED
    BY <2>2
<1>3. QED
  BY <1>2

(* A finite set of naturals that is not empty has a greatest element.      *)
LEMMA Greatest ==
    ASSUME NEW S \in SUBSET Nat, IsFiniteSet(S), S # {}
    PROVE  Max(S) \in S /\ \A x \in S : x <= Max(S)
<1> DEFINE Fine(T) == \E m \in T : \A x \in T : x <= m
           Sizes == {n \in Nat : \E T \in SUBSET S : T # {} /\ ~Fine(T) /\ n = Cardinality(T)}
<1>1. Fine(S)
  <2> SUFFICES ASSUME ~Fine(S) PROVE FALSE
    OBVIOUS
  <2> HIDE DEF Fine
  <2>1. Cardinality(S) \in Sizes
    BY FS_CardinalityType
  <2>2. PICK n \in Sizes : \A m \in Sizes : n <= m
    <3>1. Sizes \in SUBSET Nat /\ Sizes # {}
      BY <2>1
    <3> HIDE DEF Sizes
    <3>2. QED
      BY <3>1, Least
  <2>3. PICK T \in SUBSET S : T # {} /\ ~Fine(T) /\ n = Cardinality(T)
    BY <2>2
  <2>4. PICK x \in T : TRUE
    BY <2>3
  <2> DEFINE U == T \ {x}
  <2>5. n \in Nat /\ Cardinality(U) = n - 1 /\ Cardinality(U) \in Nat /\ U \in SUBSET S
    <3>1. IsFiniteSet(T)
      BY FS_Subset
    <3>2. QED
      BY <2>2, <2>3, <2>4, <3>1, FS_RemoveElement, FS_CardinalityType
  <2>6. CASE U = {}
    BY <2>3, <2>4, <2>6 DEF Fine
  <2>7. CASE U # {}
    <3>1. Fine(U)
      <4> HIDE DEF U
      <4>1. Cardinality(U) \notin Sizes
        <5>1. Cardinality(U) \in Sizes => n <= Cardinality(U)
          BY <2>2
        <5>2. QED
          BY <2>5, <5>1
      <4>2. QED
        BY <2>5, <2>7, <4>1
    <3>2. PICK m \in U : \A y \in U : y <= m
      BY <3>1 DEF Fine
    <3>3. m \in Nat /\ x \in Nat /\ m \in T
      BY <2>5
    <3>4. CASE x <= m
      BY <2>3, <3>2, <3>3, <3>4 DEF Fine
    <3>5. CASE ~(x <= m)
      <4>1. \A y \in T : y <= x
        BY <2>5, <3>2, <3>3, <3>5
      <4>2. QED
        BY <2>3, <4>1 DEF Fine
    <3>6. QED
      BY <3>4, <3>5
  <2>8. QED
    BY <2>6, <2>7
<1>2. PICK m \in S : \A x \in S : x <= m
  BY <1>1
<1>3. m \in S /\ \A x \in S : m >= x
  BY <1>2
<1>4. Max(S) \in S /\ \A x \in S : Max(S) >= x
  BY <1>3, Zenon DEF Max
<1>5. QED
  BY <1>4

-----------------------------------------------------------------------------
(* The graph *)

Edges == [from : STRING, to : STRING, distance : Nat, both : BOOLEAN]

(* The adjacency map has an edge; an edge of the map leads from x to y.    *)
Has(adj, x, y) == x \in DOMAIN adj /\ y \in DOMAIN adj[x]
Leads(e, x, y) == (e.from = x /\ e.to = y) \/ (e.both /\ e.from = y /\ e.to = x)

(* One entry of the table that NewGraph fills.                             *)
Grown(nodes, edges, g, i) ==
    IF i = 0 THEN [x \in nodes |-> <<>>]
    ELSE LET e == edges[i]
             there == Link(g[i - 1], e.from, e.to, e.distance)
         IN IF e.both THEN Link(there, e.to, e.from, e.distance) ELSE there
Growing(nodes, edges, g, n) == g = [i \in 0..n |-> Grown(nodes, edges, g, i)]

(* Such a table exists: each entry is computed from the one before.        *)
LEMMA GrowingExists ==
    ASSUME NEW nodes, NEW edges, NEW n \in Nat
    PROVE  \E g : Growing(nodes, edges, g, n)
<1> DEFINE Bad == {k \in Nat : ~ \E g : Growing(nodes, edges, g, k)}
<1>1. SUFFICES ASSUME Bad # {} PROVE FALSE
  OBVIOUS
<1>2. PICK m \in Bad : \A k \in Bad : m <= k
  <2>1. Bad \in SUBSET Nat
    OBVIOUS
  <2> HIDE DEF Bad
  <2>2. QED
    BY <1>1, <2>1, Least
<1>3. m # 0
  <2> SUFFICES ASSUME m = 0 PROVE FALSE
    OBVIOUS
  <2> DEFINE g == [i \in 0..0 |-> [x \in nodes |-> <<>>]]
  <2>1. Growing(nodes, edges, g, 0)
    BY DEF Growing, Grown
  <2> HIDE DEF g
  <2>2. QED
    BY <1>2, <2>1
<1>4. m - 1 \in Nat /\ ~(m <= m - 1)
  BY <1>3
<1>5. PICK g : Growing(nodes, edges, g, m - 1)
  BY <1>2, <1>4
<1> DEFINE h == [i \in 0..m |-> Grown(nodes, edges, g, i)]
<1>6. ASSUME NEW i \in 0..m PROVE h[i] = Grown(nodes, edges, h, i)
  <2>1. h[i] = Grown(nodes, edges, g, i)
    OBVIOUS
  <2>2. ASSUME i # 0 PROVE h[i - 1] = g[i - 1]
    <3>1. i - 1 \in 0..(m - 1) /\ i - 1 \in 0..m
      BY <2>2
    <3>2. g[i - 1] = Grown(nodes, edges, g, i - 1)
      BY <1>5, <3>1 DEF Growing
    <3>3. h[i - 1] = Grown(nodes, edges, g, i - 1)
      BY <3>1
    <3>4. QED
      BY <3>2, <3>3
  <2> HIDE DEF h
  <2>3. QED
    BY <2>1, <2>2 DEF Grown
<1>7. h = [i \in 0..m |-> h[i]]
  OBVIOUS
<1> HIDE DEF h
<1>8. Growing(nodes, edges, h, m)
  BY <1>6, <1>7 DEF Growing
<1>9. QED
  BY <1>2, <1>8

(* NewGraph is the last entry of the table.                                *)
LEMMA NewGraphGrown ==
    ASSUME NEW nodes, NEW edges, Len(edges) \in Nat
    PROVE  \E g : Growing(nodes, edges, g, Len(edges)) /\ NewGraph(nodes, edges) = g[Len(edges)]
<1> DEFINE g == CHOOSE g : Growing(nodes, edges, g, Len(edges))
<1>1. Growing(nodes, edges, g, Len(edges))
  BY GrowingExists
<1>2. NewGraph(nodes, edges) = g[Len(edges)]
  BY DEF NewGraph, Growing, Grown
<1> HIDE DEF g
<1>3. QED
  BY <1>1, <1>2

(* An entry more in the adjacency map.                                     *)
Extends(b, a, u, v, w) ==
    /\ DOMAIN b = DOMAIN a \cup {u}
    /\ \A x, y : Has(b, x, y) <=> Has(a, x, y) \/ (x = u /\ y = v)
    /\ \A x, y : Has(b, x, y) => b[x][y] = IF x = u /\ y = v THEN w ELSE a[x][y]

(* Link adds the edge and leaves all others alone.                         *)
LEMMA Linked ==
    ASSUME NEW a, NEW u, NEW v, NEW w
    PROVE  Extends(Link(a, u, v, w), a, u, v, w)
<1> DEFINE b == Link(a, u, v, w)
<1> DEFINE row == IF u \in DOMAIN a THEN a[u] ELSE <<>>
           new == [y \in DOMAIN row \cup {v} |-> IF y = v THEN w ELSE row[y]]
<1>1. b = [x \in DOMAIN a \cup {u} |-> IF x = u THEN new ELSE a[x]]
  BY DEF Link
<1> HIDE DEF b
<1>2. \A y : y \in DOMAIN row <=> Has(a, u, y)
  BY DEF Has
<1>3. \A y : y \in DOMAIN new <=> Has(a, u, y) \/ y = v
  BY <1>2
<1>4. \A y \in DOMAIN new : new[y] = IF y = v THEN w ELSE a[u][y]
  BY <1>2 DEF Has
<1> HIDE DEF new, row
<1>5. DOMAIN b = DOMAIN a \cup {u} /\ b[u] = new /\ \A x \in DOMAIN a : x # u => b[x] = a[x]
  BY <1>1
<1>6. ASSUME NEW x, NEW y PROVE Has(b, x, y) <=> Has(a, x, y) \/ (x = u /\ y = v)
  BY <1>3, <1>5 DEF Has
<1>7. ASSUME NEW x, NEW y, Has(b, x, y)
      PROVE  b[x][y] = IF x = u /\ y = v THEN w ELSE a[x][y]
  BY <1>3, <1>4, <1>5, <1>7 DEF Has
<1>8. Extends(b, a, u, v, w)
  BY <1>5, <1>6, <1>7 DEF Extends
<1>9. QED
  BY <1>8 DEF b

(* One edge of the map, open in one direction or both.                     *)
Drawing(a, e) ==
    LET there == Link(a, e.from, e.to, e.distance)
    IN IF e.both THEN Link(there, e.to, e.from, e.distance) ELSE there

Draws(b, a, e) ==
    /\ DOMAIN a \subseteq DOMAIN b /\ DOMAIN b \subseteq DOMAIN a \cup {e.from, e.to}
    /\ \A x, y : Has(b, x, y) <=> Has(a, x, y) \/ Leads(e, x, y)
    /\ \A x, y : Has(b, x, y) => b[x][y] = IF Leads(e, x, y) THEN e.distance ELSE a[x][y]

(* What NewGraph does for one edge of the map.                             *)
LEMMA EdgeLinked ==
    ASSUME NEW a, NEW e \in Edges
    PROVE  Draws(Drawing(a, e), a, e)
<1> DEFINE b == Drawing(a, e)
<1> DEFINE c == Link(a, e.from, e.to, e.distance)
<1>1. /\ DOMAIN c = DOMAIN a \cup {e.from}
      /\ \A x, y : Has(c, x, y) <=> Has(a, x, y) \/ (x = e.from /\ y = e.to)
      /\ \A x, y : Has(c, x, y) =>
            c[x][y] = IF x = e.from /\ y = e.to THEN e.distance ELSE a[x][y]
  <2>1. Extends(c, a, e.from, e.to, e.distance)
    BY Linked
  <2> HIDE DEF c
  <2>2. QED
    BY <2>1 DEF Extends
<1>2. b = IF e.both THEN Link(c, e.to, e.from, e.distance) ELSE c
  BY DEF Drawing
<1> HIDE DEF b, c
<1>3. ASSUME ~e.both PROVE Draws(b, a, e)
  BY <1>1, <1>2, <1>3 DEF Leads, Draws
<1>4. ASSUME e.both PROVE Draws(b, a, e)
  <2>1. b = Link(c, e.to, e.from, e.distance)
    BY <1>2, <1>4
  <2>2. /\ DOMAIN b = DOMAIN c \cup {e.to}
        /\ \A x, y : Has(b, x, y) <=> Has(c, x, y) \/ (x = e.to /\ y = e.from)
        /\ \A x, y : Has(b, x, y) =>
              b[x][y] = IF x = e.to /\ y = e.from THEN e.distance ELSE c[x][y]
    <3>1. Extends(b, c, e.to, e.from, e.distance)
      BY <2>1, Linked
    <3>2. QED
      BY <3>1 DEF Extends
  <2>3. \A x, y : Leads(e, x, y) <=> (x = e.from /\ y = e.to) \/ (x = e.to /\ y = e.from)
    BY <1>4 DEF Leads
  <2>4. ASSUME NEW x, NEW y, Has(b, x, y)
        PROVE  b[x][y] = IF Leads(e, x, y) THEN e.distance ELSE a[x][y]
    <3>1. CASE x = e.to /\ y = e.from
      BY <2>2, <2>3, <2>4, <3>1
    <3>2. CASE ~(x = e.to /\ y = e.from)
      <4>1. Has(c, x, y) /\ b[x][y] = c[x][y]
        BY <2>2, <2>4, <3>2
      <4>2. c[x][y] = IF x = e.from /\ y = e.to THEN e.distance ELSE a[x][y]
        BY <1>1, <4>1
      <4>3. QED
        BY <2>3, <3>2, <4>1, <4>2
    <3>3. QED
      BY <3>1, <3>2
  <2>5. QED
    BY <1>1, <2>2, <2>3, <2>4 DEF Draws
<1>5. Draws(b, a, e)
  BY <1>3, <1>4
<1>6. QED
  BY <1>5 DEF b

(* What the first k edges give: a later edge replaces an earlier one.      *)
Drawn(nodes, edges, a, k) ==
    /\ nodes \subseteq DOMAIN a
    /\ DOMAIN a \subseteq nodes \cup UNION {{edges[i].from, edges[i].to} : i \in 1..k}
    /\ \A x, y : Has(a, x, y) <=> \E i \in 1..k : Leads(edges[i], x, y)
    /\ \A x, y : Has(a, x, y) =>
          \E m \in 1..k : /\ Leads(edges[m], x, y) /\ a[x][y] = edges[m].distance
                          /\ \A i \in 1..k : Leads(edges[i], x, y) => i <= m

(* One more edge of the map is drawn.                                      *)
LEMMA DrawnStep ==
    ASSUME NEW nodes, NEW edges \in Seq(Edges), NEW k \in 1..Len(edges), NEW a, NEW b,
           Drawn(nodes, edges, a, k - 1),
           b = Drawing(a, edges[k])
    PROVE  Drawn(nodes, edges, b, k)
<1> DEFINE e == edges[k]
<1>0. e \in Edges /\ k \in Nat /\ k - 1 \in Nat /\ k \in 1..k
      /\ (\A i \in 1..k : i = k \/ i \in 1..(k - 1))
      /\ \A i \in 1..(k - 1) : i \in 1..k /\ i <= k /\ i # k
  OBVIOUS
<1>1. /\ DOMAIN a \subseteq DOMAIN b /\ DOMAIN b \subseteq DOMAIN a \cup {e.from, e.to}
      /\ \A x, y : Has(b, x, y) <=> Has(a, x, y) \/ Leads(e, x, y)
      /\ \A x, y : Has(b, x, y) => b[x][y] = IF Leads(e, x, y) THEN e.distance ELSE a[x][y]
  <2>1. Draws(b, a, e)
    BY <1>0, EdgeLinked
  <2> HIDE DEF e
  <2>2. QED
    BY <2>1 DEF Draws
<1> HIDE DEF e
<1>2. DOMAIN b \subseteq nodes \cup UNION {{edges[i].from, edges[i].to} : i \in 1..k}
  <2>1. e = edges[k]
    BY DEF e
  <2>2. DOMAIN a \subseteq nodes \cup UNION {{edges[i].from, edges[i].to} : i \in 1..(k - 1)}
    BY DEF Drawn
  <2>3. QED
    BY <1>0, <1>1, <2>1, <2>2
<1>3. ASSUME NEW x, NEW y PROVE Has(b, x, y) <=> \E i \in 1..k : Leads(edges[i], x, y)
  <2>1. Has(a, x, y) <=> \E i \in 1..(k - 1) : Leads(edges[i], x, y)
    BY DEF Drawn
  <2>2. Has(b, x, y) <=> Has(a, x, y) \/ Leads(edges[k], x, y)
    BY <1>1 DEF e
  <2>3. QED
    BY <1>0, <2>1, <2>2
<1>4. ASSUME NEW x, NEW y, Has(b, x, y)
      PROVE  \E m \in 1..k : /\ Leads(edges[m], x, y) /\ b[x][y] = edges[m].distance
                             /\ \A i \in 1..k : Leads(edges[i], x, y) => i <= m
  <2>1. CASE Leads(edges[k], x, y)
    <3>1. b[x][y] = edges[k].distance
      BY <1>1, <1>4, <2>1 DEF e
    <3>2. \A i \in 1..k : i <= k
      BY <1>0
    <3>3. QED
      BY <1>0, <2>1, <3>1, <3>2
  <2>2. CASE ~Leads(edges[k], x, y)
    <3>1. Has(a, x, y) /\ b[x][y] = a[x][y]
      BY <1>1, <1>4, <2>2 DEF e
    <3>2. PICK m \in 1..(k - 1) : /\ Leads(edges[m], x, y) /\ a[x][y] = edges[m].distance
                                  /\ \A i \in 1..(k - 1) : Leads(edges[i], x, y) => i <= m
      BY <3>1 DEF Drawn
    <3>3. QED
      BY <1>0, <2>2, <3>1, <3>2
  <2>3. QED
    BY <2>1, <2>2
<1>5. nodes \subseteq DOMAIN b
  BY <1>1 DEF Drawn
<1>6. QED
  BY <1>2, <1>3, <1>4, <1>5 DEF Drawn

(* NewGraph draws all of them.                                             *)
LEMMA NewGraphDrawn ==
    ASSUME NEW nodes, NEW edges \in Seq(Edges)
    PROVE  Drawn(nodes, edges, NewGraph(nodes, edges), Len(edges))
<1>0. Len(edges) \in Nat
  OBVIOUS
<1>1. PICK g : Growing(nodes, edges, g, Len(edges)) /\ NewGraph(nodes, edges) = g[Len(edges)]
  BY <1>0, NewGraphGrown
<1> DEFINE Bad == {k \in 0..Len(edges) : ~Drawn(nodes, edges, g[k], k)}
<1>2. ASSUME Bad # {} PROVE FALSE
  <2>1. Bad \in SUBSET Nat
    BY <1>0
  <2>2. PICK k \in Bad : \A m \in Bad : k <= m
    <3> HIDE DEF Bad
    <3>1. QED
      BY <1>2, <2>1, Least
  <2>3. k \in 0..Len(edges) /\ ~Drawn(nodes, edges, g[k], k) /\ g[k] = Grown(nodes, edges, g, k)
    BY <1>1, <2>2 DEF Growing
  <2>4. CASE k = 0
    <3>1. g[k] = [x \in nodes |-> <<>>]
      BY <2>3, <2>4 DEF Grown
    <3>2. \A x, y : ~Has(g[k], x, y)
      BY <3>1 DEF Has
    <3>3. \A i \in 1..k : FALSE
      BY <2>4
    <3>4. DOMAIN g[k] = nodes
      BY <3>1
    <3>5. QED
      BY <2>3, <3>2, <3>3, <3>4 DEF Drawn
  <2>5. CASE k # 0
    <3>1. k - 1 \in 0..Len(edges) /\ k \in 1..Len(edges) /\ ~(k <= k - 1)
      BY <1>0, <2>3, <2>5
    <3>2. Drawn(nodes, edges, g[k - 1], k - 1)
      BY <2>2, <3>1
    <3>3. g[k] = Drawing(g[k - 1], edges[k])
      BY <2>3, <2>5 DEF Grown, Drawing
    <3>4. QED
      BY <2>3, <3>1, <3>2, <3>3, DrawnStep
  <2>6. QED
    BY <2>4, <2>5
<1>3. Len(edges) \in 0..Len(edges)
  BY <1>0
<1>4. QED
  BY <1>1, <1>2, <1>3

(* The image of a finite set is finite.                                    *)
LEMMA FiniteRange ==
    ASSUME NEW f, IsFiniteSet(DOMAIN f)
    PROVE  IsFiniteSet(Range(f))
<1> DEFINE g == [x \in DOMAIN f |-> f[x]]
<1>1. g \in Surjection(DOMAIN f, Range(f))
  BY DEF Surjection, Range
<1> HIDE DEF g
<1>2. QED
  BY <1>1, FS_Surjection

(* The adjacency map says what the map says: an edge is there when the map *)
(* has one, with the length of the last.                                   *)
OnMap(adj, m) ==
    /\ m.nodes \subseteq DOMAIN adj /\ DOMAIN adj \subseteq Places(m)
    /\ \A x, y : Weights(m, x, y) = IF Has(adj, x, y) THEN {adj[x][y]} ELSE {}
    /\ \A x, y : Has(adj, x, y) =>
          /\ x \in Places(m) /\ y \in Places(m)
          /\ \E i \in DOMAIN m.edges : adj[x][y] = m.edges[i].distance

(* The adjacency map of NewGraph has the weights of the reference.         *)
LEMMA NewGraphOnMap ==
    ASSUME NEW m, IsMap(m)
    PROVE  OnMap(NewGraph(m.nodes, m.edges), m)
<1> DEFINE adj == NewGraph(m.nodes, m.edges)
           n == Len(m.edges)
<1>1. m.edges \in Seq(Edges) /\ n \in Nat /\ DOMAIN m.edges = 1..n
  BY DEF IsMap, Edges
<1>2. Drawn(m.nodes, m.edges, adj, n)
  BY <1>1, NewGraphDrawn
<1> HIDE DEF adj
<1>3. ASSUME NEW i \in 1..n PROVE m.edges[i].from \in Places(m) /\ m.edges[i].to \in Places(m)
  BY <1>1 DEF Places, Range
<1>4. m.nodes \subseteq DOMAIN adj /\ DOMAIN adj \subseteq Places(m)
  <2>1. /\ m.nodes \subseteq DOMAIN adj
        /\ DOMAIN adj \subseteq m.nodes \cup UNION {{m.edges[i].from, m.edges[i].to} : i \in 1..n}
    BY <1>2 DEF Drawn
  <2>2. m.nodes \subseteq Places(m)
    BY DEF Places
  <2> HIDE DEF n
  <2>3. QED
    BY <1>3, <2>1, <2>2
<1>5. ASSUME NEW x, NEW y PROVE Weights(m, x, y) = IF Has(adj, x, y) THEN {adj[x][y]} ELSE {}
  <2> DEFINE H == {i \in DOMAIN m.edges : Leads(m.edges[i], x, y)}
  <2>1. Weights(m, x, y) = IF H = {} THEN {} ELSE {m.edges[Max(H)].distance}
    BY DEF Weights, Leads
  <2>2. Has(adj, x, y) <=> H # {}
    <3>1. Has(adj, x, y) <=> \E i \in 1..n : Leads(m.edges[i], x, y)
      BY <1>2 DEF Drawn
    <3>2. QED
      BY <1>1, <3>1
  <2>3. ASSUME Has(adj, x, y) PROVE m.edges[Max(H)].distance = adj[x][y]
    <3>1. PICK k \in 1..n : /\ Leads(m.edges[k], x, y) /\ adj[x][y] = m.edges[k].distance
                            /\ \A i \in 1..n : Leads(m.edges[i], x, y) => i <= k
      BY <1>2, <2>3 DEF Drawn
    <3>2. k \in H /\ (\A i \in H : i <= k) /\ H \in SUBSET Nat /\ H \in SUBSET (1..n)
      BY <1>1, <3>1
    <3> HIDE DEF H
    <3>3. IsFiniteSet(H)
      <4>1. IsFiniteSet(1..n)
        BY <1>1, FS_Interval
      <4>2. QED
        BY <3>2, <4>1, FS_Subset
    <3>4. Max(H) \in H /\ \A i \in H : i <= Max(H)
      BY <3>2, <3>3, Greatest
    <3>5. Max(H) = k
      <4>1. Max(H) \in Nat /\ k \in Nat /\ Max(H) <= k /\ k <= Max(H)
        BY <3>2, <3>4
      <4>2. QED
        BY <4>1
    <3>6. QED
      BY <3>1, <3>5
  <2>4. QED
    BY <2>1, <2>2, <2>3
<1>6. ASSUME NEW x, NEW y, Has(adj, x, y)
      PROVE  /\ x \in Places(m) /\ y \in Places(m)
             /\ \E i \in DOMAIN m.edges : adj[x][y] = m.edges[i].distance
  <2>1. PICK k \in 1..n : Leads(m.edges[k], x, y) /\ adj[x][y] = m.edges[k].distance
    BY <1>2, <1>6 DEF Drawn
  <2>2. QED
    BY <1>1, <1>3, <2>1 DEF Leads
<1>7. OnMap(adj, m)
  BY <1>4, <1>5, <1>6 DEF OnMap
<1>8. QED
  BY <1>7 DEF adj

(* A map has finitely many places.                                         *)
LEMMA PlacesFinite ==
    ASSUME NEW m, IsMap(m)
    PROVE  IsFiniteSet(Places(m))
<1> DEFINE n == Len(m.edges)
           F == [i \in 1..n |-> m.edges[i].from]
           T == [i \in 1..n |-> m.edges[i].to]
<1>1. n \in Nat /\ DOMAIN m.edges = 1..n /\ IsFiniteSet(m.nodes)
  BY DEF IsMap
<1>2. IsFiniteSet(1..n)
  BY <1>1, FS_Interval
<1>3. IsFiniteSet(Range(F)) /\ IsFiniteSet(Range(T))
  BY <1>2, FiniteRange
<1>4. Places(m) = m.nodes \cup (Range(F) \cup Range(T))
  <2>1. Range(F) = {m.edges[i].from : i \in 1..n} /\ Range(T) = {m.edges[i].to : i \in 1..n}
    BY DEF Range
  <2>2. Range(m.edges) = {m.edges[i] : i \in 1..n}
    BY <1>1 DEF Range
  <2> HIDE DEF n, F, T
  <2>3. QED
    BY <2>1, <2>2 DEF Places
<1> HIDE DEF F, T
<1>5. IsFiniteSet(Range(F) \cup Range(T))
  BY <1>3, FS_Union
<1>6. IsFiniteSet(m.nodes \cup (Range(F) \cup Range(T)))
  BY <1>1, <1>5, FS_Union
<1>7. QED
  BY <1>4, <1>6

(* A graph the search can work on: finite, with lengths of at most top,    *)
(* and Infinity beyond every path that visits no node twice.               *)
IsGraph(adj, top) ==
    /\ IsFiniteSet(DOMAIN adj) /\ NoNode \notin DOMAIN adj /\ top \in Nat
    /\ Infinity(adj) = 1 + Cardinality(DOMAIN adj) * top
    /\ \A x, y : Has(adj, x, y) => adj[x][y] \in Nat /\ adj[x][y] <= top

(* On a map the search has finitely many nodes and an Infinity no path     *)
(* without repetition reaches.                                             *)
LEMMA MapGraph ==
    ASSUME NEW m, IsMap(m), NEW adj, OnMap(adj, m)
    PROVE  \E top : IsGraph(adj, top)
<1> DEFINE n == Len(m.edges)
           D == [i \in 1..n |-> m.edges[i].distance]
           W == {0} \cup UNION {Range(adj[u]) : u \in DOMAIN adj}
           top == Max(W)
<1>1. m.edges \in Seq(Edges) /\ n \in Nat /\ DOMAIN m.edges = 1..n /\ NoNode \notin Places(m)
  BY DEF IsMap, Edges
<1>2. IsFiniteSet(DOMAIN adj) /\ NoNode \notin DOMAIN adj
  BY <1>1, PlacesFinite, FS_Subset DEF OnMap
<1>3. IsFiniteSet({0} \cup Range(D)) /\ {0} \cup Range(D) \in SUBSET Nat
  <2>1. IsFiniteSet(1..n)
    BY <1>1, FS_Interval
  <2>2. IsFiniteSet(Range(D))
    BY <2>1, FiniteRange
  <2>3. Range(D) \in SUBSET Nat
    <3>1. ASSUME NEW i \in 1..n PROVE m.edges[i].distance \in Nat
      <4>1. m.edges[i] \in Edges
        BY <1>1
      <4>2. QED
        BY <4>1 DEF Edges
    <3>2. QED
      BY <3>1 DEF Range
  <2> HIDE DEF D
  <2>4. IsFiniteSet({0})
    BY FS_Singleton
  <2>5. IsFiniteSet({0} \cup Range(D))
    BY <2>2, <2>4, FS_Union
  <2>6. QED
    BY <2>3, <2>5
<1>4. ASSUME NEW x, NEW y, Has(adj, x, y) PROVE adj[x][y] \in Range(D) /\ adj[x][y] \in W
  <2>1. PICK i \in DOMAIN m.edges : adj[x][y] = m.edges[i].distance
    BY <1>4 DEF OnMap
  <2>2. adj[x][y] = D[i] /\ i \in DOMAIN D
    BY <1>1, <2>1
  <2>3. adj[x][y] \in Range(D)
    BY <2>2 DEF Range
  <2>4. adj[x][y] \in Range(adj[x]) /\ x \in DOMAIN adj
    BY <1>4 DEF Has, Range
  <2>5. QED
    BY <2>3, <2>4
<1>5. W \in SUBSET ({0} \cup Range(D))
  <2> SUFFICES ASSUME NEW u \in DOMAIN adj, NEW y \in DOMAIN adj[u] PROVE adj[u][y] \in Range(D)
    BY DEF Range
  <2>1. QED
    BY <1>4 DEF Has
<1> HIDE DEF D
<1>6. IsFiniteSet(W) /\ W \in SUBSET Nat /\ W # {}
  <2>1. 0 \in W
    OBVIOUS
  <2> HIDE DEF W
  <2>2. QED
    BY <1>3, <1>5, <2>1, FS_Subset
<1>7. top \in Nat /\ \A x \in W : x <= top
  <2> HIDE DEF W
  <2>1. QED
    BY <1>6, Greatest
<1>8. Infinity(adj) = 1 + Cardinality(DOMAIN adj) * top
  BY DEF Infinity
<1> HIDE DEF W, top
<1>9. \A x, y : Has(adj, x, y) => adj[x][y] \in Nat /\ adj[x][y] <= top
  BY <1>4, <1>6, <1>7
<1>10. IsGraph(adj, top)
  BY <1>2, <1>7, <1>8, <1>9 DEF IsGraph
<1>11. QED
  BY <1>10

-----------------------------------------------------------------------------
(* The rounds of the search *)

(* The states of the search.                                               *)
States(adj) ==
    [dist : [DOMAIN adj -> Nat], prev : [DOMAIN adj -> DOMAIN adj \cup {NoNode}],
     heap : SUBSET (Nat \X DOMAIN adj), seen : SUBSET DOMAIN adj]

Reached(adj, s, v) == s.dist[v] # Infinity(adj)

(* The neighbours that a round over u improves, and the way over u.        *)
Alt(adj, s, u, v) == s.dist[u] + adj[u][v]
Better(adj, s, u) ==
    {v \in DOMAIN adj[u] \cap DOMAIN adj : v \notin s.seen /\ Alt(adj, s, u, v) < s.dist[v]}
Pushed(adj, s, u) == {<<Alt(adj, s, u, v), v>> : v \in Better(adj, s, u)}

Relaxed(adj, s, e, u, t) ==
    /\ t.seen = s.seen \cup {u}
    /\ t.dist = [v \in DOMAIN adj |->
                    IF v \in Better(adj, s, u) THEN Alt(adj, s, u, v) ELSE s.dist[v]]
    /\ t.prev = [v \in DOMAIN adj |-> IF v \in Better(adj, s, u) THEN u ELSE s.prev[v]]
    /\ t.heap = (s.heap \ {e}) \cup Pushed(adj, s, u)
    /\ t = [dist |-> t.dist, prev |-> t.prev, heap |-> t.heap, seen |-> t.seen]

(* A round that visits u, written out by its effect.                       *)
LEMMA RelaxDoes ==
    ASSUME NEW adj, NEW s \in States(adj), NEW e, NEW u
    PROVE  Relaxed(adj, s, e, u, Relax(adj, [s EXCEPT !.heap = @ \ {e}], u))
<1> DEFINE r == [s EXCEPT !.heap = @ \ {e}]
           t == Relax(adj, r, u)
<1>1. /\ r.dist = s.dist /\ r.prev = s.prev /\ r.seen = s.seen /\ r.heap = s.heap \ {e}
      /\ r \in States(adj)
  BY DEF States
<1> HIDE DEF r
<1>2. Better(adj, r, u) = Better(adj, s, u) /\ Pushed(adj, r, u) = Pushed(adj, s, u)
      /\ \A v : Alt(adj, r, u, v) = Alt(adj, s, u, v)
  BY <1>1 DEF Better, Pushed, Alt
<1>3. t = [r EXCEPT !.seen = r.seen \cup {u},
              !.dist = [v \in DOMAIN adj |->
                          IF v \in Better(adj, r, u) THEN Alt(adj, r, u, v) ELSE r.dist[v]],
              !.prev = [v \in DOMAIN adj |-> IF v \in Better(adj, r, u) THEN u ELSE r.prev[v]],
              !.heap = r.heap \cup Pushed(adj, r, u)]
  BY DEF Relax, Better, Alt, Pushed
<1> HIDE DEF t
<1>4. /\ t.seen = r.seen \cup {u}
      /\ t.dist = [v \in DOMAIN adj |->
                      IF v \in Better(adj, r, u) THEN Alt(adj, r, u, v) ELSE r.dist[v]]
      /\ t.prev = [v \in DOMAIN adj |-> IF v \in Better(adj, r, u) THEN u ELSE r.prev[v]]
      /\ t.heap = r.heap \cup Pushed(adj, r, u)
      /\ t = [dist |-> t.dist, prev |-> t.prev, heap |-> t.heap, seen |-> t.seen]
  BY <1>1, <1>3 DEF States
<1>5. Relaxed(adj, s, e, u, t)
  BY <1>1, <1>2, <1>4 DEF Relaxed
<1>6. QED
  BY <1>5 DEF t, r

(* The way the search came to v: from the start, over seen nodes only,     *)
(* each the predecessor of the next.                                       *)
Trail(adj, s, from, v, p) ==
    /\ p \in Seq(DOMAIN adj) /\ Len(p) >= 1 /\ p[1] = from /\ p[Len(p)] = v
    /\ \A j, k \in 1..Len(p) : p[j] = p[k] => j = k
    /\ \A k \in 1..(Len(p) - 1) : p[k] \in s.seen /\ s.prev[p[k + 1]] = p[k]

(* What holds between two rounds.                                          *)
SearchTyped(adj, s) == s \in States(adj) /\ IsFiniteSet(s.heap)
Started(s, from, to) == s.dist[from] = 0 /\ s.prev[from] = NoNode /\ to \notin s.seen
LinksBack(adj, s) ==
    \A v \in DOMAIN adj : s.prev[v] # NoNode =>
        /\ Has(adj, s.prev[v], v) /\ s.prev[v] \in s.seen
        /\ s.dist[v] = s.dist[s.prev[v]] + adj[s.prev[v]][v]
Trails(adj, top, s, from) ==
    \A v \in DOMAIN adj : Reached(adj, s, v) =>
        \E p : Trail(adj, s, from, v, p) /\ s.dist[v] + top <= Len(p) * top
Settled(adj, s) ==
    \A u \in s.seen : /\ Reached(adj, s, u)
                      /\ \A v \in DOMAIN adj : Has(adj, u, v) =>
                            Reached(adj, s, v) /\ s.dist[v] <= s.dist[u] + adj[u][v]
HeapAhead(adj, s) ==
    \A e \in s.heap : /\ s.dist[e[2]] <= e[1] /\ Reached(adj, s, e[2])
                      /\ \A u \in s.seen : s.dist[u] <= e[1]
Waiting(adj, s, to) ==
    \A v \in DOMAIN adj : v \notin s.seen /\ Reached(adj, s, v) =>
        \/ <<s.dist[v], v>> \in s.heap
        \/ s.heap = {} /\ s.dist[to] <= s.dist[v] /\ Reached(adj, s, to)

Searching(adj, top, from, to, s) ==
    /\ SearchTyped(adj, s) /\ Started(s, from, to) /\ LinksBack(adj, s) /\ Trails(adj, top, s, from)
    /\ Settled(adj, s) /\ HeapAhead(adj, s) /\ Waiting(adj, s, to)

(* Arithmetic: products grow with their first factor.                      *)
LEMMA Growth ==
    ASSUME NEW a \in Nat, NEW b \in Nat, NEW t \in Nat, a <= b
    PROVE  a * t <= b * t /\ a * t \in Nat /\ b * t \in Nat /\ (a + 1) * t = a * t + t
<1>1. b - a \in Nat /\ b = a + (b - a)
  OBVIOUS
<1>2. PICK c \in Nat : b = a + c
  BY <1>1
<1>3. b * t = a * t + c * t /\ c * t \in Nat /\ a * t \in Nat
  BY <1>2
<1>4. QED
  BY <1>3

(* A path without repetition is no longer than the graph has nodes.        *)
LEMMA TrailShort ==
    ASSUME NEW adj, NEW s, NEW from, NEW v, NEW p, Trail(adj, s, from, v, p),
           IsFiniteSet(DOMAIN adj)
    PROVE  Len(p) \in Nat /\ Len(p) <= Cardinality(DOMAIN adj) /\ Cardinality(DOMAIN adj) \in Nat
<1>1. p \in [1..Len(p) -> DOMAIN adj] /\ Len(p) \in Nat
  BY DEF Trail
<1>2. IsFiniteSet(1..Len(p)) /\ Cardinality(1..Len(p)) = Len(p)
  <2>1. IsFiniteSet(1..Len(p)) /\ Cardinality(1..Len(p)) = IF 1 > Len(p) THEN 0 ELSE Len(p) - 1 + 1
    BY <1>1, FS_Interval
  <2>2. QED
    BY <1>1, <2>1
<1>3. p \in Injection(1..Len(p), DOMAIN adj)
  BY <1>1 DEF Injection, IsInjective, Trail
<1>4. Cardinality(1..Len(p)) <= Cardinality(DOMAIN adj)
  BY <1>2, <1>3, FS_Injection
<1>5. Cardinality(DOMAIN adj) \in Nat
  BY FS_CardinalityType
<1>6. QED
  BY <1>1, <1>2, <1>4, <1>5

(* Infinity is a number.                                                   *)
LEMMA InfinityNat ==
    ASSUME NEW adj, NEW top, IsGraph(adj, top)
    PROVE  Infinity(adj) \in Nat /\ top \in Nat
<1>1. Cardinality(DOMAIN adj) \in Nat
  BY FS_CardinalityType DEF IsGraph
<1>2. Cardinality(DOMAIN adj) * top \in Nat
  BY <1>1 DEF IsGraph
<1>3. QED
  BY <1>2 DEF IsGraph

(* One more edge from a node that was reached stays below Infinity.        *)
LEMMA ReachedShort ==
    ASSUME NEW adj, NEW top, IsGraph(adj, top), NEW s, NEW from, NEW v \in DOMAIN adj,
           SearchTyped(adj, s), Trails(adj, top, s, from), Reached(adj, s, v)
    PROVE  s.dist[v] + top < Infinity(adj)
<1>1. PICK p : Trail(adj, s, from, v, p) /\ s.dist[v] + top <= Len(p) * top
  BY DEF Trails
<1>2. /\ Len(p) \in Nat /\ Len(p) <= Cardinality(DOMAIN adj) /\ Cardinality(DOMAIN adj) \in Nat
      /\ top \in Nat /\ Infinity(adj) = 1 + Cardinality(DOMAIN adj) * top
  BY <1>1, TrailShort DEF IsGraph
<1>3. s.dist[v] \in Nat
  BY DEF SearchTyped, States
<1>4. /\ Len(p) * top <= Cardinality(DOMAIN adj) * top
      /\ Len(p) * top \in Nat /\ Cardinality(DOMAIN adj) * top \in Nat
  BY <1>2, Growth
<1>5. QED
  BY <1>1, <1>2, <1>3, <1>4

(* The entry popped is the first of its node to be: it carries the node's  *)
(* distance.                                                               *)
LEMMA PoppedExact ==
    ASSUME NEW adj, NEW top, IsGraph(adj, top), NEW from, NEW to, NEW s,
           Searching(adj, top, from, to, s),
           NEW e \in s.heap, \A f \in s.heap : e[1] <= f[1], e[2] \notin s.seen
    PROVE  e[2] \in DOMAIN adj /\ Reached(adj, s, e[2]) /\ s.dist[e[2]] = e[1]
<1>1. s \in States(adj)
  BY DEF Searching, SearchTyped
<1>2. e \in Nat \X DOMAIN adj
  BY <1>1 DEF States
<1>3. e[1] \in Nat /\ e[2] \in DOMAIN adj /\ s.dist[e[2]] \in Nat
  BY <1>1, <1>2 DEF States
<1>4. s.dist[e[2]] <= e[1] /\ Reached(adj, s, e[2])
  BY DEF Searching, HeapAhead
<1>5. <<s.dist[e[2]], e[2]>> \in s.heap
  BY <1>3, <1>4 DEF Searching, Waiting
<1>6. e[1] <= <<s.dist[e[2]], e[2]>>[1]
  BY <1>5
<1>7. e[1] <= s.dist[e[2]]
  BY <1>6
<1>8. QED
  BY <1>3, <1>4, <1>7

(* What the round over u does to the distances: only nodes that are not    *)
(* seen get a new one, and a shorter one.                                  *)
Improves(adj, s, u, t) ==
    /\ t.seen = s.seen \cup {u} /\ u \in DOMAIN adj /\ Reached(adj, s, u)
    /\ \A v \in DOMAIN adj : s.dist[v] \in Nat /\ t.dist[v] \in Nat /\ t.dist[v] <= s.dist[v]
    /\ \A v \in Better(adj, s, u) :
          /\ v \in DOMAIN adj /\ Has(adj, u, v) /\ v \notin s.seen /\ v # u
          /\ t.dist[v] = s.dist[u] + adj[u][v] /\ t.prev[v] = u /\ Reached(adj, t, v)
    /\ \A v \in DOMAIN adj : v \notin Better(adj, s, u) =>
          /\ t.dist[v] = s.dist[v] /\ t.prev[v] = s.prev[v]
          /\ (Reached(adj, s, v) <=> Reached(adj, t, v))
    /\ \A v \in DOMAIN adj : Has(adj, u, v) =>
          /\ adj[u][v] \in Nat
          /\ s.dist[u] + adj[u][v] < Infinity(adj)
          /\ v \notin s.seen => t.dist[v] <= s.dist[u] + adj[u][v]

(* A round only improves distances, and all it finds are below Infinity.   *)
LEMMA RelaxImproves ==
    ASSUME NEW adj, NEW top, IsGraph(adj, top), NEW from, NEW to, NEW s,
           Searching(adj, top, from, to, s),
           NEW e, NEW u \in DOMAIN adj, Reached(adj, s, u), u \notin s.seen,
           NEW t, Relaxed(adj, s, e, u, t)
    PROVE  Improves(adj, s, u, t)
<1> DEFINE B == Better(adj, s, u)
<1>1. s \in States(adj) /\ SearchTyped(adj, s)
  BY DEF Searching, SearchTyped
<1>2. \A v \in DOMAIN adj : s.dist[v] \in Nat
  BY <1>1 DEF States
<1>3. Infinity(adj) \in Nat /\ top \in Nat
  BY InfinityNat
<1>4. s.dist[u] + top < Infinity(adj)
  BY <1>1, ReachedShort DEF Searching
<1>5. ASSUME NEW v \in DOMAIN adj, Has(adj, u, v)
      PROVE  /\ adj[u][v] \in Nat /\ s.dist[u] + adj[u][v] \in Nat
             /\ s.dist[u] + adj[u][v] < Infinity(adj)
  <2>1. adj[u][v] \in Nat /\ adj[u][v] <= top
    BY <1>5 DEF IsGraph
  <2>2. QED
    BY <1>2, <1>3, <1>4, <2>1
<1>6. ASSUME NEW v \in B
      PROVE  /\ v \in DOMAIN adj /\ Has(adj, u, v) /\ v \notin s.seen
             /\ s.dist[u] + adj[u][v] < s.dist[v]
             /\ t.dist[v] = s.dist[u] + adj[u][v] /\ t.prev[v] = u
  <2>1. v \in DOMAIN adj /\ Has(adj, u, v) /\ v \notin s.seen /\ s.dist[u] + adj[u][v] < s.dist[v]
    BY DEF Better, Has, Alt
  <2>2. t.dist[v] = Alt(adj, s, u, v) /\ t.prev[v] = u
    BY <2>1 DEF Relaxed
  <2>3. QED
    BY <2>1, <2>2 DEF Alt
<1>7. ASSUME NEW v \in B
      PROVE  v # u /\ t.dist[v] \in Nat /\ t.dist[v] <= s.dist[v] /\ Reached(adj, t, v)
  <2>1. /\ v \in DOMAIN adj /\ Has(adj, u, v) /\ s.dist[u] + adj[u][v] < s.dist[v]
        /\ t.dist[v] = s.dist[u] + adj[u][v]
    BY <1>6
  <2>2. adj[u][v] \in Nat /\ s.dist[u] + adj[u][v] \in Nat /\ s.dist[u] + adj[u][v] < Infinity(adj)
    BY <1>5, <2>1
  <2>3. s.dist[v] \in Nat /\ s.dist[u] \in Nat
    BY <1>2, <2>1
  <2>4. t.dist[v] # Infinity(adj)
    BY <1>3, <2>1, <2>2
  <2>5. v # u
    BY <2>1, <2>2, <2>3
  <2>6. QED
    BY <2>1, <2>2, <2>3, <2>4, <2>5 DEF Reached
<1>8. ASSUME NEW v \in DOMAIN adj, v \notin B
      PROVE  /\ t.dist[v] = s.dist[v] /\ t.prev[v] = s.prev[v]
             /\ (Reached(adj, s, v) <=> Reached(adj, t, v))
  <2>1. t.dist[v] = s.dist[v] /\ t.prev[v] = s.prev[v]
    BY <1>8 DEF Relaxed
  <2>2. QED
    BY <2>1 DEF Reached
<1>9. ASSUME NEW v \in DOMAIN adj, Has(adj, u, v), v \notin s.seen
      PROVE  t.dist[v] <= s.dist[u] + adj[u][v]
  <2>1. CASE v \in B
    BY <1>5, <1>6, <1>9, <2>1
  <2>2. CASE v \notin B
    <3>1. ~(s.dist[u] + adj[u][v] < s.dist[v])
      BY <1>9, <2>2 DEF Better, Has, Alt
    <3>2. QED
      BY <1>2, <1>5, <1>8, <1>9, <2>2, <3>1
  <2>3. QED
    BY <2>1, <2>2
<1>10. t.seen = s.seen \cup {u}
  BY DEF Relaxed
<1> HIDE DEF B
<1>11. ASSUME NEW v \in DOMAIN adj PROVE t.dist[v] \in Nat /\ t.dist[v] <= s.dist[v]
  BY <1>2, <1>7, <1>8
<1>12. /\ \A v \in B : /\ v \in DOMAIN adj /\ Has(adj, u, v) /\ v \notin s.seen /\ v # u
                       /\ t.dist[v] = s.dist[u] + adj[u][v] /\ t.prev[v] = u /\ Reached(adj, t, v)
       /\ \A v \in DOMAIN adj : v \notin B =>
          /\ t.dist[v] = s.dist[v] /\ t.prev[v] = s.prev[v]
          /\ (Reached(adj, s, v) <=> Reached(adj, t, v))
  BY <1>6, <1>7, <1>8
<1>13. \A v \in DOMAIN adj : Has(adj, u, v) =>
          /\ adj[u][v] \in Nat
          /\ s.dist[u] + adj[u][v] < Infinity(adj)
          /\ v \notin s.seen => t.dist[v] <= s.dist[u] + adj[u][v]
  BY <1>5, <1>9
<1>14. QED
  BY <1>2, <1>10, <1>11, <1>12, <1>13 DEF Improves, B

(* The distances and predecessors of the nodes seen are final.             *)
LEMMA SeenFinal ==
    ASSUME NEW adj, NEW s, NEW u, NEW t, Improves(adj, s, u, t),
           SearchTyped(adj, s), NEW v \in t.seen
    PROVE  /\ v \in DOMAIN adj /\ t.dist[v] = s.dist[v] /\ t.prev[v] = s.prev[v]
           /\ (Reached(adj, s, v) <=> Reached(adj, t, v))
<1>1. v \notin Better(adj, s, u)
  BY DEF Improves
<1>2. v \in DOMAIN adj
  BY DEF Improves, SearchTyped, States
<1>3. QED
  BY <1>1, <1>2 DEF Improves

(* Types are kept: the entries a round pushes are finitely many.           *)
LEMMA RelaxTyped ==
    ASSUME NEW adj, NEW top, IsGraph(adj, top), NEW from, NEW to, NEW s,
           Searching(adj, top, from, to, s),
           NEW e, NEW u \in DOMAIN adj, NEW t, Relaxed(adj, s, e, u, t), Improves(adj, s, u, t)
    PROVE  SearchTyped(adj, t)
<1>1. s \in States(adj) /\ IsFiniteSet(s.heap)
  BY DEF Searching, SearchTyped
<1> DEFINE B == Better(adj, s, u)
           f == [v \in B |-> <<Alt(adj, s, u, v), v>>]
<1>2. B \in SUBSET DOMAIN adj
  BY DEF Better
<1>3. Pushed(adj, s, u) = Range(f)
  BY DEF Pushed, Range
<1>4. IsFiniteSet(Range(f))
  <2>1. IsFiniteSet(B)
    BY <1>2, FS_Subset DEF IsGraph
  <2>2. DOMAIN f = B
    OBVIOUS
  <2> HIDE DEF f, B
  <2>3. QED
    BY <2>1, <2>2, FiniteRange
<1>5. Range(f) \in SUBSET (Nat \X DOMAIN adj)
  <2> SUFFICES ASSUME NEW v \in B PROVE Alt(adj, s, u, v) \in Nat /\ v \in DOMAIN adj
    BY DEF Range
  <2>1. v \in DOMAIN adj /\ t.dist[v] = Alt(adj, s, u, v)
    BY <1>2 DEF Relaxed
  <2>2. QED
    BY <2>1 DEF Improves
<1> HIDE DEF f, B
<1>6. t.heap = (s.heap \ {e}) \cup Range(f)
  BY <1>3 DEF Relaxed
<1>7. IsFiniteSet(t.heap)
  <2>1. IsFiniteSet(s.heap \ {e})
    BY <1>1, FS_Subset
  <2>2. QED
    BY <1>4, <1>6, <2>1, FS_Union
<1>8. t.heap \in SUBSET (Nat \X DOMAIN adj)
  BY <1>1, <1>5, <1>6 DEF States
<1>9. t.seen \in SUBSET DOMAIN adj
  BY <1>1 DEF Improves, States
<1>10. t.dist \in [DOMAIN adj -> Nat]
  <2>1. t.dist = [v \in DOMAIN adj |-> t.dist[v]]
    BY DEF Relaxed
  <2>2. QED
    BY <2>1 DEF Improves
<1>11. t.prev \in [DOMAIN adj -> DOMAIN adj \cup {NoNode}]
  <2>1. s.prev \in [DOMAIN adj -> DOMAIN adj \cup {NoNode}]
    BY <1>1 DEF States
  <2>2. t.prev = [v \in DOMAIN adj |-> IF v \in B THEN u ELSE s.prev[v]]
    BY DEF Relaxed, B
  <2>3. QED
    BY <2>1, <2>2
<1>12. t = [dist |-> t.dist, prev |-> t.prev, heap |-> t.heap, seen |-> t.seen]
  BY DEF Relaxed
<1>13. t \in States(adj)
  BY <1>8, <1>9, <1>10, <1>11, <1>12 DEF States
<1>14. QED
  BY <1>7, <1>13 DEF SearchTyped

(* Predecessors stay seen nodes one edge closer to the start.              *)
LEMMA RelaxLinksBack ==
    ASSUME NEW adj, NEW s, NEW u, NEW t, Improves(adj, s, u, t), SearchTyped(adj, s),
           LinksBack(adj, s), NoNode \notin DOMAIN adj
    PROVE  LinksBack(adj, t)
<1> SUFFICES ASSUME NEW v \in DOMAIN adj, t.prev[v] # NoNode
             PROVE  /\ Has(adj, t.prev[v], v) /\ t.prev[v] \in t.seen
                    /\ t.dist[v] = t.dist[t.prev[v]] + adj[t.prev[v]][v]
  BY DEF LinksBack
<1>1. CASE v \in Better(adj, s, u)
  <2>1. /\ Has(adj, u, v) /\ t.prev[v] = u /\ t.dist[v] = s.dist[u] + adj[u][v] /\ u \in t.seen
    BY <1>1 DEF Improves
  <2>2. t.dist[u] = s.dist[u]
    BY <2>1, SeenFinal
  <2>3. QED
    BY <2>1, <2>2
<1>2. CASE v \notin Better(adj, s, u)
  <2>1. t.dist[v] = s.dist[v] /\ t.prev[v] = s.prev[v]
    BY <1>2 DEF Improves
  <2>2. /\ Has(adj, s.prev[v], v) /\ s.prev[v] \in s.seen
        /\ s.dist[v] = s.dist[s.prev[v]] + adj[s.prev[v]][v]
    BY <2>1 DEF LinksBack
  <2>3. s.prev[v] \in t.seen
    BY <2>2 DEF Improves
  <2>4. t.dist[s.prev[v]] = s.dist[s.prev[v]]
    BY <2>3, SeenFinal
  <2>5. QED
    BY <2>1, <2>2, <2>3, <2>4
<1>3. QED
  BY <1>1, <1>2

(* A trail stays one when its nodes keep their predecessors.               *)
LEMMA TrailKept ==
    ASSUME NEW adj, NEW s, NEW u, NEW t, Improves(adj, s, u, t), SearchTyped(adj, s),
           NEW from, NEW v \in DOMAIN adj, v \notin Better(adj, s, u),
           NEW p, Trail(adj, s, from, v, p)
    PROVE  Trail(adj, t, from, v, p)
<1>1. Len(p) \in Nat
  BY DEF Trail
<1>2. ASSUME NEW k \in 1..(Len(p) - 1) PROVE p[k] \in t.seen /\ t.prev[p[k + 1]] = p[k]
  <2>1. p[k] \in s.seen /\ s.prev[p[k + 1]] = p[k]
    BY DEF Trail
  <2>2. CASE k + 1 = Len(p)
    <3>1. p[k + 1] = v
      BY <2>2 DEF Trail
    <3>2. QED
      BY <2>1, <3>1 DEF Improves
  <2>3. CASE k + 1 # Len(p)
    <3>1. k + 1 \in 1..(Len(p) - 1)
      BY <1>1, <2>3
    <3>2. p[k + 1] \in s.seen
      BY <3>1 DEF Trail
    <3>3. p[k + 1] \in t.seen /\ p[k] \in t.seen
      BY <2>1, <3>2 DEF Improves
    <3>4. t.prev[p[k + 1]] = s.prev[p[k + 1]]
      BY <3>3, SeenFinal
    <3>5. QED
      BY <2>1, <3>3, <3>4
  <2>4. QED
    BY <2>2, <2>3
<1>3. QED
  BY <1>2 DEF Trail

(* The way to a node improved over u is the way to u and one edge.         *)
LEMMA TrailLonger ==
    ASSUME NEW adj, NEW t, NEW from, NEW u, NEW p, Trail(adj, t, from, u, p),
           NEW v \in DOMAIN adj, v \notin t.seen, u \in t.seen, t.prev[v] = u
    PROVE  Trail(adj, t, from, v, Append(p, v)) /\ Len(Append(p, v)) = Len(p) + 1 /\ Len(p) \in Nat
<1> DEFINE q == Append(p, v)
           n == Len(p)
<1>1. /\ q \in Seq(DOMAIN adj) /\ Len(q) = n + 1 /\ q[n + 1] = v /\ n \in Nat /\ n >= 1
      /\ \A k \in 1..n : q[k] = p[k]
  BY DEF Trail
<1> HIDE DEF q
<1>2. ASSUME NEW k \in 1..n PROVE q[k] \in t.seen
  <2>1. CASE k = n
    BY <1>1, <2>1 DEF Trail
  <2>2. CASE k # n
    <3>1. k \in 1..(n - 1)
      BY <1>1, <2>2
    <3>2. QED
      BY <1>1, <3>1 DEF Trail
  <2>3. QED
    BY <2>1, <2>2
<1>3. ASSUME NEW j \in 1..Len(q), NEW k \in 1..Len(q), q[j] = q[k] PROVE j = k
  <2>1. (j \in 1..n \/ j = n + 1) /\ (k \in 1..n \/ k = n + 1)
    BY <1>1
  <2>2. CASE j \in 1..n /\ k \in 1..n
    BY <1>1, <1>3, <2>2 DEF Trail
  <2>3. CASE j = n + 1 /\ k \in 1..n
    BY <1>1, <1>2, <1>3, <2>3
  <2>4. CASE k = n + 1 /\ j \in 1..n
    BY <1>1, <1>2, <1>3, <2>4
  <2>5. QED
    BY <2>1, <2>2, <2>3, <2>4
<1>4. ASSUME NEW k \in 1..(Len(q) - 1) PROVE q[k] \in t.seen /\ t.prev[q[k + 1]] = q[k]
  <2>1. k \in 1..n
    BY <1>1
  <2>2. CASE k = n
    <3>1. q[k + 1] = v /\ q[k] = u
      BY <1>1, <2>1, <2>2 DEF Trail
    <3>2. QED
      BY <1>2, <2>1, <3>1
  <2>3. CASE k # n
    <3>1. k \in 1..(n - 1) /\ k + 1 \in 1..n
      BY <1>1, <2>1, <2>3
    <3>2. t.prev[p[k + 1]] = p[k]
      BY <3>1 DEF Trail
    <3>3. QED
      BY <1>1, <1>2, <2>1, <3>1, <3>2
  <2>4. QED
    BY <2>2, <2>3
<1>5. q[1] = from
  BY <1>1 DEF Trail
<1>6. Trail(adj, t, from, v, q)
  BY <1>1, <1>3, <1>4, <1>5 DEF Trail
<1>7. QED
  BY <1>1, <1>6 DEF q

(* Every node reached has a way there, short enough to stay below          *)
(* Infinity.                                                               *)
LEMMA RelaxTrails ==
    ASSUME NEW adj, NEW top, IsGraph(adj, top), NEW s, NEW u, NEW t, Improves(adj, s, u, t),
           SearchTyped(adj, s), NEW from, Trails(adj, top, s, from)
    PROVE  Trails(adj, top, t, from)
<1> SUFFICES ASSUME NEW v \in DOMAIN adj, Reached(adj, t, v)
             PROVE  \E p : Trail(adj, t, from, v, p) /\ t.dist[v] + top <= Len(p) * top
  BY DEF Trails
<1>0. top \in Nat
  BY DEF IsGraph
<1>1. CASE v \notin Better(adj, s, u)
  <2>1. Reached(adj, s, v) /\ t.dist[v] = s.dist[v]
    BY <1>1 DEF Improves
  <2>2. PICK p : Trail(adj, s, from, v, p) /\ s.dist[v] + top <= Len(p) * top
    BY <2>1 DEF Trails
  <2>3. Trail(adj, t, from, v, p)
    BY <1>1, <2>2, TrailKept
  <2>4. QED
    BY <2>1, <2>2, <2>3
<1>2. CASE v \in Better(adj, s, u)
  <2>1. /\ u \in DOMAIN adj /\ Reached(adj, s, u) /\ u \notin Better(adj, s, u) /\ u \in t.seen
        /\ Has(adj, u, v) /\ v \notin t.seen /\ t.prev[v] = u /\ t.dist[v] = s.dist[u] + adj[u][v]
        /\ s.dist[u] \in Nat
    BY <1>2 DEF Improves
  <2>2. PICK p : Trail(adj, s, from, u, p) /\ s.dist[u] + top <= Len(p) * top
    BY <2>1 DEF Trails
  <2>3. Trail(adj, t, from, u, p)
    BY <2>1, <2>2, TrailKept
  <2>4. /\ Trail(adj, t, from, v, Append(p, v)) /\ Len(Append(p, v)) = Len(p) + 1
        /\ Len(p) \in Nat
    BY <2>1, <2>3, TrailLonger
  <2>5. adj[u][v] \in Nat /\ adj[u][v] <= top
    BY <2>1 DEF IsGraph
  <2>6. (Len(p) + 1) * top = Len(p) * top + top /\ Len(p) * top \in Nat
    BY <1>0, <2>4, Growth
  <2>7. t.dist[v] + top <= Len(Append(p, v)) * top
    <3>1. t.dist[v] + top <= (Len(p) + 1) * top
      BY <1>0, <2>1, <2>2, <2>5, <2>6
    <3>2. QED
      BY <2>4, <3>1
  <2>8. QED
    BY <2>4, <2>7
<1>3. QED
  BY <1>1, <1>2

(* The edges of the node just visited can no longer improve anything.      *)
LEMMA RelaxSettled ==
    ASSUME NEW adj, NEW top, IsGraph(adj, top), NEW from, NEW to, NEW s,
           Searching(adj, top, from, to, s),
           NEW e \in s.heap, NEW u, u = e[2], s.dist[u] = e[1],
           NEW t, Improves(adj, s, u, t)
    PROVE  Settled(adj, t)
<1>1. SearchTyped(adj, s) /\ Infinity(adj) \in Nat
  BY InfinityNat DEF Searching
<1> SUFFICES ASSUME NEW w \in t.seen
             PROVE  /\ Reached(adj, t, w)
                    /\ \A v \in DOMAIN adj : Has(adj, w, v) =>
                            Reached(adj, t, v) /\ t.dist[v] <= t.dist[w] + adj[w][v]
  BY DEF Settled
<1>2. w \in DOMAIN adj /\ t.dist[w] = s.dist[w] /\ (Reached(adj, s, w) <=> Reached(adj, t, w))
  BY <1>1, SeenFinal
<1>3. \A v \in DOMAIN adj : s.dist[v] \in Nat /\ t.dist[v] \in Nat /\ t.dist[v] <= s.dist[v]
  BY DEF Improves
<1>4. ASSUME NEW v \in DOMAIN adj, Reached(adj, s, v) PROVE Reached(adj, t, v)
  BY <1>4 DEF Improves
<1>5. CASE w \in s.seen
  <2>1. Reached(adj, s, w)
    BY <1>5 DEF Searching, Settled
  <2>2. ASSUME NEW v \in DOMAIN adj, Has(adj, w, v)
        PROVE  Reached(adj, t, v) /\ t.dist[v] <= t.dist[w] + adj[w][v]
    <3>1. Reached(adj, s, v) /\ s.dist[v] <= s.dist[w] + adj[w][v]
      BY <1>5, <2>2 DEF Searching, Settled
    <3>2. adj[w][v] \in Nat
      BY <2>2 DEF IsGraph
    <3>3. QED
      BY <1>2, <1>3, <1>4, <3>1, <3>2
  <2>3. QED
    BY <1>2, <2>1, <2>2
<1>6. CASE w = u
  <2>1. Reached(adj, t, w)
    BY <1>2, <1>6 DEF Improves
  <2>2. ASSUME NEW v \in DOMAIN adj, Has(adj, w, v)
        PROVE  Reached(adj, t, v) /\ t.dist[v] <= t.dist[w] + adj[w][v]
    <3>1. /\ adj[u][v] \in Nat /\ s.dist[u] + adj[u][v] < Infinity(adj)
          /\ v \notin s.seen => t.dist[v] <= s.dist[u] + adj[u][v]
      BY <1>6, <2>2 DEF Improves
    <3>2. CASE v \notin s.seen
      <4>1. t.dist[v] # Infinity(adj)
        BY <1>1, <1>2, <1>3, <1>6, <3>1, <3>2
      <4>2. QED
        BY <1>2, <1>6, <3>1, <3>2, <4>1 DEF Reached
    <3>3. CASE v \in s.seen
      <4>1. Reached(adj, s, v) /\ s.dist[v] <= e[1]
        BY <3>3 DEF Searching, Settled, HeapAhead
      <4>2. QED
        BY <1>2, <1>3, <1>4, <1>6, <3>1, <4>1
    <3>4. QED
      BY <3>2, <3>3
  <2>3. QED
    BY <2>1, <2>2
<1>7. QED
  BY <1>5, <1>6 DEF Improves

(* Entries never undercut the nodes already seen.                          *)
LEMMA RelaxHeapAhead ==
    ASSUME NEW adj, NEW top, IsGraph(adj, top), NEW from, NEW to, NEW s,
           Searching(adj, top, from, to, s),
           NEW e \in s.heap, \A f \in s.heap : e[1] <= f[1], NEW u, u = e[2], s.dist[u] = e[1],
           NEW t, Relaxed(adj, s, e, u, t), Improves(adj, s, u, t)
    PROVE  HeapAhead(adj, t)
<1>1. SearchTyped(adj, s)
  BY DEF Searching
<1>2. s.heap \in SUBSET (Nat \X DOMAIN adj)
  BY <1>1 DEF SearchTyped, States
<1>3. \A v \in DOMAIN adj : s.dist[v] \in Nat /\ t.dist[v] \in Nat /\ t.dist[v] <= s.dist[v]
  BY DEF Improves
<1>4. ASSUME NEW w \in t.seen PROVE t.dist[w] <= e[1] /\ t.dist[w] \in Nat /\ e[1] \in Nat
  <2>1. w \in DOMAIN adj /\ t.dist[w] = s.dist[w]
    BY <1>1, SeenFinal
  <2>2. w = u \/ w \in s.seen
    BY DEF Improves
  <2>3. e[1] \in Nat
    BY <1>2
  <2>4. w \in s.seen => s.dist[w] <= e[1]
    BY DEF Searching, HeapAhead
  <2>5. QED
    BY <1>3, <2>1, <2>2, <2>3, <2>4
<1>5. ASSUME NEW f \in s.heap
      PROVE  /\ t.dist[f[2]] <= f[1] /\ Reached(adj, t, f[2])
             /\ \A w \in t.seen : t.dist[w] <= f[1]
  <2>1. f[1] \in Nat /\ f[2] \in DOMAIN adj /\ e[1] <= f[1]
    BY <1>2
  <2>2. s.dist[f[2]] <= f[1] /\ Reached(adj, s, f[2])
    BY DEF Searching, HeapAhead
  <2>3. Reached(adj, t, f[2])
    BY <2>1, <2>2 DEF Improves
  <2>4. t.dist[f[2]] <= f[1]
    BY <1>3, <2>1, <2>2
  <2>5. ASSUME NEW w \in t.seen PROVE t.dist[w] <= f[1]
    BY <1>4, <2>1
  <2>6. QED
    BY <2>3, <2>4, <2>5
<1>6. ASSUME NEW v \in Better(adj, s, u), NEW f, f = <<Alt(adj, s, u, v), v>>
      PROVE  /\ t.dist[f[2]] <= f[1] /\ Reached(adj, t, f[2])
             /\ \A w \in t.seen : t.dist[w] <= f[1]
  <2>1. /\ v \in DOMAIN adj /\ Has(adj, u, v) /\ t.dist[v] = s.dist[u] + adj[u][v]
        /\ Reached(adj, t, v)
    BY DEF Improves
  <2>2. f[2] = v /\ f[1] = t.dist[v]
    BY <1>6, <2>1 DEF Alt
  <2>3. adj[u][v] \in Nat
    BY <2>1 DEF Improves
  <2>4. t.dist[v] \in Nat
    BY <1>3, <2>1
  <2>5. ASSUME NEW w \in t.seen PROVE t.dist[w] <= f[1]
    BY <1>4, <2>1, <2>2, <2>3
  <2>6. QED
    BY <2>1, <2>2, <2>4, <2>5
<1>7. ASSUME NEW f \in t.heap
      PROVE  /\ t.dist[f[2]] <= f[1] /\ Reached(adj, t, f[2])
             /\ \A w \in t.seen : t.dist[w] <= f[1]
  <2>1. f \in s.heap \/ f \in Pushed(adj, s, u)
    BY DEF Relaxed
  <2>2. CASE f \in Pushed(adj, s, u)
    <3>1. PICK v \in Better(adj, s, u) : f = <<Alt(adj, s, u, v), v>>
      BY <2>2 DEF Pushed
    <3>2. QED
      BY <1>6, <3>1
  <2>3. QED
    BY <1>5, <2>1, <2>2
<1>8. QED
  BY <1>7 DEF HeapAhead

(* Every reached node that is not seen still has its entry on the heap.    *)
LEMMA RelaxWaiting ==
    ASSUME NEW adj, NEW to, NEW s, Waiting(adj, s, to), s.heap # {}, NEW e, NEW u, u = e[2],
           NEW t, Relaxed(adj, s, e, u, t), Improves(adj, s, u, t)
    PROVE  Waiting(adj, t, to)
<1> SUFFICES ASSUME NEW v \in DOMAIN adj, v \notin t.seen, Reached(adj, t, v)
             PROVE  <<t.dist[v], v>> \in t.heap
  BY DEF Waiting
<1>1. CASE v \in Better(adj, s, u)
  <2>1. t.dist[v] = Alt(adj, s, u, v)
    BY <1>1 DEF Improves, Alt
  <2>2. <<t.dist[v], v>> \in Pushed(adj, s, u)
    BY <1>1, <2>1 DEF Pushed
  <2>3. QED
    BY <2>2 DEF Relaxed
<1>2. CASE v \notin Better(adj, s, u)
  <2>1. t.dist[v] = s.dist[v] /\ Reached(adj, s, v) /\ v # u /\ v \notin s.seen
    BY <1>2 DEF Improves
  <2>2. <<s.dist[v], v>> \in s.heap
    BY <2>1 DEF Waiting
  <2>3. <<s.dist[v], v>> # e
    BY <2>1
  <2>4. QED
    BY <2>1, <2>2, <2>3 DEF Relaxed
<1>3. QED
  BY <1>1, <1>2

(* A round that visits a new node keeps everything that holds between      *)
(* rounds.                                                                 *)
LEMMA RelaxKeeps ==
    ASSUME NEW adj, NEW top, IsGraph(adj, top), NEW from \in DOMAIN adj, NEW to, NEW s,
           Searching(adj, top, from, to, s),
           NEW e \in s.heap, \A f \in s.heap : e[1] <= f[1],
           NEW u, u = e[2], u # to, u \notin s.seen,
           NEW t, Relaxed(adj, s, e, u, t)
    PROVE  Searching(adj, top, from, to, t)
<1>1. u \in DOMAIN adj /\ Reached(adj, s, u) /\ s.dist[u] = e[1]
  BY PoppedExact
<1>2. Improves(adj, s, u, t)
  BY <1>1, RelaxImproves
<1>3. SearchTyped(adj, t)
  BY <1>1, <1>2, RelaxTyped
<1>4. Started(t, from, to)
  <2>1. s.dist[from] = 0 /\ s.prev[from] = NoNode /\ to \notin s.seen
    BY DEF Searching, Started
  <2>2. from \notin Better(adj, s, u)
    <3> SUFFICES ASSUME from \in Better(adj, s, u) PROVE FALSE
      OBVIOUS
    <3>1. /\ Has(adj, u, from) /\ s.dist[u] + adj[u][from] < s.dist[from]
      BY <1>1 DEF Better, Has, Alt
    <3>2. adj[u][from] \in Nat
      BY <3>1 DEF IsGraph
    <3>3. s.dist[u] \in Nat
      BY <1>1, <1>2 DEF Improves
    <3>4. QED
      BY <2>1, <3>1, <3>2, <3>3
  <2>3. t.dist[from] = 0 /\ t.prev[from] = NoNode
    BY <1>2, <2>1, <2>2 DEF Improves
  <2>4. to \notin t.seen
    BY <1>2, <2>1 DEF Improves
  <2>5. QED
    BY <2>3, <2>4 DEF Started
<1>5. LinksBack(adj, t)
  BY <1>2, RelaxLinksBack DEF Searching, IsGraph
<1>6. Trails(adj, top, t, from)
  BY <1>2, RelaxTrails DEF Searching
<1>7. Settled(adj, t)
  BY <1>1, <1>2, RelaxSettled
<1>8. HeapAhead(adj, t)
  BY <1>1, <1>2, RelaxHeapAhead
<1>9. Waiting(adj, t, to)
  <2>1. Waiting(adj, s, to) /\ s.heap # {}
    BY DEF Searching
  <2>2. QED
    BY <1>2, <2>1, RelaxWaiting
<1>10. QED
  BY <1>3, <1>4, <1>5, <1>6, <1>7, <1>8, <1>9 DEF Searching

(* Two states that differ in the heap only.                                *)
SameBut(s, t) == t.dist = s.dist /\ t.prev = s.prev /\ t.seen = s.seen

(* So does a round that only removes entries.                              *)
LEMMA PopKeeps ==
    ASSUME NEW adj, NEW top, NEW from, NEW to, NEW s,
           Searching(adj, top, from, to, s),
           NEW t, SameBut(s, t), t \in States(adj), t.heap \in SUBSET s.heap, Waiting(adj, t, to)
    PROVE  Searching(adj, top, from, to, t)
<1>1. SearchTyped(adj, t)
  <2>1. IsFiniteSet(s.heap)
    BY DEF Searching, SearchTyped
  <2>2. IsFiniteSet(t.heap)
    BY <2>1, FS_Subset
  <2>3. QED
    BY <2>2 DEF SearchTyped
<1>2. \A v : Reached(adj, t, v) <=> Reached(adj, s, v)
  BY DEF SameBut, Reached
<1>3. Started(t, from, to) /\ LinksBack(adj, t)
  BY DEF Searching, SameBut, Started, LinksBack
<1>4. Trails(adj, top, t, from)
  <2>1. \A v, p : Trail(adj, t, from, v, p) <=> Trail(adj, s, from, v, p)
    BY DEF Trail, SameBut
  <2>2. QED
    BY <1>2, <2>1 DEF Searching, Trails, SameBut
<1>5. Settled(adj, t)
  BY <1>2 DEF Searching, Settled, SameBut
<1>6. HeapAhead(adj, t)
  <2>1. ASSUME NEW e \in t.heap
        PROVE  /\ t.dist[e[2]] <= e[1] /\ Reached(adj, t, e[2])
               /\ \A u \in t.seen : t.dist[u] <= e[1]
    <3>1. e \in s.heap
      OBVIOUS
    <3>2. /\ s.dist[e[2]] <= e[1] /\ Reached(adj, s, e[2])
          /\ \A u \in s.seen : s.dist[u] <= e[1]
      BY <3>1 DEF Searching, HeapAhead
    <3>3. QED
      BY <1>2, <3>2 DEF SameBut
  <2>2. QED
    BY <2>1 DEF HeapAhead
<1>7. QED
  BY <1>1, <1>3, <1>4, <1>5, <1>6 DEF Searching

(* The three ways a round goes.                                            *)
PopsTarget(adj, to, s, e, t) ==
    e[2] = to /\ SameBut(s, t) /\ t.heap = {} /\ t \in States(adj)
PopsOutdated(adj, s, e, t) ==
    e[2] \in s.seen /\ SameBut(s, t) /\ t.heap = s.heap \ {e} /\ t \in States(adj)
PopsNew(adj, to, s, e, t) ==
    e[2] # to /\ e[2] \notin s.seen /\ Relaxed(adj, s, e, e[2], t)

RoundOf(adj, to, s, e, t) ==
    /\ e \in s.heap /\ \A f \in s.heap : e[1] <= f[1]
    /\ PopsTarget(adj, to, s, e, t) \/ PopsOutdated(adj, s, e, t) \/ PopsNew(adj, to, s, e, t)

(* Every round goes one of these ways, or finds the heap empty.            *)
LEMMA RoundDoes ==
    ASSUME NEW adj, NEW to, NEW s \in States(adj), NEW t \in Round(adj, to, s)
    PROVE  (s.heap = {} /\ t = s) \/ \E e : RoundOf(adj, to, s, e, t)
<1>1. CASE s.heap = {}
  BY <1>1 DEF Round
<1>2. CASE s.heap # {}
  <2> DEFINE pop(e) == [s EXCEPT !.heap = @ \ {e}]
             next(e) == CASE e[2] = to        -> [s EXCEPT !.heap = {}]
                          [] e[2] \in s.seen  -> pop(e)
                          [] OTHER            -> Relax(adj, pop(e), e[2])
  <2>1. t \in {next(e) : e \in {e \in s.heap : \A f \in s.heap : e[1] <= f[1]}}
    BY <1>2 DEF Round
  <2> HIDE DEF next
  <2>2. PICK e \in s.heap : (\A f \in s.heap : e[1] <= f[1]) /\ t = next(e)
    BY <2>1
  <2>3. CASE e[2] = to /\ e[2] \in s.seen
    <3>1. t = [s EXCEPT !.heap = {}] \/ t = pop(e)
      BY <2>2, <2>3 DEF next
    <3>2. CASE t = [s EXCEPT !.heap = {}]
      <4>1. PopsTarget(adj, to, s, e, t)
        BY <2>3, <3>2 DEF PopsTarget, SameBut, States
      <4>2. QED
        BY <2>2, <4>1 DEF RoundOf
    <3>3. CASE t = pop(e)
      <4>1. PopsOutdated(adj, s, e, t)
        BY <2>3, <3>3 DEF PopsOutdated, SameBut, States
      <4>2. QED
        BY <2>2, <4>1 DEF RoundOf
    <3>4. QED
      BY <3>1, <3>2, <3>3
  <2>4. CASE e[2] = to /\ e[2] \notin s.seen
    <3>1. t = [s EXCEPT !.heap = {}]
      BY <2>2, <2>4 DEF next
    <3>2. PopsTarget(adj, to, s, e, t)
      BY <2>4, <3>1 DEF PopsTarget, SameBut, States
    <3>3. QED
      BY <2>2, <3>2 DEF RoundOf
  <2>5. CASE e[2] # to /\ e[2] \in s.seen
    <3>1. t = pop(e)
      BY <2>2, <2>5 DEF next
    <3>2. PopsOutdated(adj, s, e, t)
      BY <2>5, <3>1 DEF PopsOutdated, SameBut, States
    <3>3. QED
      BY <2>2, <3>2 DEF RoundOf
  <2>6. CASE e[2] # to /\ e[2] \notin s.seen
    <3>1. t = Relax(adj, pop(e), e[2])
      BY <2>2, <2>6 DEF next
    <3>2. Relaxed(adj, s, e, e[2], t)
      BY <3>1, RelaxDoes
    <3>3. PopsNew(adj, to, s, e, t)
      BY <2>6, <3>2 DEF PopsNew
    <3>4. QED
      BY <2>2, <3>3 DEF RoundOf
  <2>7. QED
    BY <2>3, <2>4, <2>5, <2>6
<1>3. QED
  BY <1>1, <1>2

(* No round breaks what holds between rounds.                              *)
LEMMA RoundKeeps ==
    ASSUME NEW adj, NEW top, IsGraph(adj, top),
           NEW from \in DOMAIN adj, NEW to \in DOMAIN adj, NEW s,
           Searching(adj, top, from, to, s), NEW e, NEW t, RoundOf(adj, to, s, e, t)
    PROVE  Searching(adj, top, from, to, t)
<1>1. e \in s.heap /\ \A f \in s.heap : e[1] <= f[1]
  BY DEF RoundOf
<1>2. s \in States(adj) /\ Waiting(adj, s, to) /\ HeapAhead(adj, s) /\ to \notin s.seen
  BY DEF Searching, SearchTyped, Started
<1>3. CASE PopsTarget(adj, to, s, e, t)
  <2>1. e[2] = to /\ SameBut(s, t) /\ t.heap = {} /\ t \in States(adj)
    BY <1>3 DEF PopsTarget
  <2>2. s.dist[to] <= e[1] /\ Reached(adj, s, to)
    BY <1>1, <1>2, <2>1 DEF HeapAhead
  <2>3. ASSUME NEW v \in DOMAIN adj, v \notin t.seen, Reached(adj, t, v)
        PROVE  t.dist[to] <= t.dist[v] /\ Reached(adj, t, to)
    <3>1. v \notin s.seen /\ Reached(adj, s, v) /\ Reached(adj, t, to)
          /\ t.dist[to] = s.dist[to] /\ t.dist[v] = s.dist[v]
      BY <2>1, <2>2, <2>3 DEF SameBut, Reached
    <3>2. <<s.dist[v], v>> \in s.heap
      BY <1>1, <1>2, <3>1 DEF Waiting
    <3>3. e[1] <= <<s.dist[v], v>>[1]
      BY <1>1, <3>2
    <3>4. e[1] \in Nat /\ s.dist[v] \in Nat /\ s.dist[to] \in Nat
      <4>1. e \in Nat \X DOMAIN adj
        BY <1>1, <1>2 DEF States
      <4>2. QED
        BY <1>2, <4>1 DEF States
    <3>5. e[1] <= s.dist[v]
      BY <3>3
    <3>6. QED
      BY <2>2, <3>1, <3>4, <3>5
  <2>4. Waiting(adj, t, to)
    BY <2>1, <2>3 DEF Waiting
  <2>5. QED
    BY <2>1, <2>4, PopKeeps
<1>4. CASE PopsOutdated(adj, s, e, t)
  <2>1. e[2] \in s.seen /\ SameBut(s, t) /\ t.heap = s.heap \ {e} /\ t \in States(adj)
    BY <1>4 DEF PopsOutdated
  <2>2. ASSUME NEW v \in DOMAIN adj, v \notin t.seen, Reached(adj, t, v)
        PROVE  <<t.dist[v], v>> \in t.heap
    <3>1. v \notin s.seen /\ Reached(adj, s, v) /\ t.dist[v] = s.dist[v]
      BY <2>1, <2>2 DEF SameBut, Reached
    <3>2. <<s.dist[v], v>> \in s.heap
      BY <1>1, <1>2, <3>1 DEF Waiting
    <3>3. <<s.dist[v], v>> # e
      BY <2>1, <3>1
    <3>4. QED
      BY <2>1, <3>1, <3>2, <3>3
  <2>3. Waiting(adj, t, to)
    BY <2>2 DEF Waiting
  <2>4. QED
    BY <2>1, <2>3, PopKeeps
<1>5. CASE PopsNew(adj, to, s, e, t)
  <2>1. e[2] # to /\ e[2] \notin s.seen /\ Relaxed(adj, s, e, e[2], t)
    BY <1>5 DEF PopsNew
  <2>2. QED
    BY <1>1, <2>1, RelaxKeeps
<1>6. QED
  BY <1>3, <1>4, <1>5 DEF RoundOf

(* Every round pops an entry and every node pushes at most one per         *)
(* neighbour, once: after i rounds this many are left at most.             *)
Budget(adj, s, i) ==
    \/ s.heap = {}
    \/ i + Cardinality(s.heap) <= 1 + Cardinality(s.seen) * Cardinality(DOMAIN adj)

(* Every round stays within the budget of entries.                         *)
LEMMA RoundBudget ==
    ASSUME NEW adj, NEW top, IsGraph(adj, top), NEW from, NEW to, NEW s,
           Searching(adj, top, from, to, s), NEW e, NEW t, RoundOf(adj, to, s, e, t),
           NEW i \in Nat, Budget(adj, s, i)
    PROVE  Budget(adj, t, i + 1)
<1> DEFINE h == Cardinality(s.heap)
           c == Cardinality(s.seen)
           n == Cardinality(DOMAIN adj)
<1>0. IsFiniteSet(DOMAIN adj) /\ IsFiniteSet(s.heap) /\ s \in States(adj)
  BY DEF IsGraph, Searching, SearchTyped
<1>1. IsFiniteSet(s.seen)
  BY <1>0, FS_Subset DEF States
<1>2. h \in Nat /\ c \in Nat /\ n \in Nat
  BY <1>0, <1>1, FS_CardinalityType
<1>3. e \in s.heap
  BY DEF RoundOf
<1>4. IsFiniteSet(s.heap \ {e}) /\ Cardinality(s.heap \ {e}) = h - 1
  BY <1>0, <1>3, FS_RemoveElement
<1>5. i + h <= 1 + c * n
  BY <1>3 DEF Budget
<1>6. c * n \in Nat
  BY <1>2
<1>7. CASE PopsTarget(adj, to, s, e, t)
  BY <1>7 DEF PopsTarget, Budget
<1>8. CASE PopsOutdated(adj, s, e, t)
  <2>1. t.heap = s.heap \ {e} /\ t.seen = s.seen
    BY <1>8 DEF PopsOutdated, SameBut
  <2>2. Cardinality(t.heap) = h - 1 /\ Cardinality(t.seen) = c
    BY <1>4, <2>1
  <2> HIDE DEF h, c, n
  <2>3. i + 1 + Cardinality(t.heap) <= 1 + c * n
    BY <1>2, <1>5, <1>6, <2>2
  <2>4. QED
    BY <2>2, <2>3 DEF Budget, n
<1>9. CASE PopsNew(adj, to, s, e, t)
  <2> DEFINE u == e[2]
             B == Better(adj, s, u)
             f == [v \in B |-> <<Alt(adj, s, u, v), v>>]
  <2>1. u \notin s.seen /\ Relaxed(adj, s, e, u, t)
    BY <1>9 DEF PopsNew
  <2>2. Pushed(adj, s, u) = Range(f)
    BY DEF Pushed, Range
  <2>3. IsFiniteSet(B) /\ Cardinality(B) <= n /\ Cardinality(B) \in Nat
    <3>1. B \in SUBSET DOMAIN adj
      BY DEF Better
    <3> HIDE DEF B
    <3>2. QED
      BY <1>0, <3>1, FS_Subset, FS_CardinalityType
  <2>4. IsFiniteSet(Range(f)) /\ Cardinality(Range(f)) <= Cardinality(B)
        /\ Cardinality(Range(f)) \in Nat
    <3>1. f \in Surjection(B, Range(f))
      BY DEF Surjection, Range
    <3> HIDE DEF f, B
    <3>2. IsFiniteSet(Range(f)) /\ Cardinality(Range(f)) <= Cardinality(B)
      BY <2>3, <3>1, FS_Surjection
    <3>3. QED
      BY <3>2, FS_CardinalityType
  <2> HIDE DEF f, B, u
  <2>5. t.heap = (s.heap \ {e}) \cup Range(f) /\ t.seen = s.seen \cup {u}
    BY <2>1, <2>2 DEF Relaxed
  <2>6. /\ Cardinality(t.heap) =
             Cardinality(s.heap \ {e}) + Cardinality(Range(f))
             - Cardinality((s.heap \ {e}) \cap Range(f))
        /\ IsFiniteSet(t.heap)
    <3> DEFINE S == s.heap \ {e}
               R == Range(f)
    <3>1. IsFiniteSet(S) /\ IsFiniteSet(R) /\ t.heap = S \cup R
      BY <1>4, <2>4, <2>5
    <3> HIDE DEF S, R
    <3>2. /\ IsFiniteSet(S \cup R)
          /\ Cardinality(S \cup R) = Cardinality(S) + Cardinality(R) - Cardinality(S \cap R)
      BY <3>1, FS_Union
    <3>3. /\ IsFiniteSet(t.heap)
          /\ Cardinality(t.heap) = Cardinality(S) + Cardinality(R) - Cardinality(S \cap R)
      BY <3>1, <3>2
    <3>4. QED
      BY <3>3 DEF S, R
  <2>7. Cardinality((s.heap \ {e}) \cap Range(f)) \in Nat
    <3>1. IsFiniteSet((s.heap \ {e}) \cap Range(f))
      BY <1>4, FS_Subset
    <3>2. QED
      BY <3>1, FS_CardinalityType
  <2>8. Cardinality(t.seen) = c + 1
    BY <1>1, <2>1, <2>5, FS_AddElement
  <2>9. Cardinality(t.heap) \in Nat
    BY <2>6, FS_CardinalityType
  <2> HIDE DEF h, c, n
  <2>10. (c + 1) * n = c * n + n
    BY <1>2, Growth
  <2>11. i + 1 + Cardinality(t.heap) <= 1 + (c * n + n)
    BY <1>2, <1>4, <1>5, <1>6, <2>3, <2>4, <2>6, <2>7, <2>9
  <2>12. i + 1 + Cardinality(t.heap) <= 1 + (c + 1) * n
    BY <2>10, <2>11
  <2>13. QED
    BY <2>8, <2>12 DEF Budget, n
<1>10. QED
  BY <1>7, <1>8, <1>9 DEF RoundOf

(* The rounds of ShortestPath.                                             *)
Rounds(adj) == 1 + Cardinality(DOMAIN adj) * Cardinality(DOMAIN adj)

(* After the rounds of ShortestPath the budget leaves no entry.            *)
LEMMA BudgetSpent ==
    ASSUME NEW adj, NEW top, IsGraph(adj, top),
           NEW s, SearchTyped(adj, s), Budget(adj, s, Rounds(adj))
    PROVE  s.heap = {}
<1> DEFINE h == Cardinality(s.heap)
           c == Cardinality(s.seen)
           n == Cardinality(DOMAIN adj)
<1>0. IsFiniteSet(DOMAIN adj) /\ IsFiniteSet(s.heap) /\ s.seen \in SUBSET DOMAIN adj
  BY DEF IsGraph, SearchTyped, States
<1>1. IsFiniteSet(s.seen) /\ c <= n
  BY <1>0, FS_Subset
<1>2. h \in Nat /\ c \in Nat /\ n \in Nat
  BY <1>0, <1>1, FS_CardinalityType
<1>3. c * n <= n * n /\ c * n \in Nat /\ n * n \in Nat
  <2> HIDE DEF c, n
  <2>1. QED
    BY <1>1, <1>2, Growth
<1>4. SUFFICES ASSUME Rounds(adj) + h <= 1 + c * n PROVE s.heap = {}
  BY DEF Budget
<1>5. h = 0
  <2>1. 1 + n * n + h <= 1 + c * n
    BY <1>4 DEF Rounds
  <2> HIDE DEF h, c, n
  <2>2. QED
    BY <1>2, <1>3, <2>1
<1>6. QED
  BY <1>0, <1>5, FS_EmptySet

-----------------------------------------------------------------------------
(* The whole loop *)

StartState(adj, from) ==
    [dist |-> [v \in DOMAIN adj |-> IF v = from THEN 0 ELSE Infinity(adj)],
     prev |-> [v \in DOMAIN adj |-> NoNode],
     heap |-> {<<0, from>>}, seen |-> {}]

Looped(adj, from, to, g, i) ==
    IF i = 0 THEN {StartState(adj, from)} ELSE UNION {Round(adj, to, s) : s \in g[i - 1]}
Looping(adj, from, to, g, n) == g = [i \in 0..n |-> Looped(adj, from, to, g, i)]

(* The table of the loop exists.                                           *)
LEMMA LoopingExists ==
    ASSUME NEW adj, NEW from, NEW to, NEW n \in Nat
    PROVE  \E g : Looping(adj, from, to, g, n)
<1> DEFINE Bad == {k \in Nat : ~ \E g : Looping(adj, from, to, g, k)}
<1>1. SUFFICES ASSUME Bad # {} PROVE FALSE
  OBVIOUS
<1>2. PICK m \in Bad : \A k \in Bad : m <= k
  <2>1. Bad \in SUBSET Nat
    OBVIOUS
  <2> HIDE DEF Bad
  <2>2. QED
    BY <1>1, <2>1, Least
<1>3. m # 0
  <2> SUFFICES ASSUME m = 0 PROVE FALSE
    OBVIOUS
  <2> DEFINE g == [i \in 0..0 |-> {StartState(adj, from)}]
  <2>1. Looping(adj, from, to, g, 0)
    BY DEF Looping, Looped
  <2> HIDE DEF g
  <2>2. QED
    BY <1>2, <2>1
<1>4. m - 1 \in Nat /\ ~(m <= m - 1)
  BY <1>3
<1>5. PICK g : Looping(adj, from, to, g, m - 1)
  BY <1>2, <1>4
<1> DEFINE h == [i \in 0..m |-> Looped(adj, from, to, g, i)]
<1>6. ASSUME NEW i \in 0..m PROVE h[i] = Looped(adj, from, to, h, i)
  <2>1. h[i] = Looped(adj, from, to, g, i)
    OBVIOUS
  <2>2. ASSUME i # 0 PROVE h[i - 1] = g[i - 1]
    <3>1. i - 1 \in 0..(m - 1) /\ i - 1 \in 0..m
      BY <2>2
    <3>2. g[i - 1] = Looped(adj, from, to, g, i - 1)
      BY <1>5, <3>1 DEF Looping
    <3>3. h[i - 1] = Looped(adj, from, to, g, i - 1)
      BY <3>1
    <3>4. QED
      BY <3>2, <3>3
  <2> HIDE DEF h
  <2>3. QED
    BY <2>1, <2>2 DEF Looped
<1>7. h = [i \in 0..m |-> h[i]]
  OBVIOUS
<1> HIDE DEF h
<1>8. Looping(adj, from, to, h, m)
  BY <1>6, <1>7 DEF Looping
<1>9. QED
  BY <1>2, <1>8

(* A search that is over, and what ShortestPath answers from it.           *)
Over(adj, top, from, to, s) == Searching(adj, top, from, to, s) /\ s.heap = {}
Answers(adj, to, s) ==
    IF s.dist[to] = Infinity(adj) THEN {NoRoute}
    ELSE {[path |-> p, dist |-> s.dist[to]] : p \in PathsBack(s.prev, to)}

(* The search starts as it goes on.                                        *)
LEMMA SearchStarts ==
    ASSUME NEW adj, NEW top, IsGraph(adj, top), NEW from \in DOMAIN adj, NEW to \in DOMAIN adj
    PROVE  /\ Searching(adj, top, from, to, StartState(adj, from))
           /\ Budget(adj, StartState(adj, from), 0)
<1> DEFINE s == StartState(adj, from)
<1>1. Infinity(adj) \in Nat /\ top \in Nat /\ Infinity(adj) # 0
  <2>1. Cardinality(DOMAIN adj) \in Nat
    BY FS_CardinalityType DEF IsGraph
  <2>2. Cardinality(DOMAIN adj) * top \in Nat
    BY <2>1 DEF IsGraph
  <2>3. QED
    BY <2>2 DEF IsGraph
<1>2. /\ s.dist = [v \in DOMAIN adj |-> IF v = from THEN 0 ELSE Infinity(adj)]
      /\ s.prev = [v \in DOMAIN adj |-> NoNode] /\ s.heap = {<<0, from>>} /\ s.seen = {}
      /\ s = [dist |-> s.dist, prev |-> s.prev, heap |-> s.heap, seen |-> s.seen]
  BY DEF StartState
<1> HIDE DEF s
<1>3. IsFiniteSet(s.heap) /\ Cardinality(s.heap) = 1
  BY <1>2, FS_Singleton
<1>4. SearchTyped(adj, s)
  <2>1. s.dist \in [DOMAIN adj -> Nat]
    BY <1>1, <1>2
  <2>2. s.prev \in [DOMAIN adj -> DOMAIN adj \cup {NoNode}]
    BY <1>2
  <2>3. s.heap \in SUBSET (Nat \X DOMAIN adj)
    BY <1>2
  <2>4. s \in States(adj)
    BY <1>2, <2>1, <2>2, <2>3 DEF States
  <2>5. QED
    BY <1>3, <2>4 DEF SearchTyped
<1>5. Started(s, from, to) /\ LinksBack(adj, s) /\ Settled(adj, s)
  BY <1>2 DEF Started, LinksBack, Settled
<1>6. ASSUME NEW v \in DOMAIN adj, Reached(adj, s, v) PROVE v = from
  BY <1>2, <1>6 DEF Reached
<1>7. Trails(adj, top, s, from)
  <2> DEFINE p == <<from>>
  <2>1. p \in Seq(DOMAIN adj) /\ Len(p) = 1 /\ p[1] = from
    OBVIOUS
  <2> HIDE DEF p
  <2>2. Trail(adj, s, from, from, p)
    BY <2>1 DEF Trail
  <2>3. s.dist[from] + top <= Len(p) * top
    BY <1>1, <1>2, <2>1
  <2>4. QED
    BY <1>6, <2>2, <2>3 DEF Trails
<1>8. HeapAhead(adj, s)
  BY <1>1, <1>2 DEF HeapAhead, Reached
<1>9. Waiting(adj, s, to)
  <2>1. ASSUME NEW v \in DOMAIN adj, Reached(adj, s, v) PROVE <<s.dist[v], v>> \in s.heap
    BY <1>2, <1>6, <2>1
  <2>2. QED
    BY <2>1 DEF Waiting
<1>10. Budget(adj, s, 0)
  <2>1. Cardinality(s.seen) = 0
    BY <1>2, FS_EmptySet
  <2>2. Cardinality(DOMAIN adj) \in Nat
    BY FS_CardinalityType DEF IsGraph
  <2>3. 0 + 1 <= 1 + 0 * Cardinality(DOMAIN adj)
    BY <2>2
  <2>4. QED
    BY <1>3, <2>1, <2>3 DEF Budget
<1>11. Searching(adj, top, from, to, s)
  BY <1>4, <1>5, <1>7, <1>8, <1>9 DEF Searching
<1>12. QED
  BY <1>10, <1>11 DEF s

(* Every state of the loop is one of the search, within its budget.        *)
LEMMA LoopSearches ==
    ASSUME NEW adj, NEW top, IsGraph(adj, top), NEW from \in DOMAIN adj, NEW to \in DOMAIN adj,
           NEW n \in Nat, NEW g, Looping(adj, from, to, g, n)
    PROVE  \A k \in 0..n : \A s \in g[k] : Searching(adj, top, from, to, s) /\ Budget(adj, s, k)
<1> DEFINE Fine(s, k) == Searching(adj, top, from, to, s) /\ Budget(adj, s, k)
           Bad == {k \in 0..n : ~ \A s \in g[k] : Fine(s, k)}
<1>1. SUFFICES ASSUME Bad # {} PROVE FALSE
  OBVIOUS
<1>2. PICK k \in Bad : \A m \in Bad : k <= m
  <2>1. Bad \in SUBSET Nat
    OBVIOUS
  <2> HIDE DEF Bad
  <2>2. QED
    BY <1>1, <2>1, Least
<1>3. k \in 0..n /\ g[k] = Looped(adj, from, to, g, k)
  BY <1>2 DEF Looping
<1>4. PICK t \in g[k] : ~Fine(t, k)
  BY <1>2
<1>5. CASE k = 0
  <2>1. t = StartState(adj, from)
    BY <1>3, <1>4, <1>5 DEF Looped
  <2>2. QED
    BY <1>4, <1>5, <2>1, SearchStarts
<1>6. CASE k # 0
  <2>1. k - 1 \in 0..n /\ k - 1 \in Nat /\ ~(k <= k - 1) /\ k - 1 + 1 = k
    BY <1>3, <1>6
  <2>2. PICK s \in g[k - 1] : t \in Round(adj, to, s)
    BY <1>3, <1>4, <1>6 DEF Looped
  <2>3. Fine(s, k - 1)
    BY <1>2, <2>1, <2>2
  <2>4. Searching(adj, top, from, to, s) /\ Budget(adj, s, k - 1) /\ s \in States(adj)
    BY <2>3 DEF Searching, SearchTyped
  <2>5. CASE s.heap = {} /\ t = s
    <3>1. Budget(adj, t, k)
      BY <2>5 DEF Budget
    <3>2. QED
      BY <1>4, <2>4, <2>5, <3>1
  <2>6. CASE \E e : RoundOf(adj, to, s, e, t)
    <3>1. PICK e : RoundOf(adj, to, s, e, t)
      BY <2>6
    <3>2. Searching(adj, top, from, to, t)
      BY <2>4, <3>1, RoundKeeps
    <3>3. Budget(adj, t, (k - 1) + 1)
      BY <2>1, <2>4, <3>1, RoundBudget
    <3>4. Budget(adj, t, k)
      BY <2>1, <3>3
    <3>5. QED
      BY <1>4, <3>2, <3>4
  <2>7. QED
    BY <2>2, <2>4, <2>5, <2>6, RoundDoes
<1>7. QED
  BY <1>5, <1>6

(* Every answer of ShortestPath comes from a search that is over: that     *)
(* many rounds empty the heap.                                             *)
LEMMA ShortestPathOver ==
    ASSUME NEW adj, NEW top, IsGraph(adj, top), NEW from \in DOMAIN adj, NEW to \in DOMAIN adj,
           from # to, NEW r \in ShortestPath(adj, from, to)
    PROVE  \E s : Over(adj, top, from, to, s) /\ r \in Answers(adj, to, s)
<1> DEFINE n == Rounds(adj)
           g == CHOOSE g : Looping(adj, from, to, g, n)
<1>1. n \in Nat
  <2>1. Cardinality(DOMAIN adj) \in Nat
    BY FS_CardinalityType DEF IsGraph
  <2>2. QED
    BY <2>1 DEF Rounds
<1>2. Looping(adj, from, to, g, n)
  <2> HIDE DEF n
  <2>1. QED
    BY <1>1, LoopingExists
<1>3. r \in UNION {Answers(adj, to, s) : s \in g[n]}
  BY DEF ShortestPath, Looping, Looped, StartState, Rounds, Answers
<1> HIDE DEF g, n
<1>4. PICK s \in g[n] : r \in Answers(adj, to, s)
  BY <1>3
<1>5. Searching(adj, top, from, to, s) /\ Budget(adj, s, n)
  <2>1. n \in 0..n
    BY <1>1
  <2>2. QED
    BY <1>1, <1>2, <1>4, <2>1, LoopSearches
<1>6. s.heap = {}
  BY <1>5, BudgetSpent DEF n, Searching
<1>7. QED
  BY <1>4, <1>5, <1>6 DEF Over

-----------------------------------------------------------------------------
(* The path read back *)

(* The part of a path from its k-th node on.                               *)
From(p, k) == [j \in 1..(Len(p) - k + 1) |-> p[j + (k - 1)]]

(* Reading one node further back.                                          *)
LEMMA FromLonger ==
    ASSUME NEW S, NEW p \in Seq(S), NEW k \in 1..Len(p)
    PROVE  /\ From(p, k) \in Seq(S) /\ Head(From(p, k)) = p[k]
           /\ k > 1 => <<p[k - 1]>> \o From(p, k) = From(p, k - 1)
<1> DEFINE n == Len(p)
           q == From(p, k)
<1>1. n \in Nat /\ k \in Nat /\ k >= 1 /\ k <= n /\ \A i \in 1..n : p[i] \in S
  OBVIOUS
<1>2. ASSUME NEW j \in 1..(n - k + 1) PROVE j + (k - 1) \in 1..n
  BY <1>1
<1>3. q = [j \in 1..(n - k + 1) |-> p[j + (k - 1)]] /\ n - k + 1 \in Nat
  BY <1>1 DEF From
<1>4. q \in Seq(S) /\ Len(q) = n - k + 1 /\ q[1] = p[k] /\ Head(q) = q[1]
  <2>1. q \in [1..(n - k + 1) -> S]
    BY <1>1, <1>2, <1>3
  <2>2. q \in Seq(S) /\ Len(q) = n - k + 1
    BY <1>3, <2>1
  <2>3. 1 \in 1..(n - k + 1) /\ 1 + (k - 1) = k
    BY <1>1
  <2>4. q[1] = p[k]
    BY <1>3, <2>3
  <2> HIDE DEF q, n
  <2>5. QED
    BY <2>2, <2>4
<1>5. ASSUME k > 1 PROVE <<p[k - 1]>> \o q = From(p, k - 1)
  <2> DEFINE a == <<p[k - 1]>> \o q
             b == From(p, k - 1)
  <2>1. k - 1 \in 1..n /\ n - (k - 1) + 1 = n - k + 2 /\ n - k + 2 \in Nat /\ (k - 1) - 1 = k - 2
    BY <1>1, <1>5
  <2>2. b = [j \in 1..(n - k + 2) |-> p[j + (k - 2)]]
    BY <2>1 DEF From
  <2>3. p[k - 1] \in S
    BY <1>1, <2>1
  <2> HIDE DEF q, n
  <2>4. a \in Seq(S) /\ Len(a) = 1 + Len(q) /\ a[1] = p[k - 1]
        /\ \A j \in 2..(1 + Len(q)) : a[j] = q[j - 1]
    BY <1>4, <2>3
  <2>5. Len(a) = n - k + 2 /\ a = [j \in 1..(n - k + 2) |-> a[j]]
    BY <1>1, <1>4, <2>4
  <2>6. ASSUME NEW j \in 1..(n - k + 2) PROVE a[j] = p[j + (k - 2)]
    <3>1. CASE j = 1
      <4>1. 1 + (k - 2) = k - 1
        BY <1>1
      <4>2. QED
        BY <2>4, <3>1, <4>1
    <3>2. CASE j # 1
      <4>1. j \in 2..(1 + Len(q)) /\ j - 1 \in 1..(n - k + 1) /\ (j - 1) + (k - 1) = j + (k - 2)
        BY <1>1, <1>4, <3>2
      <4>2. q[j - 1] = p[(j - 1) + (k - 1)]
        BY <1>3, <4>1
      <4>3. QED
        BY <2>4, <4>1, <4>2
    <3>3. QED
      BY <3>1, <3>2
  <2>7. a = b
    BY <2>2, <2>5, <2>6
  <2>8. QED
    BY <2>7
<1>6. QED
  BY <1>4, <1>5

(* The whole path and its last node as parts of it.                        *)
LEMMA FromFirst ==
    ASSUME NEW S, NEW p \in Seq(S), Len(p) >= 1
    PROVE  From(p, 1) = p /\ From(p, Len(p)) = <<p[Len(p)]>>
<1> DEFINE n == Len(p)
<1>1. n \in Nat /\ p = [j \in 1..n |-> p[j]]
  OBVIOUS
<1>2. \A j \in 1..n : j + (1 - 1) = j
  BY <1>1
<1>3. n - 1 + 1 = n /\ n - n + 1 = 1
  BY <1>1
<1>4. From(p, 1) = [j \in 1..n |-> p[j]]
  BY <1>2, <1>3 DEF From
<1>5. From(p, n) = [j \in 1..1 |-> p[j + (n - 1)]]
  BY <1>3 DEF From
<1>6. \A j \in 1..1 : j + (n - 1) = n
  BY <1>1
<1>7. From(p, n) = [j \in 1..1 |-> p[n]]
  BY <1>5, <1>6
<1>8. [j \in 1..1 |-> p[n]] = <<p[n]>>
  OBVIOUS
<1>9. QED
  BY <1>1, <1>4, <1>7, <1>8

Backed(prev, to, g, i) ==
    IF i = 0 THEN {<<to>>}
    ELSE {IF prev[Head(p)] = NoNode THEN p ELSE <<prev[Head(p)]>> \o p : p \in g[i - 1]}
Backing(prev, to, g, n) == g = [i \in 0..n |-> Backed(prev, to, g, i)]

(* The table that reads a path back exists.                                *)
LEMMA BackingExists ==
    ASSUME NEW prev, NEW to, NEW n \in Nat
    PROVE  \E g : Backing(prev, to, g, n)
<1> DEFINE Bad == {k \in Nat : ~ \E g : Backing(prev, to, g, k)}
<1>1. SUFFICES ASSUME Bad # {} PROVE FALSE
  OBVIOUS
<1>2. PICK m \in Bad : \A k \in Bad : m <= k
  <2>1. Bad \in SUBSET Nat
    OBVIOUS
  <2> HIDE DEF Bad
  <2>2. QED
    BY <1>1, <2>1, Least
<1>3. m # 0
  <2> SUFFICES ASSUME m = 0 PROVE FALSE
    OBVIOUS
  <2> DEFINE g == [i \in 0..0 |-> {<<to>>}]
  <2>1. Backing(prev, to, g, 0)
    BY DEF Backing, Backed
  <2> HIDE DEF g
  <2>2. QED
    BY <1>2, <2>1
<1>4. m - 1 \in Nat /\ ~(m <= m - 1)
  BY <1>3
<1>5. PICK g : Backing(prev, to, g, m - 1)
  BY <1>2, <1>4
<1> DEFINE h == [i \in 0..m |-> Backed(prev, to, g, i)]
<1>6. ASSUME NEW i \in 0..m PROVE h[i] = Backed(prev, to, h, i)
  <2>1. h[i] = Backed(prev, to, g, i)
    OBVIOUS
  <2>2. ASSUME i # 0 PROVE h[i - 1] = g[i - 1]
    <3>1. i - 1 \in 0..(m - 1) /\ i - 1 \in 0..m
      BY <2>2
    <3>2. g[i - 1] = Backed(prev, to, g, i - 1)
      BY <1>5, <3>1 DEF Backing
    <3>3. h[i - 1] = Backed(prev, to, g, i - 1)
      BY <3>1
    <3>4. QED
      BY <3>2, <3>3
  <2> HIDE DEF h
  <2>3. QED
    BY <2>1, <2>2 DEF Backed
<1>7. h = [i \in 0..m |-> h[i]]
  OBVIOUS
<1> HIDE DEF h
<1>8. Backing(prev, to, h, m)
  BY <1>6, <1>7 DEF Backing
<1>9. QED
  BY <1>2, <1>8

(* Reading back along a trail gives the trail and nothing else.            *)
LEMMA BackAlong ==
    ASSUME NEW adj, NEW s, NEW from, NEW to, Started(s, from, to), SearchTyped(adj, s),
           IsFiniteSet(DOMAIN adj), NoNode \notin DOMAIN adj,
           NEW p, Trail(adj, s, from, to, p)
    PROVE  PathsBack(s.prev, to) = {p}
<1> DEFINE n == Cardinality(DOMAIN adj)
           g == CHOOSE g : Backing(s.prev, to, g, n)
           L == Len(p)
           at(i) == IF i < L THEN L - i ELSE 1
<1>1. L \in Nat /\ L <= n /\ n \in Nat /\ L >= 1 /\ p \in Seq(DOMAIN adj)
  BY TrailShort DEF Trail
<1>2. Backing(s.prev, to, g, n)
  <2> HIDE DEF n
  <2>1. QED
    BY <1>1, BackingExists
<1>3. PathsBack(s.prev, to) = g[n]
  <2>1. DOMAIN s.prev = DOMAIN adj
    BY DEF SearchTyped, States
  <2>2. QED
    BY <2>1 DEF PathsBack, Backing, Backed
<1> HIDE DEF g, n
<1> DEFINE Bad == {i \in 0..n : g[i] # {From(p, at(i))}}
<1>4. ASSUME Bad # {} PROVE FALSE
  <2>1. PICK i \in Bad : \A m \in Bad : i <= m
    <3>1. Bad \in SUBSET Nat
      BY <1>1
    <3> HIDE DEF Bad
    <3>2. QED
      BY <1>4, <3>1, Least
  <2>2. i \in 0..n /\ g[i] # {From(p, at(i))} /\ g[i] = Backed(s.prev, to, g, i)
    BY <1>2, <2>1 DEF Backing
  <2>3. CASE i = 0
    <3>1. at(i) = L /\ g[i] = {<<to>>}
      BY <1>1, <2>2, <2>3 DEF Backed
    <3>2. From(p, L) = <<to>>
      BY <1>1, FromFirst DEF Trail
    <3> HIDE DEF at
    <3>3. QED
      BY <2>2, <3>1, <3>2
  <2>4. CASE i # 0
    <3>1. i - 1 \in 0..n /\ ~(i <= i - 1)
      BY <1>1, <2>2, <2>4
    <3>2. g[i - 1] = {From(p, at(i - 1))}
      BY <2>1, <3>1
    <3> DEFINE k == at(i - 1)
               q == From(p, k)
    <3>3. k \in 1..L /\ at(i) = IF k > 1 THEN k - 1 ELSE 1
      BY <1>1, <2>2, <3>1
    <3> HIDE DEF at, k
    <3>4. q \in Seq(DOMAIN adj) /\ Head(q) = p[k] /\ (k > 1 => <<p[k - 1]>> \o q = From(p, k - 1))
      BY <1>1, <3>3, FromLonger
    <3> HIDE DEF q
    <3>5. g[i - 1] = {q}
      BY <3>2 DEF q, k
    <3>6. g[i] = {IF s.prev[Head(q)] = NoNode THEN q ELSE <<s.prev[Head(q)]>> \o q}
      BY <2>2, <2>4, <3>5 DEF Backed
    <3>7. CASE k = 1
      <4>1. s.prev[Head(q)] = NoNode
        BY <3>4, <3>7 DEF Trail, Started
      <4>2. g[i] = {q} /\ at(i) = k
        BY <3>3, <3>6, <3>7, <4>1
      <4>3. QED
        BY <2>2, <4>2 DEF q
    <3>8. CASE k > 1
      <4>1. k - 1 \in 1..(L - 1) /\ (k - 1) + 1 = k
        BY <1>1, <3>3, <3>8
      <4>2. s.prev[p[k]] = p[k - 1] /\ p[k - 1] \in s.seen
        BY <4>1 DEF Trail
      <4>3. p[k - 1] # NoNode
        BY <4>2 DEF SearchTyped, States
      <4>4. g[i] = {From(p, k - 1)} /\ at(i) = k - 1
        BY <3>3, <3>4, <3>6, <3>8, <4>2, <4>3
      <4>5. QED
        BY <2>2, <4>4
    <3>9. QED
      BY <3>3, <3>7, <3>8
  <2>5. QED
    BY <2>3, <2>4
<1>5. n \in 0..n /\ at(n) = 1
  BY <1>1
<1>6. g[n] = {From(p, at(n))}
  BY <1>4, <1>5
<1>7. From(p, 1) = p
  BY <1>1, FromFirst
<1>8. QED
  BY <1>3, <1>5, <1>6, <1>7

-----------------------------------------------------------------------------
(* The length of a path *)

Measured(map, p, g, i) ==
    IF i = 1 THEN {0} ELSE {d + w : d \in g[i - 1], w \in Weights(map, p[i - 1], p[i])}
Measuring(map, p, g, n) == g = [i \in 1..n |-> Measured(map, p, g, i)]

(* The table that measures a path exists.                                  *)
LEMMA MeasuringExists ==
    ASSUME NEW map, NEW p, NEW n \in Nat
    PROVE  \E g : Measuring(map, p, g, n)
<1> DEFINE Bad == {k \in Nat : ~ \E g : Measuring(map, p, g, k)}
<1>1. SUFFICES ASSUME Bad # {} PROVE FALSE
  OBVIOUS
<1>2. PICK m \in Bad : \A k \in Bad : m <= k
  <2>1. Bad \in SUBSET Nat
    OBVIOUS
  <2> HIDE DEF Bad
  <2>2. QED
    BY <1>1, <2>1, Least
<1>3. m # 0
  <2> SUFFICES ASSUME m = 0 PROVE FALSE
    OBVIOUS
  <2> DEFINE g == [i \in 1..0 |-> {0}]
  <2>1. Measuring(map, p, g, 0)
    BY DEF Measuring, Measured
  <2> HIDE DEF g
  <2>2. QED
    BY <1>2, <2>1
<1>4. m - 1 \in Nat /\ ~(m <= m - 1)
  BY <1>3
<1>5. PICK g : Measuring(map, p, g, m - 1)
  BY <1>2, <1>4
<1> DEFINE h == [i \in 1..m |-> Measured(map, p, g, i)]
<1>6. ASSUME NEW i \in 1..m PROVE h[i] = Measured(map, p, h, i)
  <2>1. h[i] = Measured(map, p, g, i)
    OBVIOUS
  <2>2. ASSUME i # 1 PROVE h[i - 1] = g[i - 1]
    <3>1. i - 1 \in 1..(m - 1) /\ i - 1 \in 1..m
      BY <2>2
    <3>2. g[i - 1] = Measured(map, p, g, i - 1)
      BY <1>5, <3>1 DEF Measuring
    <3>3. h[i - 1] = Measured(map, p, g, i - 1)
      BY <3>1
    <3>4. QED
      BY <3>2, <3>3
  <2> HIDE DEF h
  <2>3. QED
    BY <2>1, <2>2 DEF Measured
<1>7. h = [i \in 1..m |-> h[i]]
  OBVIOUS
<1> HIDE DEF h
<1>8. Measuring(map, p, h, m)
  BY <1>6, <1>7 DEF Measuring
<1>9. QED
  BY <1>2, <1>8

(* PathLengths is its last entry.                                          *)
LEMMA LengthsMeasured ==
    ASSUME NEW map, NEW p, Len(p) \in Nat
    PROVE  \E g : Measuring(map, p, g, Len(p)) /\ PathLengths(map, p) = g[Len(p)]
<1> DEFINE g == CHOOSE g : Measuring(map, p, g, Len(p))
<1>1. Measuring(map, p, g, Len(p))
  BY MeasuringExists
<1>2. PathLengths(map, p) = g[Len(p)]
  BY DEF PathLengths, Measuring, Measured
<1> HIDE DEF g
<1>3. QED
  BY <1>1, <1>2

(* One edge more: it is an edge of the adjacency map.                      *)
LEMMA LengthStep ==
    ASSUME NEW adj, NEW m, OnMap(adj, m), NEW p, NEW n \in Nat, NEW g, Measuring(m, p, g, n),
           NEW k \in 1..n, k # 1, NEW d \in g[k]
    PROVE  \E c \in g[k - 1] : Has(adj, p[k - 1], p[k]) /\ d = c + adj[p[k - 1]][p[k]]
<1>0. g[k] = Measured(m, p, g, k)
  BY DEF Measuring
<1>1. g[k] = {c + w : c \in g[k - 1], w \in Weights(m, p[k - 1], p[k])}
  BY <1>0 DEF Measured
<1>2. PICK c \in g[k - 1], w \in Weights(m, p[k - 1], p[k]) : d = c + w
  BY <1>1
<1>3. Weights(m, p[k - 1], p[k]) = IF Has(adj, p[k - 1], p[k]) THEN {adj[p[k - 1]][p[k]]} ELSE {}
  BY DEF OnMap
<1>4. Has(adj, p[k - 1], p[k]) /\ w = adj[p[k - 1]][p[k]]
  BY <1>2, <1>3
<1>5. QED
  BY <1>2, <1>4

(* Lengths are naturals.                                                   *)
LEMMA LengthsNat ==
    ASSUME NEW adj, NEW top, IsGraph(adj, top), NEW m, OnMap(adj, m),
           NEW p, Len(p) \in Nat, Len(p) >= 1
    PROVE  PathLengths(m, p) \in SUBSET Nat
<1> DEFINE n == Len(p)
<1>1. PICK g : Measuring(m, p, g, n) /\ PathLengths(m, p) = g[n]
  BY LengthsMeasured
<1> DEFINE Bad == {k \in 1..n : ~(g[k] \in SUBSET Nat)}
<1>2. ASSUME Bad # {} PROVE FALSE
  <2>1. PICK k \in Bad : \A i \in Bad : k <= i
    <3>1. Bad \in SUBSET Nat
      OBVIOUS
    <3> HIDE DEF Bad
    <3>2. QED
      BY <1>2, <3>1, Least
  <2>2. k \in 1..n /\ g[k] = Measured(m, p, g, k)
    BY <1>1, <2>1 DEF Measuring
  <2>3. CASE k = 1
    BY <2>1, <2>2, <2>3 DEF Measured
  <2>4. CASE k # 1
    <3>1. k - 1 \in 1..n /\ ~(k <= k - 1)
      BY <2>2, <2>4
    <3>2. g[k - 1] \in SUBSET Nat
      BY <2>1, <3>1
    <3>3. ASSUME NEW d \in g[k] PROVE d \in Nat
      <4>1. PICK c \in g[k - 1] : Has(adj, p[k - 1], p[k]) /\ d = c + adj[p[k - 1]][p[k]]
        BY <1>1, <2>2, <2>4, LengthStep
      <4>2. adj[p[k - 1]][p[k]] \in Nat /\ c \in Nat
        BY <3>2, <4>1 DEF IsGraph
      <4>3. QED
        BY <4>1, <4>2
    <3>4. QED
      BY <2>1, <3>3
  <2>5. QED
    BY <2>3, <2>4
<1>3. n \in 1..n
  OBVIOUS
<1>4. QED
  BY <1>1, <1>2, <1>3

(* A path that has one length.                                             *)
Measures(m, p, d) == PathLengths(m, p) = {d}

(* A trail is as long as the search says: the distance of its last node.   *)
LEMMA TrailLength ==
    ASSUME NEW adj, NEW m, OnMap(adj, m), NEW s, NEW from, NEW to, NEW v,
           Started(s, from, to), LinksBack(adj, s), NoNode \notin DOMAIN adj,
           NEW p, Trail(adj, s, from, v, p)
    PROVE  Measures(m, p, s.dist[v])
<1> DEFINE n == Len(p)
<1>0. n \in Nat /\ n >= 1 /\ \A k \in 1..n : p[k] \in DOMAIN adj
  BY DEF Trail
<1>1. PICK g : Measuring(m, p, g, n) /\ PathLengths(m, p) = g[n]
  BY <1>0, LengthsMeasured
<1> HIDE DEF n
<1> DEFINE Bad == {k \in 1..n : g[k] # {s.dist[p[k]]}}
<1>2. ASSUME Bad # {} PROVE FALSE
  <2>1. PICK k \in Bad : \A i \in Bad : k <= i
    <3>1. Bad \in SUBSET Nat
      OBVIOUS
    <3> HIDE DEF Bad
    <3>2. QED
      BY <1>2, <3>1, Least
  <2>2. k \in 1..n /\ g[k] # {s.dist[p[k]]} /\ g[k] = Measured(m, p, g, k)
    BY <1>1, <2>1 DEF Measuring
  <2>3. CASE k = 1
    <3>1. s.dist[p[k]] = 0
      BY <2>3 DEF Trail, Started
    <3>2. QED
      BY <2>2, <2>3, <3>1 DEF Measured
  <2>4. CASE k # 1
    <3>1. k - 1 \in 1..n /\ ~(k <= k - 1) /\ k - 1 \in 1..(n - 1) /\ (k - 1) + 1 = k
      BY <1>0, <2>2, <2>4
    <3>2. g[k - 1] = {s.dist[p[k - 1]]}
      BY <2>1, <3>1
    <3>3. s.prev[p[k]] = p[k - 1] /\ p[k - 1] # NoNode
      <4>1. s.prev[p[(k - 1) + 1]] = p[k - 1]
        BY <3>1 DEF Trail, n
      <4>2. QED
        BY <1>0, <3>1, <4>1
    <3>4. /\ Has(adj, p[k - 1], p[k])
          /\ s.dist[p[k]] = s.dist[p[k - 1]] + adj[p[k - 1]][p[k]]
      BY <1>0, <2>2, <3>3 DEF LinksBack
    <3>5. Weights(m, p[k - 1], p[k]) = {adj[p[k - 1]][p[k]]}
      BY <3>4 DEF OnMap
    <3>6. g[k] = {c + w : c \in {s.dist[p[k - 1]]}, w \in {adj[p[k - 1]][p[k]]}}
      BY <2>2, <2>4, <3>2, <3>5 DEF Measured
    <3>7. g[k] = {s.dist[p[k]]}
      BY <3>4, <3>6
    <3>8. QED
      BY <2>2, <3>7
  <2>5. QED
    BY <2>3, <2>4
<1>3. n \in 1..n /\ p[n] = v
  BY <1>0 DEF Trail, n
<1>4. QED
  BY <1>1, <1>2, <1>3 DEF Measures

(* The search found the target, and no further away than d.                *)
NoShorter(adj, s, to, d) == Reached(adj, s, to) /\ s.dist[to] <= d

(* Following any path, either the next node is seen and no further than    *)
(* the path says, or the target is nearer than that.                       *)
LEMMA NoneShorter ==
    ASSUME NEW adj, NEW top, IsGraph(adj, top), NEW m, OnMap(adj, m),
           NEW from \in DOMAIN adj, NEW to \in DOMAIN adj, NEW s, Over(adj, top, from, to, s),
           NEW p, Len(p) \in Nat, Len(p) >= 1, p[1] = from, p[Len(p)] = to,
           NEW d \in PathLengths(m, p)
    PROVE  NoShorter(adj, s, to, d)
<1> DEFINE n == Len(p)
           Near(x, l) == x \in DOMAIN adj => Reached(adj, s, x) /\ s.dist[x] <= l
           Fine(k, l) == l \in Nat /\ (NoShorter(adj, s, to, l) \/ Near(p[k], l))
<1>1. PICK g : Measuring(m, p, g, n) /\ PathLengths(m, p) = g[n]
  BY LengthsMeasured
<1>2. \A v \in DOMAIN adj : s.dist[v] \in Nat
  BY DEF Over, Searching, SearchTyped, States
<1>3. s.heap = {} /\ Settled(adj, s) /\ Waiting(adj, s, to) /\ s.dist[from] = 0
  BY DEF Over, Searching, Started
<1>4. Infinity(adj) # 0
  <2>1. Cardinality(DOMAIN adj) \in Nat
    BY FS_CardinalityType DEF IsGraph
  <2>2. Cardinality(DOMAIN adj) * top \in Nat
    BY <2>1 DEF IsGraph
  <2>3. QED
    BY <2>2 DEF IsGraph
<1> HIDE DEF n
<1>n. n \in Nat /\ n >= 1 /\ p[n] = to
  BY DEF n
<1> DEFINE Bad == {k \in 1..n : \E l \in g[k] : ~Fine(k, l)}
<1>5. ASSUME Bad # {} PROVE FALSE
  <2>1. PICK k \in Bad : \A i \in Bad : k <= i
    <3>1. Bad \in SUBSET Nat
      OBVIOUS
    <3> HIDE DEF Bad
    <3>2. QED
      BY <1>5, <3>1, Least
  <2>2. k \in 1..n /\ g[k] = Measured(m, p, g, k)
    BY <1>1, <2>1 DEF Measuring
  <2>3. PICK l \in g[k] : ~Fine(k, l)
    BY <2>1
  <2>4. CASE k = 1
    <3>1. l = 0
      BY <2>2, <2>3, <2>4 DEF Measured
    <3>2. Reached(adj, s, from) /\ s.dist[from] <= 0
      BY <1>3, <1>4 DEF Reached
    <3>3. QED
      BY <2>3, <2>4, <3>1, <3>2
  <2>5. CASE k # 1
    <3>1. k - 1 \in 1..n /\ ~(k <= k - 1)
      BY <1>n, <2>2, <2>5
    <3> DEFINE x == p[k - 1]
               y == p[k]
    <3>2. PICK c \in g[k - 1] : Has(adj, x, y) /\ l = c + adj[x][y]
      <4>1. \E c \in g[k - 1] : Has(adj, p[k - 1], p[k]) /\ l = c + adj[p[k - 1]][p[k]]
        BY <1>1, <1>n, <2>2, <2>3, <2>5, LengthStep
      <4>2. QED
        BY <4>1
    <3>3. Fine(k - 1, c)
      BY <2>1, <3>1, <3>2
    <3> HIDE DEF x, y
    <3>4. c \in Nat /\ (NoShorter(adj, s, to, c) \/ Near(x, c)) /\ x \in DOMAIN adj
      BY <3>2, <3>3 DEF Has, x
    <3>5. adj[x][y] \in Nat /\ l \in Nat /\ c <= l
      <4>1. adj[x][y] \in Nat
        BY <3>2 DEF IsGraph
      <4>2. QED
        BY <3>2, <3>4, <4>1
    <3>6. ASSUME NoShorter(adj, s, to, c) PROVE NoShorter(adj, s, to, l)
      BY <1>2, <3>4, <3>5, <3>6 DEF NoShorter
    <3>7. ASSUME Near(x, c), x \in s.seen PROVE Near(y, l)
      <4> SUFFICES ASSUME y \in DOMAIN adj PROVE Reached(adj, s, y) /\ s.dist[y] <= l
        OBVIOUS
      <4>1. Reached(adj, s, y) /\ s.dist[y] <= s.dist[x] + adj[x][y]
        BY <1>3, <3>2, <3>7 DEF Settled
      <4>2. QED
        BY <1>2, <3>2, <3>4, <3>5, <3>7, <4>1
    <3>8. ASSUME Near(x, c), x \notin s.seen PROVE NoShorter(adj, s, to, c)
      <4>1. Reached(adj, s, x) /\ s.dist[x] <= c
        BY <3>4, <3>8
      <4>2. s.dist[to] <= s.dist[x] /\ Reached(adj, s, to)
        BY <1>3, <3>4, <3>8, <4>1 DEF Waiting
      <4>3. QED
        BY <1>2, <3>4, <4>1, <4>2 DEF NoShorter
    <3>9. NoShorter(adj, s, to, l) \/ Near(y, l)
      BY <3>4, <3>6, <3>7, <3>8
    <3>10. QED
      BY <2>3, <3>5, <3>9 DEF y
  <2>6. QED
    BY <2>4, <2>5
<1>6. n \in 1..n /\ d \in g[n]
  BY <1>1, <1>n
<1>7. Fine(n, d)
  BY <1>5, <1>6
<1>8. QED
  BY <1>7, <1>n DEF NoShorter

-----------------------------------------------------------------------------
(* CalculateRoute *)

Routes(m, from, to) ==
    UNION {{[path |-> p, dist |-> d] : d \in PathLengths(m, p)} : p \in SimplePaths(m, from, to)}

(* What a path without repetition is.                                      *)
LEMMA SimplePath ==
    ASSUME NEW m, IsFiniteSet(Places(m)), NEW from, NEW to, NEW p \in SimplePaths(m, from, to)
    PROVE  Len(p) \in Nat /\ Len(p) >= 1 /\ p[1] = from /\ p[Len(p)] = to
<1>1. PICK n \in 1..Cardinality(Places(m)) :
          p \in {q \in [1..n -> Places(m)] : IsInjective(q) /\ q[1] = from /\ q[n] = to}
  BY DEF SimplePaths
<1>2. Cardinality(Places(m)) \in Nat
  BY FS_CardinalityType
<1>3. n \in Nat /\ n >= 1 /\ p \in [1..n -> Places(m)] /\ p[1] = from /\ p[n] = to
  BY <1>1, <1>2
<1>4. Len(p) = n
  <2>1. p \in Seq(Places(m)) /\ DOMAIN p = 1..n
    BY <1>3
  <2>2. QED
    BY <1>3, <2>1
<1>5. QED
  BY <1>3, <1>4

(* A path without repetition is one of those the reference ranges over.    *)
LEMMA PathSimple ==
    ASSUME NEW m, IsFiniteSet(Places(m)), NEW from, NEW to, NEW p \in Seq(Places(m)),
           Len(p) >= 1, p[1] = from, p[Len(p)] = to,
           \A j, k \in 1..Len(p) : p[j] = p[k] => j = k
    PROVE  p \in SimplePaths(m, from, to)
<1> DEFINE n == Len(p)
<1>1. p \in [1..n -> Places(m)] /\ n \in Nat /\ DOMAIN p = 1..n
  OBVIOUS
<1>2. n <= Cardinality(Places(m)) /\ Cardinality(Places(m)) \in Nat
  <2>1. p \in Injection(1..n, Places(m))
    BY <1>1 DEF Injection, IsInjective
  <2>2. IsFiniteSet(1..n) /\ Cardinality(1..n) = IF 1 > n THEN 0 ELSE n - 1 + 1
    BY <1>1, FS_Interval
  <2>3. Cardinality(1..n) <= Cardinality(Places(m))
    BY <2>1, <2>2, FS_Injection
  <2>4. Cardinality(Places(m)) \in Nat
    BY FS_CardinalityType
  <2>5. QED
    BY <1>1, <2>2, <2>3, <2>4
<1>3. IsInjective(p)
  BY <1>1 DEF IsInjective
<1>4. n \in 1..Cardinality(Places(m))
  BY <1>1, <1>2
<1>5. QED
  BY <1>1, <1>3, <1>4 DEF SimplePaths

(* A route of the reference is a path with one of its lengths.             *)
LEMMA RouteOf ==
    ASSUME NEW m, NEW from, NEW to, NEW r \in Routes(m, from, to)
    PROVE  \E p \in SimplePaths(m, from, to) : \E d \in PathLengths(m, p) :
               r = [path |-> p, dist |-> d] /\ r.dist = d
<1>1. PICK p \in SimplePaths(m, from, to) :
          r \in {[path |-> p, dist |-> d] : d \in PathLengths(m, p)}
  BY DEF Routes
<1>2. QED
  BY <1>1

(* A route that no other undercuts is a shortest one.                      *)
LEMMA ShortestOf ==
    ASSUME NEW m, NEW from, NEW to, NEW r \in Routes(m, from, to),
           \A q \in Routes(m, from, to) : r.dist <= q.dist
    PROVE  r \in ShortestRoutes(m, from, to)
  BY DEF ShortestRoutes, Routes

(* From a node to itself.                                                  *)
LEMMA RouteToSelf ==
    ASSUME NEW m, IsMap(m), NEW adj, NEW top, IsGraph(adj, top), OnMap(adj, m), NEW v \in m.nodes
    PROVE  [path |-> <<v>>, dist |-> 0] \in ShortestRoutes(m, v, v)
<1> DEFINE p == <<v>>
           r == [path |-> p, dist |-> 0]
<1>0. IsFiniteSet(Places(m)) /\ v \in Places(m)
  BY PlacesFinite DEF Places
<1>1. p \in Seq(Places(m)) /\ Len(p) = 1 /\ p[1] = v
  BY <1>0
<1> HIDE DEF p
<1>2. p \in SimplePaths(m, v, v)
  <2>1. \A j, k \in 1..Len(p) : p[j] = p[k] => j = k
    BY <1>1
  <2>2. Len(p) >= 1 /\ p[Len(p)] = v
    BY <1>1
  <2>3. QED
    BY <1>0, <1>1, <2>1, <2>2, PathSimple
<1>3. 0 \in PathLengths(m, p)
  <2>1. PICK g : Measuring(m, p, g, Len(p)) /\ PathLengths(m, p) = g[Len(p)]
    <3>1. Len(p) \in Nat
      BY <1>1
    <3>2. QED
      BY <3>1, LengthsMeasured
  <2>2. g[1] = Measured(m, p, g, 1)
    BY <1>1, <2>1 DEF Measuring
  <2>3. QED
    BY <1>1, <2>1, <2>2 DEF Measured
<1>4. r \in Routes(m, v, v) /\ r.dist = 0
  BY <1>2, <1>3 DEF Routes
<1>5. ASSUME NEW q \in Routes(m, v, v) PROVE 0 <= q.dist
  <2>0. PICK w \in SimplePaths(m, v, v) : \E d \in PathLengths(m, w) : q.dist = d
    BY RouteOf
  <2>1. PICK d \in PathLengths(m, w) : q.dist = d
    BY <2>0
  <2>2. Len(w) \in Nat /\ Len(w) >= 1
    BY <1>0, SimplePath
  <2>3. d \in Nat
    BY <2>2, LengthsNat
  <2>4. QED
    BY <2>1, <2>3
<1> HIDE DEF r
<1>6. r \in ShortestRoutes(m, v, v)
  BY <1>4, <1>5, ShortestOf
<1>7. QED
  BY <1>6 DEF r, p

(* What a search that is over answers is a shortest route.                 *)
LEMMA AnswersShortest ==
    ASSUME NEW m, IsMap(m), NEW adj, NEW top, IsGraph(adj, top), OnMap(adj, m),
           NEW from \in DOMAIN adj, NEW to \in DOMAIN adj, NEW s, Over(adj, top, from, to, s),
           NEW r \in Answers(adj, to, s)
    PROVE  r \in ShortestRoutes(m, from, to)
<1>0. IsFiniteSet(Places(m)) /\ DOMAIN adj \subseteq Places(m)
  BY PlacesFinite DEF OnMap
<1>1. ASSUME NEW q \in Routes(m, from, to) PROVE NoShorter(adj, s, to, q.dist)
  <2>0. PICK w \in SimplePaths(m, from, to) : \E d \in PathLengths(m, w) : q.dist = d
    BY RouteOf
  <2>1. PICK d \in PathLengths(m, w) : q.dist = d
    BY <2>0
  <2>2. Len(w) \in Nat /\ Len(w) >= 1 /\ w[1] = from /\ w[Len(w)] = to
    BY <1>0, SimplePath
  <2>3. NoShorter(adj, s, to, d)
    BY <2>2, NoneShorter
  <2>4. QED
    BY <2>1, <2>3
<1>2. CASE ~Reached(adj, s, to)
  <2>1. r = NoRoute
    BY <1>2 DEF Reached, Answers
  <2>2. Routes(m, from, to) = {}
    BY <1>1, <1>2 DEF NoShorter
  <2>3. QED
    BY <2>1, <2>2 DEF ShortestRoutes, Routes
<1>3. CASE Reached(adj, s, to)
  <2>1. /\ SearchTyped(adj, s) /\ Started(s, from, to) /\ LinksBack(adj, s)
        /\ Trails(adj, top, s, from) /\ IsFiniteSet(DOMAIN adj) /\ NoNode \notin DOMAIN adj
    BY DEF Over, Searching, IsGraph
  <2>2. PICK p : Trail(adj, s, from, to, p)
    BY <1>3, <2>1 DEF Trails
  <2>3. PathsBack(s.prev, to) = {p}
    BY <2>1, <2>2, BackAlong
  <2>4. r = [path |-> p, dist |-> s.dist[to]]
    BY <1>3, <2>3 DEF Answers, Reached
  <2>5. PathLengths(m, p) = {s.dist[to]}
    <3>1. Measures(m, p, s.dist[to])
      BY <2>1, <2>2, TrailLength
    <3>2. QED
      BY <3>1 DEF Measures
  <2>6. p \in SimplePaths(m, from, to)
    <3>1. /\ p \in Seq(DOMAIN adj) /\ Len(p) >= 1 /\ p[1] = from /\ p[Len(p)] = to
          /\ \A j, k \in 1..Len(p) : p[j] = p[k] => j = k
      BY <2>2 DEF Trail
    <3>2. p \in Seq(Places(m))
      BY <1>0, <3>1
    <3>3. QED
      BY <1>0, <3>1, <3>2, PathSimple
  <2>7. r \in Routes(m, from, to) /\ r.dist = s.dist[to]
    BY <2>4, <2>5, <2>6 DEF Routes
  <2>8. ASSUME NEW q \in Routes(m, from, to) PROVE r.dist <= q.dist
    BY <1>1, <2>7 DEF NoShorter
  <2>9. QED
    BY <2>7, <2>8, ShortestOf
<1>4. QED
  BY <1>2, <1>3

(* For every map: every route CalculateRoute may return between two nodes  *)
(* of the map is one that no way without repetition undercuts.             *)
THEOREM CalculateRouteShortest ==
    ASSUME NEW m, IsMap(m), NEW from \in m.nodes, NEW to \in m.nodes
    PROVE  CalculateRoute(m, from, to) \subseteq ShortestRoutes(m, from, to)
<1> DEFINE adj == NewGraph(m.nodes, m.edges)
<1>1. OnMap(adj, m)
  BY NewGraphOnMap
<1>2. CalculateRoute(m, from, to) = ShortestPath(adj, from, to)
  BY DEF CalculateRoute
<1> HIDE DEF adj
<1>3. PICK top : IsGraph(adj, top)
  BY <1>1, MapGraph
<1>4. from \in DOMAIN adj /\ to \in DOMAIN adj
  BY <1>1 DEF OnMap
<1> SUFFICES ASSUME NEW r \in ShortestPath(adj, from, to) PROVE r \in ShortestRoutes(m, from, to)
  BY <1>2
<1>5. CASE from = to
  <2>1. r = [path |-> <<from>>, dist |-> 0]
    BY <1>4, <1>5 DEF ShortestPath
  <2>2. QED
    BY <1>1, <1>3, <1>5, <2>1, RouteToSelf
<1>6. CASE from # to
  <2>1. PICK s : Over(adj, top, from, to, s) /\ r \in Answers(adj, to, s)
    BY <1>3, <1>4, <1>6, ShortestPathOver
  <2>2. QED
    BY <1>1, <1>3, <1>4, <2>1, AnswersShortest
<1>7. QED
  BY <1>5, <1>6

-----------------------------------------------------------------------------
(* The planned route *)

(* The plan comes from the planner.                                        *)
PlanInv ==
    plan = NoPlan \/ (/\ plan.map \in DOMAIN Maps /\ plan.store \in Directory
                      /\ plan.route \in RoutesTo[plan.map][plan.store])

(* Planning asks the planner; every other step keeps or drops the plan.    *)
LEMMA PlanStep == PlanInv /\ [Next]_vars => PlanInv'
<1> SUFFICES ASSUME PlanInv, [Next]_vars PROVE PlanInv'
  OBVIOUS
<1>1. ASSUME NEW v \in Visits, NEW i \in DOMAIN Maps, NEW store \in Directory, Plan(v, i, store)
      PROVE  PlanInv'
  <2>1. PICK r \in RoutesTo[i][store] : plan' = [map |-> i, store |-> store, route |-> r]
    BY <1>1 DEF Plan
  <2>2. plan'.map = i /\ plan'.store = store /\ plan'.route = r
    BY <2>1
  <2>3. QED
    BY <2>1, <2>2 DEF PlanInv
<1>2. ASSUME NEW v \in Visits, Handler(v) PROVE PlanInv'
  <2>1. CASE plan' = NoPlan
    BY <2>1 DEF PlanInv
  <2>2. CASE plan' = plan
    BY <2>2 DEF PlanInv
  <2>3. \/ plan' = plan \/ plan' = NoPlan
        \/ \E i \in DOMAIN Maps, store \in Directory : Plan(v, i, store)
    BY <1>2 DEF Handler, Register, Hear, GiveUp, Understand, Lead, LeadFails, Arrive, Finish, Leave
  <2>4. QED
    BY <1>1, <2>1, <2>2, <2>3
<1>3. ASSUME Runner \/ Clients \/ Shutdown \/ UNCHANGED vars PROVE plan' = plan
  BY <1>3 DEF Runner, RunTask, NavigationEnds, Clients, StartCheck, StartStore, CancelTask,
       LookUp, Send, Shutdown, vars, visitVars
<1>4. QED
  BY <1>2, <1>3 DEF Next, PlanInv

(* What the planner answers is a shortest route, or that there is none.    *)
LEMMA RoutesToShortest ==
    ASSUME NEW i \in DOMAIN Maps, NEW store \in Directory
    PROVE  RoutesTo[i][store] \subseteq Shortest[i][store]
<1> DEFINE m == Maps[i]
           dest == FindStoreNode(m, store)
           base == GetBasePoint(m)
<1>1. /\ RoutesTo[i][store] = IF NoNode \in {dest, base} THEN {NoRoute}
                              ELSE CalculateRoute(m, base, dest)
      /\ Shortest[i][store] = IF NoNode \in {base, dest} THEN {NoRoute}
                              ELSE ShortestRoutes(m, base, dest)
  <2>1. Range(<<base, dest>>) = {base, dest}
    <3> HIDE DEF base, dest
    <3>1. QED
      BY DEF Range
  <2>2. /\ RoutesTo[i][store] = IF NoNode \in {dest, base} THEN {NoRoute}
                                ELSE CalculateRoute(m, base, dest)
        /\ Shortest[i][store] = IF NoNode \in Range(<<base, dest>>) THEN {NoRoute}
                                ELSE ShortestRoutes(m, base, dest)
    BY DEF RoutesTo, Shortest
  <2>3. QED
    BY <2>1, <2>2
<1>2. IsMap(m)
  BY MapsAssumption
<1>3. (dest = NoNode \/ dest \in m.nodes) /\ (base = NoNode \/ base \in m.nodes)
  BY DEF FindStoreNode, GetBasePoint
<1> HIDE DEF m, dest, base
<1>4. CASE NoNode \in {dest, base}
  BY <1>1, <1>4
<1>5. CASE NoNode \notin {dest, base}
  <2>1. CalculateRoute(m, base, dest) \subseteq ShortestRoutes(m, base, dest)
    BY <1>2, <1>3, <1>5, CalculateRouteShortest
  <2>2. QED
    BY <1>1, <1>5, <2>1
<1>6. QED
  BY <1>4, <1>5

(* The route handed to a navigation is a shortest one on the map, and      *)
(* there is none only when the map has none: Dijkstra with outdated heap   *)
(* entries that stops at the target, on any maps the assistant may load.   *)
THEOREM RoutesShortestHolds == Spec => []RoutesShortest
<1>1. Init => PlanInv
  BY DEF Init, PlanInv
<1>2. PlanInv => RoutesShortest
  BY RoutesToShortest DEF PlanInv, RoutesShortest
<1>3. QED
  BY <1>1, <1>2, PlanStep, PTL DEF Spec

-----------------------------------------------------------------------------
(* Types, the planned route's and the channels' capacity included *)

(* A shortest route has a natural length.                                  *)
LEMMA ShortestNat ==
    ASSUME NEW i \in DOMAIN Maps, NEW store \in Directory, NEW r \in RoutesTo[i][store]
    PROVE  r.dist \in Nat
<1> DEFINE m == Maps[i]
<1>1. IsMap(m)
  BY MapsAssumption
<1> HIDE DEF m
<1>2. NoRoute.dist \in Nat
  BY DEF NoRoute
<1>3. r \in Shortest[i][store]
  BY RoutesToShortest
<1>4. r = NoRoute \/ \E from, to : r \in ShortestRoutes(m, from, to)
  BY <1>3 DEF Shortest, m
<1>5. ASSUME NEW from, NEW to, r \in ShortestRoutes(m, from, to), r # NoRoute PROVE r.dist \in Nat
  <2>1. r \in Routes(m, from, to)
    BY <1>5 DEF ShortestRoutes, Routes
  <2>2. PICK p \in SimplePaths(m, from, to) : \E d \in PathLengths(m, p) : r.dist = d
    BY <2>1, RouteOf
  <2>3. Len(p) \in Nat /\ Len(p) >= 1
    BY <1>1, PlacesFinite, SimplePath
  <2>4. OnMap(NewGraph(m.nodes, m.edges), m)
    BY <1>1, NewGraphOnMap
  <2>5. PICK top : IsGraph(NewGraph(m.nodes, m.edges), top)
    BY <1>1, <2>4, MapGraph
  <2>6. PathLengths(m, p) \in SUBSET Nat
    BY <2>3, <2>4, <2>5, LengthsNat
  <2>7. QED
    BY <2>2, <2>6
<1>6. QED
  BY <1>2, <1>4, <1>5

(* What TypeOK says beyond Typed and the plan.                             *)
Bounded ==
    /\ \A v \in Visits : Len(buffer[v]) <= Cap
    /\ announced \subseteq Visits /\ stopping \in BOOLEAN
TypeInv == Typed /\ PlanInv /\ Bounded

(* Only Send lengthens a buffer, and only below its capacity.              *)
LEMMA BoundedStep == TypeInv /\ [Next]_vars => Bounded'
<1> SUFFICES ASSUME TypeInv, [Next]_vars PROVE Bounded'
  OBVIOUS
<1>1. Bounded /\ buffer \in [Visits -> Seq(Texts)] /\ holder \in [Texts -> Visits \cup {NoVisit}]
  BY DEF TypeInv, Typed
<1>2. CASE \E v \in Visits : Hear(v)
  <2>1. PICK v \in Visits : Hear(v)
    BY <1>2
  <2>2. /\ buffer' = [buffer EXCEPT ![v] = Tail(buffer[v])] /\ buffer[v] # <<>>
        /\ announced' = announced /\ stopping' = stopping
    BY <2>1 DEF Hear
  <2>3. Len(Tail(buffer[v])) <= Cap
    <3>1. buffer[v] \in Seq(Texts) /\ Len(buffer[v]) <= Cap /\ Cap \in Nat
      BY <1>1, VisitBounds DEF Bounded
    <3>2. Len(Tail(buffer[v])) = Len(buffer[v]) - 1 /\ Len(buffer[v]) \in Nat
      BY <2>2, <3>1
    <3>3. QED
      BY <3>1, <3>2
  <2>4. QED
    BY <1>1, <2>2, <2>3 DEF Bounded
<1>3. CASE \E x \in Texts : Send(x)
  <2>1. PICK x \in Texts : Send(x)
    BY <1>3
  <2>2. /\ announced' = announced /\ stopping' = stopping /\ holder[x] \in Visits
        /\ \/ buffer' = buffer
           \/ /\ Len(buffer[holder[x]]) < Cap
              /\ buffer' = [buffer EXCEPT ![holder[x]] = Append(buffer[holder[x]], x)]
    BY <1>1, <2>1 DEF Send, visitVars
  <2>3. Len(buffer[holder[x]]) < Cap => Len(Append(buffer[holder[x]], x)) <= Cap
    <3>1. buffer[holder[x]] \in Seq(Texts) /\ Cap \in Nat
      BY <1>1, <2>2, VisitBounds
    <3>2. QED
      BY <3>1
  <2>4. QED
    BY <1>1, <2>2, <2>3 DEF Bounded
<1>4. CASE \E v \in Visits : Arrive(v)
  BY <1>1, <1>4 DEF Arrive, Bounded, chanVars
<1>5. CASE Shutdown
  BY <1>1, <1>5 DEF Shutdown, Bounded, visitVars, chanVars
<1>6. CASE UNCHANGED <<buffer, announced, stopping>>
  BY <1>1, <1>6 DEF Bounded
<1>7. ASSUME NEW v \in Visits, Handler(v)
      PROVE  Hear(v) \/ Arrive(v) \/ UNCHANGED <<buffer, announced, stopping>>
  BY <1>7 DEF Handler, Register, GiveUp, Understand, Plan, Lead, LeadFails, Finish, Leave, chanVars
<1>8. ASSUME Runner \/ Clients \/ UNCHANGED vars
      PROVE  (\E x \in Texts : Send(x)) \/ UNCHANGED <<buffer, announced, stopping>>
  BY <1>8 DEF Runner, RunTask, NavigationEnds, Clients, StartCheck, StartStore, CancelTask,
       LookUp, visitVars, chanVars, vars
<1>9. QED
  BY <1>2, <1>3, <1>4, <1>5, <1>6, <1>7, <1>8 DEF Next

(* Every variable stays in its type; no channel holds more than Cap texts. *)
THEOREM TypeCorrect == Spec => []TypeOK
<1>1. Init => TypeInv
  <2> SUFFICES ASSUME Init PROVE Bounded /\ PlanInv
    BY InitTyped DEF TypeInv
  <2>1. Bounded
    <3>1. Len(<<>>) <= Cap
      BY VisitBounds
    <3>2. QED
      BY <3>1 DEF Init, Bounded
  <2>2. QED
    BY <2>1 DEF Init, PlanInv
<1>2. TypeInv /\ [Next]_vars => TypeInv'
  <2> SUFFICES ASSUME TypeInv, [Next]_vars PROVE TypeInv'
    OBVIOUS
  <2>1. Typed'
    <3>1. CASE Next
      BY <3>1, TypedStep DEF TypeInv
    <3>2. CASE UNCHANGED vars
      BY <3>2 DEF TypeInv, Typed, vars, taskVars, visitVars, chanVars, textVars
    <3>3. QED
      BY <3>1, <3>2
  <2>2. PlanInv'
    BY PlanStep DEF TypeInv
  <2>3. QED
    BY <2>1, <2>2, BoundedStep DEF TypeInv
<1>3. TypeInv => TypeOK
  <2> SUFFICES ASSUME TypeInv PROVE TypeOK
    OBVIOUS
  <2>1. plan = NoPlan \/ (plan.map \in DOMAIN Maps /\ plan.store \in Directory)
    BY DEF TypeInv, PlanInv
  <2>2. plan.route.dist \in Nat
    <3>1. CASE plan = NoPlan
      BY <3>1 DEF NoPlan, NoRoute
    <3>2. CASE plan # NoPlan
      BY <3>2, ShortestNat DEF TypeInv, PlanInv
    <3>3. QED
      BY <3>1, <3>2
  <2>3. QED
    BY <2>1, <2>2 DEF TypeInv, Typed, Bounded, TypeOK
<1>4. QED
  BY <1>1, <1>2, <1>3, PTL DEF Spec

==============================================================================
