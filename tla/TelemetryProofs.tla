--------------------------- MODULE TelemetryProofs ---------------------------
(***************************************************************************)
(* Proofs about what the control plane does with telemetry, for any        *)
(* published samples, subscribers, capacities, bucket length and cutoffs:  *)
(* the event broadcaster, the watcher that announces robots, the retention *)
(* job, the summaries read beside it, and the replay and live stream of    *)
(* the SSE clients.                                                        *)
(***************************************************************************)
EXTENDS Telemetry, FiniteSetTheorems, SequenceTheorems, WellFoundedInduction, TLAPS

Samples == [robot : STRING, stamp : Nat, online : BOOLEAN]

(* The bus holds samples that were published; the watcher's map knows the  *)
(* robots; subscribers and broadcasts are what they are.                   *)
BusTyped ==
    /\ trace \in Traces /\ sent \in 0..Len(trace)
    /\ inbox \in [Subscriptions -> Seq(DOMAIN trace)]

CastTyped ==
    /\ subscriber \in [Subscribers -> {"off", "on", "removed", "closed"}]
    /\ casting \in [Sources -> SUBSET Subscribers]

CastInv == CastTyped /\ NoSendOnClosed

(* The samples that the watcher has handled are the first ones; its map    *)
(* holds what the last of them says of each robot.                         *)
Handled == sent - Len(inbox["watcher"])
Of(r, n) == {j \in 1..n : trace[j].robot = r}
Shown(r, n) == Of(r, n) # {} /\ trace[Max(Of(r, n))].online

Queue == \A k \in 1..Len(inbox["watcher"]) : inbox["watcher"][k] = Handled + k
Known == online \in [Robots -> BOOLEAN] /\ \A r \in Robots : online[r] = Shown(r, Handled)

WatchInv ==
    /\ BusTyped
    /\ "events" \in used => Handled \in Nat /\ Queue /\ Known
    /\ OnlineEdges

(* The cutoff lies before whatever is still to be stored; in PostgreSQL    *)
(* what was deleted lies before the cutoff and its hour has an aggregate;  *)
(* so has what is about to be deleted; and the aggregate of an hour that   *)
(* was not split is complete, its hour over.                               *)
StoreTyped ==
    /\ stored \subseteq Samples /\ raw \subseteq stored
    /\ cutoff \in Nat /\ split \subseteq Nat /\ driver \in Drivers

AheadOfCutoff == \A x \in Coming : cutoff <= x.stamp

DeletedCounted ==
    driver = "pgx" => \A x \in stored \ raw : Bucket(x) \in DOMAIN aggregates

DoomedCounted ==
    driver = "pgx" /\ job = "aggregated" =>
        \A x \in raw : x.stamp < cutoff => Bucket(x) \in DOMAIN aggregates

WholeCounted ==
    \A b \in DOMAIN aggregates : b[2] \in Nat /\
        (b[2] \notin split => /\ aggregates[b] = Count(InBucket(b))
                              /\ (b[2] + 1) * Hour <= cutoff)

KeepInv ==
    /\ BusTyped /\ StoreTyped /\ AheadOfCutoff /\ DeletedCounted /\ DoomedCounted
    /\ WholeCounted

(* Summaries: the store is finite, and the aggregate of an hour counts no  *)
(* more than what was stored in it.                                        *)
CountedOnce ==
    /\ IsFiniteSet(stored) /\ IsFiniteSet(DOMAIN aggregates)
    /\ \A b \in DOMAIN aggregates :
          aggregates[b] \in Nat /\ aggregates[b] <= Count(InBucket(b))

SummaryInv == KeepInv /\ CountedOnce

(* Sequences of numbers that rise, and sets of which one lies before the   *)
(* other.                                                                  *)
Rising(q) == \A i, j \in DOMAIN q : i < j => q[i] < q[j]
Before(A, B) == \A a \in A, b \in B : a < b

(* Sequences in which each sample may follow the one before; what each     *)
(* client has seen is one.                                                 *)
Goes(q) == \A k \in 1..(Len(q) - 1) : MayFollow(q[k], q[k + 1])
SeenGoes(c) == \A k \in 1..(Len(seen[c]) - 1) : MayFollow(seen[c][k], seen[c][k + 1])

(* Streams: what waits in a client's channel, the sample the handler holds *)
(* and what the bus holds for it follow each other, and what the client    *)
(* has seen, in the order of publication.                                  *)
Spilled(c) == {spilling[c]} \ {NoSample}

InOrder(c) ==
    /\ SeenGoes(c) /\ Rising(chan[c]) /\ Rising(inbox[c])
    /\ Before(Range(seen[c]), Range(chan[c]) \cup Spilled(c) \cup Range(inbox[c]))
    /\ Before(Range(chan[c]), Spilled(c) \cup Range(inbox[c]))
    /\ Before(Spilled(c), Range(inbox[c]))

(* Nothing waits for a client without a subscription.                      *)
Idle(c) ==
    stream[c] # "open" => inbox[c] = <<>> /\ chan[c] = <<>> /\ spilling[c] = NoSample

ClientOK(c) ==
    /\ Range(chan[c]) \subseteq 1..sent /\ Len(chan[c]) <= ChanCap
    /\ spilling[c] \in 0..sent /\ Range(seen[c]) \subseteq 1..sent
    /\ Idle(c) /\ InOrder(c)

StreamTyped ==
    /\ stream \in [Clients -> {"off", "replayed", "open"}]
    /\ connects \in [Clients -> 0..MaxConnects]
    /\ chan \in [Clients -> Seq(Nat)] /\ spilling \in [Clients -> Nat]
    /\ seen \in [Clients -> Seq(Nat)]

RingTyped == ring \in Seq(Nat) /\ Range(ring) \subseteq 1..sent /\ Len(ring) <= RingCap

SeenInv ==
    /\ BusTyped /\ StreamTyped /\ RingTyped
    /\ \A s \in Subscriptions : Range(inbox[s]) \subseteq 1..sent
    /\ \A c \in Clients : ClientOK(c)

-----------------------------------------------------------------------------
(* The broadcaster *)

(* Beginning a broadcast picks the subscribers in the map; finishing it    *)
(* only takes some away.                                                   *)
LEMMA BroadcastKeeps ==
    ASSUME CastInv, NEW b, Broadcast(b)
    PROVE  CastInv'
BY DEF CastInv, CastTyped, NoSendOnClosed, Broadcast

(* The offers, and what subscribers do: the map changes only under the     *)
(* write lock, when no broadcast has anybody left to reach.                *)
LEMMA EventsKeep ==
    ASSUME CastInv, Events
    PROVE  CastInv'
<1> USE DEF CastInv, CastTyped, NoSendOnClosed
<1>1. ASSUME NEW b \in Sources \ {"watcher"}, Broadcast(b) PROVE CastInv'
  BY <1>1, BroadcastKeeps
<1>2. ASSUME NEW b \in Sources, NEW s \in Subscribers, Offer(b, s) PROVE CastInv'
  BY <1>2 DEF Offer
<1>3. ASSUME NEW s \in Subscribers, Subscribe(s) \/ Unsubscribe(s) PROVE CastInv'
  BY <1>3 DEF Subscribe, Unsubscribe, ReadLocked
<1>4. ASSUME NEW s \in Subscribers, CloseChannel(s) PROVE CastInv'
  BY <1>4 DEF CloseChannel
<1>5. ASSUME NEW s \in Subscribers, WriteEvent(s) PROVE CastInv'
  BY <1>5 DEF WriteEvent
<1>6. QED
  BY <1>1, <1>2, <1>3, <1>4, <1>5 DEF Events

(* Everything else leaves the broadcaster alone.                           *)
LEMMA CastStep == CastInv /\ [Next]_vars => CastInv'
<1> SUFFICES ASSUME CastInv, [Next]_vars PROVE CastInv'
  OBVIOUS
<1>1. CASE UNCHANGED broadcasterVars
  BY <1>1 DEF CastInv, CastTyped, NoSendOnClosed, broadcasterVars
<1>2. CASE Watch
  BY <1>1, <1>2, BroadcastKeeps DEF Watch
<1>3. CASE PublishTelemetry \/ Add \/ Consume \/ RetentionRun
  BY <1>1, <1>3 DEF PublishTelemetry, Add, Consume, RetentionRun
<1>4. ASSUME NEW c \in Clients, Stream(c) PROVE UNCHANGED broadcasterVars
  BY <1>4 DEF Stream, Connect, SubscribeTelemetry, Handle, DropOldest, WriteSample, Disconnect
<1>5. CASE UNCHANGED vars
  BY <1>1, <1>5 DEF vars
<1>6. QED
  BY <1>1, <1>2, <1>3, <1>4, <1>5, EventsKeep DEF Next

(* Broadcaster.Broadcast never sends on a channel that Unsubscribe has     *)
(* taken out of the map, closed or not, however many goroutines broadcast  *)
(* and whenever clients come and go.                                       *)
THEOREM NoSendOnClosedHolds == Spec => []NoSendOnClosed
<1>1. Init => CastInv
  BY DEF Init, BroadcasterInit, CastInv, CastTyped, NoSendOnClosed
<1>2. CastInv => NoSendOnClosed
  BY DEF CastInv
<1>3. QED
  BY <1>1, <1>2, CastStep, PTL DEF Spec

-----------------------------------------------------------------------------
(* The bus *)

(* What is published are samples.                                          *)
LEMMA TraceOf ==
    ASSUME trace \in Traces
    PROVE  /\ trace \in Seq(Samples) /\ Len(trace) \in Nat /\ DOMAIN trace = 1..Len(trace)
           /\ \A i \in DOMAIN trace : trace[i] \in Samples /\ trace[i].robot \in Robots
<1>1. trace \in Seq(Samples)
  BY TraceAssumption DEF Samples
<1>2. QED
  BY <1>1 DEF Robots

(* The head of a queue that is not empty, and the rest.                    *)
LEMMA HeadTail ==
    ASSUME NEW S, NEW q \in Seq(S), q # <<>>
    PROVE  /\ Len(q) \in Nat \ {0} /\ q[1] = Head(q) /\ Head(q) \in S
           /\ Tail(q) \in Seq(S) /\ Len(Tail(q)) = Len(q) - 1
           /\ \A k \in 1..(Len(q) - 1) : Tail(q)[k] = q[k + 1]
OBVIOUS

(* A subscription's queue loses its head when a sample is handled.         *)
LEMMA TakenOne ==
    ASSUME BusTyped, NEW s \in Subscriptions, Taken(s)
    PROVE  /\ BusTyped' /\ UNCHANGED <<trace, used, sent>>
           /\ Head(inbox[s]) \in DOMAIN trace
           /\ Len(inbox[s]) \in Nat \ {0} /\ inbox[s][1] = Head(inbox[s])
           /\ inbox'[s] = Tail(inbox[s])
           /\ \A u \in Subscriptions \ {s} : inbox'[u] = inbox[u]
<1>1. inbox[s] \in Seq(DOMAIN trace) /\ inbox[s] # <<>>
  BY DEF BusTyped, Taken
<1>2. /\ Tail(inbox[s]) \in Seq(DOMAIN trace) /\ Head(inbox[s]) \in DOMAIN trace
      /\ Len(inbox[s]) \in Nat \ {0} /\ inbox[s][1] = Head(inbox[s])
  BY <1>1, HeadTail
<1>3. inbox' = [inbox EXCEPT ![s] = Tail(inbox[s])] /\ UNCHANGED <<trace, used, sent>>
  BY DEF Taken
<1>4. QED
  BY <1>2, <1>3 DEF BusTyped

(* Publishing appends the sample to the queues of those who listen.        *)
LEMMA Published ==
    ASSUME BusTyped, PublishTelemetry
    PROVE  /\ BusTyped' /\ trace' = trace /\ used' = used /\ sent' = sent + 1
           /\ sent + 1 \in DOMAIN trace
           /\ \A s \in Subscriptions : inbox'[s] \in {inbox[s], Append(inbox[s], sent + 1)}
           /\ "events" \in used => inbox'["watcher"] = Append(inbox["watcher"], sent + 1)
<1>1. /\ sent \in Nat /\ sent' = sent + 1 /\ sent + 1 \in 1..Len(trace) /\ trace' = trace
      /\ used' = used
  BY TraceOf DEF BusTyped, PublishTelemetry
<1>2. sent + 1 \in DOMAIN trace /\ sent' \in 0..Len(trace')
  BY <1>1, TraceOf DEF BusTyped
<1>3. inbox' = [s \in Subscriptions |->
                   IF Listening(s) THEN Append(inbox[s], sent + 1) ELSE inbox[s]]
  BY DEF PublishTelemetry
<1>4. \A s \in Subscriptions : Append(inbox[s], sent + 1) \in Seq(DOMAIN trace)
  BY <1>2 DEF BusTyped
<1>5. BusTyped'
  BY <1>1, <1>2, <1>3, <1>4 DEF BusTyped
<1>6. "watcher" \in Subscriptions /\ ("events" \in used => Listening("watcher"))
  BY DEF Subscriptions, Listening
<1>7. QED
  BY <1>1, <1>2, <1>3, <1>5, <1>6

(* A stream's own steps only touch the queue of its client.                *)
LEMMA StreamDoes ==
    ASSUME BusTyped, NEW c \in Clients, Stream(c)
    PROVE  /\ BusTyped' /\ UNCHANGED <<trace, used, sent>>
           /\ \A s \in Subscriptions \ {c} : inbox'[s] = inbox[s]
           /\ c \in Subscriptions \ {"populator", "watcher", "consumer"}
           /\ UNCHANGED <<watcherVars, retentionVars>>
<1>1. c \in Subscriptions \ {"populator", "watcher", "consumer"}
  BY TraceAssumption DEF Subscriptions
<1>2. UNCHANGED <<watcherVars, retentionVars>>
  BY DEF Stream, Connect, SubscribeTelemetry, Handle, DropOldest, WriteSample, Disconnect
<1>3. CASE UNCHANGED busVars
  BY <1>1, <1>2, <1>3 DEF BusTyped, busVars
<1>4. CASE Handle(c)
  BY <1>1, <1>2, <1>4, TakenOne DEF Handle
<1>5. CASE Disconnect(c)
  <2>1. inbox' = [inbox EXCEPT ![c] = <<>>] /\ UNCHANGED <<trace, used, sent>>
    BY <1>5 DEF Disconnect
  <2>2. <<>> \in Seq(DOMAIN trace)
    OBVIOUS
  <2>3. QED
    BY <1>1, <1>2, <2>1, <2>2 DEF BusTyped
<1>6. QED
  BY <1>3, <1>4, <1>5 DEF Stream, Connect, SubscribeTelemetry, DropOldest, WriteSample

-----------------------------------------------------------------------------
(* The watcher *)

(* A sample is an edge when it shows the robot online and the one before   *)
(* did not.                                                                *)
Edge(i) == trace[i].online /\ ~Shown(trace[i].robot, i - 1)

(* The announcements in those terms.                                       *)
LEMMA EdgesOf ==
    OnlineEdges <=> ("events" \in used => told = {i \in 1..Handled : Edge(i)})
BY DEF OnlineEdges, Handled, Edge, Shown, Of

(* The next sample is the last one of its robot, and changes nothing about *)
(* the others.                                                             *)
LEMMA ShownNext ==
    ASSUME trace \in Traces, NEW n \in Nat, n + 1 \in DOMAIN trace
    PROVE  /\ Shown(trace[n + 1].robot, n + 1) = trace[n + 1].online
           /\ \A r : r # trace[n + 1].robot => Shown(r, n + 1) = Shown(r, n)
<1> DEFINE r0 == trace[n + 1].robot
           S == Of(r0, n + 1)
<1>1. n + 1 \in S /\ \A j \in S : j \in Nat /\ n + 1 >= j
  BY DEF Of
<1>2. Max(S) = n + 1
  <2> HIDE DEF S
  <2>1. \A m \in S : (\A j \in S : m >= j) => m = n + 1
    BY <1>1
  <2>2. \E m \in S : \A j \in S : m >= j
    BY <1>1
  <2>3. QED
    BY <2>1, <2>2 DEF Max
<1>3. trace[n + 1].online \in BOOLEAN
  BY TraceOf DEF Samples
<1>4. Shown(r0, n + 1) = trace[n + 1].online
  BY <1>1, <1>2, <1>3 DEF Shown
<1>5. ASSUME NEW r, r # r0 PROVE Of(r, n + 1) = Of(r, n)
  BY <1>5 DEF Of
<1>6. QED
  BY <1>4, <1>5 DEF Shown

(* Everything the watcher's invariant speaks about is determined by these. *)
LEMMA WatchStill ==
    ASSUME WatchInv, BusTyped', UNCHANGED <<trace, used, sent, online, told>>,
           inbox'["watcher"] = inbox["watcher"]
    PROVE  WatchInv'
<1>1. Handled' = Handled /\ (Queue <=> Queue')
  BY DEF Handled, Queue
<1>2. \A r, n : Shown(r, n)' = Shown(r, n)
  BY DEF Shown, Of
<1>3. Known <=> Known'
  BY <1>1, <1>2 DEF Known
<1>4. OnlineEdges'
  BY DEF WatchInv, OnlineEdges
<1>5. QED
  BY <1>1, <1>3, <1>4 DEF WatchInv

(* Counting on by one.                                                     *)
LEMMA OneMore ==
    ASSUME NEW n \in Nat, NEW m \in Nat
    PROVE  /\ 1..(n + 1) = (1..n) \cup {n + 1} /\ (n + 1) - 1 = n /\ n + 1 \in Nat
           /\ (m - n) + (n + 1) = m + 1
OBVIOUS

(* A published sample waits at the end of the watcher's queue.             *)
LEMMA PublishWatched ==
    ASSUME WatchInv, PublishTelemetry
    PROVE  WatchInv'
<1> DEFINE q == inbox["watcher"]
<1>1. /\ BusTyped' /\ trace' = trace /\ used' = used /\ sent' = sent + 1
      /\ "events" \in used => inbox'["watcher"] = Append(q, sent + 1)
  BY Published DEF WatchInv
<1>2. UNCHANGED <<online, told>>
  BY DEF PublishTelemetry, watcherVars
<1>3. CASE "events" \in used
  <2>1. q \in Seq(DOMAIN trace) /\ sent \in Nat
    BY TraceOf DEF WatchInv, BusTyped, Subscriptions
  <2>2. /\ Len(q) \in Nat /\ Len(inbox'["watcher"]) = Len(q) + 1
        /\ inbox'["watcher"][Len(q) + 1] = sent + 1
        /\ \A k \in 1..Len(q) : inbox'["watcher"][k] = q[k]
    <3> HIDE DEF q
    <3>1. sent + 1 \in DOMAIN trace
      BY Published DEF WatchInv
    <3>2. inbox'["watcher"] = Append(q, sent + 1)
      BY <1>1, <1>3
    <3>3. QED
      BY ONLY <2>1, <3>1, <3>2, AppendProperties
  <2>3. Handled = sent - Len(q) /\ Handled' = Handled
    BY <1>1, <2>1, <2>2 DEF Handled
  <2>4. Handled' \in Nat /\ Queue'
    <3>1. Handled \in Nat /\ \A k \in 1..Len(q) : q[k] = Handled + k
      BY <1>3 DEF WatchInv, Queue
    <3>2. Handled + (Len(q) + 1) = sent + 1
      BY <2>1, <2>2, <2>3, OneMore
    <3>3. ASSUME NEW k \in 1..(Len(q) + 1) PROVE inbox'["watcher"][k] = Handled + k
      <4> HIDE DEF q
      <4>1. CASE k = Len(q) + 1
        BY ONLY <2>2, <3>2, <4>1
      <4>2. CASE k # Len(q) + 1
        <5>1. k \in 1..Len(q)
          BY ONLY <2>2, <3>3, <4>2
        <5>2. QED
          BY ONLY <2>2, <3>1, <5>1
      <4>3. QED
        BY <4>1, <4>2
    <3>4. QED
      BY <2>2, <2>3, <3>1, <3>3 DEF Queue
  <2>5. \A r, n : Shown(r, n)' = Shown(r, n)
    BY <1>1 DEF Shown, Of
  <2>6. Known'
    BY <1>2, <1>3, <2>3, <2>5 DEF WatchInv, Known
  <2>7. \A i : Edge(i)' = Edge(i)
    BY <1>1, <2>5 DEF Edge
  <2>8. OnlineEdges'
    <3>1. told = {i \in 1..Handled : Edge(i)}
      BY <1>3, EdgesOf DEF WatchInv
    <3>2. told' = {i \in 1..Handled' : Edge(i)'}
      BY <1>2, <2>3, <2>7, <3>1
    <3>3. (OnlineEdges <=> ("events" \in used => told = {i \in 1..Handled : Edge(i)}))'
      BY EdgesOf, PTL
    <3>4. QED
      BY <3>2, <3>3
  <2>9. QED
    BY <1>1, <2>4, <2>6, <2>8 DEF WatchInv
<1>4. CASE "events" \notin used
  BY <1>1, <1>4 DEF WatchInv, OnlineEdges
<1>5. QED
  BY <1>3, <1>4

(* The watcher handles the next sample: its map follows, and the robot is  *)
(* announced if that is an edge.                                           *)
LEMMA WatchKeeps ==
    ASSUME WatchInv, Watch
    PROVE  WatchInv'
<1> DEFINE q == inbox["watcher"]
           i == Head(q)
           x == trace[i]
<1>0. "watcher" \in Subscriptions /\ Taken("watcher")
  BY DEF Subscriptions, Watch
<1>1. /\ BusTyped' /\ UNCHANGED <<trace, used, sent>> /\ i \in DOMAIN trace
      /\ Len(q) \in Nat \ {0} /\ q[1] = i /\ inbox'["watcher"] = Tail(q)
  BY <1>0, TakenOne DEF WatchInv
<1>2. CASE "events" \in used
  <2>1. /\ q \in Seq(DOMAIN trace) /\ sent \in Nat /\ Handled \in Nat
        /\ \A k \in 1..Len(q) : q[k] = Handled + k
        /\ Handled = sent - Len(q)
    BY <1>0, <1>2, TraceOf DEF WatchInv, BusTyped, Queue, Handled
  <2>2. /\ Len(Tail(q)) = Len(q) - 1
        /\ \A k \in 1..(Len(q) - 1) : Tail(q)[k] = q[k + 1]
    <3> HIDE DEF q
    <3>1. q # <<>>
      BY <1>1
    <3>2. QED
      BY <2>1, <3>1, HeadTail
  <2>3. Handled' = Handled + 1 /\ i = Handled + 1
    <3>1. Handled' = sent - Len(Tail(q))
      BY <1>1 DEF Handled
    <3> HIDE DEF q, i
    <3>2. sent - (Len(q) - 1) = Handled + 1 /\ 1 \in 1..Len(q)
      BY ONLY <1>1, <2>1
    <3>3. QED
      BY ONLY <1>1, <2>1, <2>2, <3>1, <3>2
  <2>4. Handled' \in Nat /\ Queue'
    <3>1. \A k \in 1..(Len(q) - 1) : Tail(q)[k] = Handled + 1 + k
      <4> HIDE DEF q
      <4>1. QED
        BY <1>1, <2>1, <2>2
    <3>2. \A k \in 1..Len(inbox'["watcher"]) : inbox'["watcher"][k] = Handled' + k
      <4> HIDE DEF q
      <4>1. QED
        BY ONLY <1>1, <2>2, <2>3, <3>1
    <3>3. Handled + 1 \in Nat
      BY <2>1, OneMore
    <3>4. QED
      BY <2>3, <3>2, <3>3 DEF Queue
  <2>5. /\ Shown(x.robot, i) = x.online
        /\ \A r : r # x.robot => Shown(r, i) = Shown(r, Handled)
    <3>1. trace \in Traces /\ Handled \in Nat /\ Handled + 1 \in DOMAIN trace /\ i = Handled + 1
      BY <1>1, <2>1, <2>3 DEF WatchInv, BusTyped
    <3> HIDE DEF i
    <3>2. QED
      BY <3>1, ShownNext
  <2>6. \A r, n : Shown(r, n)' = Shown(r, n)
    BY <1>1 DEF Shown, Of
  <2>7. /\ x.robot \in Robots /\ x.online \in BOOLEAN
        /\ online' = [online EXCEPT ![x.robot] = x.online]
        /\ online \in [Robots -> BOOLEAN] /\ \A r \in Robots : online[r] = Shown(r, Handled)
    BY <1>1, <1>2, TraceOf DEF WatchInv, BusTyped, Known, Watch, Samples
  <2>8. Known'
    <3> HIDE DEF x, i
    <3>1. online' \in [Robots -> BOOLEAN]
      BY <2>7
    <3>2. \A r \in Robots : online'[r] = Shown(r, i)
      BY <2>5, <2>7
    <3>3. QED
      BY <2>3, <2>6, <3>1, <3>2 DEF Known
  <2>9. \A j : Edge(j)' = Edge(j)
    BY <1>1, <2>6 DEF Edge
  <2>10. Edge(i) <=> x.online /\ ~online[x.robot]
    <3>1. i - 1 = Handled
      BY <2>1, <2>3, OneMore
    <3>2. QED
      BY <2>7, <3>1 DEF Edge
  <2>11. told' = IF Edge(i) THEN told \cup {i} ELSE told
    BY <2>10 DEF Watch
  <2>12. told = {j \in 1..Handled : Edge(j)}
    BY <1>2, EdgesOf DEF WatchInv
  <2>13. told' = {j \in 1..Handled' : Edge(j)'}
    <3>1. 1..(Handled + 1) = (1..Handled) \cup {Handled + 1}
      BY <2>1, OneMore
    <3> HIDE DEF i
    <3>2. QED
      BY <2>3, <2>9, <2>11, <2>12, <3>1
  <2>14. OnlineEdges'
    <3>1. (OnlineEdges <=> ("events" \in used => told = {j \in 1..Handled : Edge(j)}))'
      BY EdgesOf, PTL
    <3>2. QED
      BY <2>13, <3>1
  <2>15. QED
    BY <1>1, <2>4, <2>8, <2>14 DEF WatchInv
<1>3. CASE "events" \notin used
  BY <1>1, <1>3 DEF WatchInv, OnlineEdges
<1>4. QED
  BY <1>2, <1>3

(* The other consumers leave the watcher's queue alone.                    *)
LEMMA WatchStep == WatchInv /\ [Next]_vars => WatchInv'
<1> SUFFICES ASSUME WatchInv, [Next]_vars PROVE WatchInv'
  OBVIOUS
<1>0. {"populator", "watcher", "consumer"} \subseteq Subscriptions /\ BusTyped
  BY DEF Subscriptions, WatchInv
<1>1. CASE UNCHANGED <<busVars, watcherVars>>
  <2>1. BusTyped'
    BY <1>0, <1>1 DEF BusTyped, busVars
  <2>2. QED
    BY <1>1, <2>1, WatchStill DEF busVars, watcherVars
<1>2. ASSUME NEW s \in {"populator", "consumer"}, Taken(s), UNCHANGED watcherVars PROVE WatchInv'
  <2>1. BusTyped' /\ UNCHANGED <<trace, used, sent>> /\ inbox'["watcher"] = inbox["watcher"]
    BY <1>0, <1>2, TakenOne
  <2>2. QED
    BY <1>2, <2>1, WatchStill DEF watcherVars
<1>3. ASSUME NEW c \in Clients, Stream(c) PROVE WatchInv'
  <2>1. BusTyped' /\ UNCHANGED <<trace, used, sent>> /\ inbox'["watcher"] = inbox["watcher"]
    BY <1>0, <1>3, StreamDoes
  <2>2. UNCHANGED watcherVars
    BY <1>0, <1>3, StreamDoes
  <2>3. QED
    BY <2>1, <2>2, WatchStill DEF watcherVars
<1>4. CASE Add
  BY <1>2, <1>4 DEF Add
<1>5. CASE Consume
  BY <1>2, <1>5 DEF Consume
<1>6. CASE RetentionRun \/ Events
  BY <1>1, <1>6 DEF RetentionRun, Events
<1>7. CASE UNCHANGED vars
  BY <1>1, <1>7 DEF vars
<1>8. QED
  BY <1>3, <1>4, <1>5, <1>6, <1>7, PublishWatched, WatchKeeps DEF Next

(* runRobotOnlineWatcher announces a robot exactly for the samples handled *)
(* that show it online after none or an offline one, however long its      *)
(* announcements have to wait for the broadcasts before.                   *)
THEOREM OnlineEdgesHolds == Spec => []OnlineEdges
<1>1. Init => WatchInv
  <2> SUFFICES ASSUME Init PROVE WatchInv
    OBVIOUS
  <2>1. BusTyped
    BY TraceOf DEF Init, BusTyped
  <2>2. "watcher" \in Subscriptions /\ inbox["watcher"] = <<>> /\ sent = 0
    BY DEF Init, Subscriptions
  <2>3. Handled = 0 /\ Queue
    <3>1. Len(inbox["watcher"]) = 0
      BY <2>2
    <3>2. Handled = 0
      <4>1. Handled = sent - Len(inbox["watcher"]) /\ 0 - 0 = 0
        BY DEF Handled
      <4>2. QED
        BY <2>2, <3>1, <4>1, Zenon
    <3>3. \A k \in 1..0 : FALSE
      OBVIOUS
    <3>4. Queue
      BY <3>1, <3>3, Zenon DEF Queue
    <3>5. QED
      BY <3>2, <3>4
  <2>4. \A r : Of(r, 0) = {}
    BY DEF Of
  <2>5. Known
    BY <2>3, <2>4 DEF Init, Known, Shown
  <2>6. OnlineEdges
    BY <2>2 DEF Init, OnlineEdges
  <2>7. QED
    BY <2>1, <2>3, <2>5, <2>6 DEF WatchInv
<1>2. WatchInv => OnlineEdges
  BY DEF WatchInv
<1>3. QED
  BY <1>1, <1>2, WatchStep, PTL DEF Spec

-----------------------------------------------------------------------------
(* Retention *)

(* A sample lies before the end of its hour.                               *)
LEMMA HourEnds ==
    ASSUME NEW x \in Samples
    PROVE  /\ Bucket(x)[2] = x.stamp \div Hour /\ Bucket(x)[2] \in Nat
           /\ x.stamp < (Bucket(x)[2] + 1) * Hour
<1> DEFINE h == x.stamp \div Hour
<1>1. x.stamp \in Nat /\ Hour \in Nat \ {0}
  BY HourAssumption DEF Samples
<1>2. h \in Nat /\ x.stamp < (h + 1) * Hour
  BY <1>1
<1>3. QED
  BY <1>2 DEF Bucket

(* What is still to be stored only becomes less, and a sample consumed was *)
(* part of it.                                                             *)
LEMMA ComingLess ==
    ASSUME BusTyped, BusTyped', trace' = trace,
           \/ PublishTelemetry
           \/ sent' = sent /\ inbox'["consumer"] \in {inbox["consumer"], Tail(inbox["consumer"])}
              /\ (inbox'["consumer"] # inbox["consumer"] => inbox["consumer"] # <<>>)
    PROVE  Coming' \subseteq Coming
<1> DEFINE q == inbox["consumer"]
<1>1. /\ "consumer" \in Subscriptions /\ q \in Seq(DOMAIN trace) /\ sent \in Nat
      /\ Len(trace) \in Nat
  BY TraceOf DEF BusTyped, Subscriptions
<1>2. CASE PublishTelemetry
  <2>1. sent' = sent + 1 /\ inbox'["consumer"] \in {q, Append(q, sent + 1)}
        /\ sent + 1 \in 1..Len(trace)
    BY <1>1, <1>2, Published, TraceOf DEF BusTyped
  <2>2. ASSUME NEW i \in (sent' + 1)..Len(trace) PROVE i \in (sent + 1)..Len(trace)
    BY <1>1, <2>1
  <2>3. sent + 1 \in (sent + 1)..Len(trace)
    BY <1>1, <2>1
  <2>4. ASSUME NEW k \in DOMAIN inbox'["consumer"]
        PROVE  \/ k \in DOMAIN q /\ inbox'["consumer"][k] = q[k]
               \/ inbox'["consumer"][k] = sent + 1
    <3> HIDE DEF q
    <3>1. CASE inbox'["consumer"] = q
      BY <2>4, <3>1
    <3>2. CASE inbox'["consumer"] = Append(q, sent + 1)
      <4>1. sent + 1 \in DOMAIN trace
        BY <1>1, <2>1, TraceOf DEF BusTyped
      <4>2. k \in 1..(Len(q) + 1)
        BY <1>1, <2>4, <3>2, <4>1
      <4>3. QED
        BY <1>1, <3>2, <4>1, <4>2
    <3>3. QED
      BY <2>1, <3>1, <3>2
  <2>5. QED
    BY <2>2, <2>3, <2>4 DEF Coming
<1>3. CASE ~PublishTelemetry
  <2>1. ASSUME NEW k \in DOMAIN inbox'["consumer"]
        PROVE  \E j \in DOMAIN q : inbox'["consumer"][k] = q[j]
    <3> HIDE DEF q
    <3>1. CASE inbox'["consumer"] = q
      BY <2>1, <3>1
    <3>2. CASE inbox'["consumer"] # q
      <4>1. q # <<>> /\ inbox'["consumer"] = Tail(q)
        BY <1>3, <3>2 DEF q
      <4>2. k \in 1..(Len(q) - 1) /\ Tail(q)[k] = q[k + 1] /\ k + 1 \in DOMAIN q
        BY <1>1, <2>1, <4>1, HeadTail
      <4>3. QED
        BY <4>1, <4>2
    <3>3. QED
      BY <3>1, <3>2
  <2>2. QED
    BY <1>3, <2>1 DEF Coming
<1>4. QED
  BY <1>2, <1>3

(* The invariant survives whatever leaves the store alone.                 *)
LEMMA StoreStill ==
    ASSUME KeepInv, BusTyped', Coming' \subseteq Coming, UNCHANGED retentionVars
    PROVE  KeepInv'
<1>1. (StoreTyped /\ DeletedCounted /\ DoomedCounted)'
  BY DEF KeepInv, StoreTyped, DeletedCounted, DoomedCounted, Bucket, retentionVars
<1>2. AheadOfCutoff'
  BY DEF KeepInv, AheadOfCutoff, retentionVars
<1>3. WholeCounted'
  BY DEF KeepInv, WholeCounted, InBucket, retentionVars
<1>4. QED
  BY <1>1, <1>2, <1>3 DEF KeepInv

(* The consumer stores a sample that lies behind the cutoff: the hours     *)
(* whose aggregate is complete are over.                                   *)
LEMMA ConsumeKeeps ==
    ASSUME KeepInv, Consume
    PROVE  KeepInv'
<1> DEFINE x == trace[Head(inbox["consumer"])]
<1>0. "consumer" \in Subscriptions /\ BusTyped
  BY DEF Subscriptions, KeepInv
<1>1. /\ BusTyped' /\ UNCHANGED <<trace, used, sent>> /\ Head(inbox["consumer"]) \in DOMAIN trace
      /\ Len(inbox["consumer"]) \in Nat \ {0}
      /\ inbox["consumer"][1] = Head(inbox["consumer"])
      /\ inbox'["consumer"] = Tail(inbox["consumer"]) /\ inbox["consumer"] # <<>>
  BY <1>0, TakenOne DEF Consume, Taken
<1>2. Coming' \subseteq Coming
  BY <1>0, <1>1, ComingLess
<1>3. x \in Samples /\ cutoff <= x.stamp
  <2>1. 1 \in DOMAIN inbox["consumer"]
    BY <1>0, <1>1 DEF BusTyped
  <2>2. x \in Coming
    BY <1>1, <2>1 DEF Coming
  <2>3. QED
    BY <1>0, <1>1, <2>2, TraceOf DEF KeepInv, AheadOfCutoff, BusTyped
<1> HIDE DEF x
<1>4. \/ raw' = raw \cup {x} /\ stored' = stored \cup {x}
      \/ UNCHANGED <<raw, stored>>
  BY DEF Consume, WriteTelemetry, x
<1>5. UNCHANGED <<driver, aggregates, job, cutoff, split>>
  BY DEF Consume, WriteTelemetry
<1>6. CASE UNCHANGED <<raw, stored>>
  BY <1>1, <1>2, <1>5, <1>6, StoreStill DEF retentionVars
<1>7. CASE raw' = raw \cup {x} /\ stored' = stored \cup {x}
  <2>1. StoreTyped'
    BY <1>3, <1>5, <1>7 DEF KeepInv, StoreTyped
  <2>2. AheadOfCutoff'
    BY <1>2, <1>5 DEF KeepInv, AheadOfCutoff
  <2>3. DeletedCounted'
    BY <1>5, <1>7 DEF KeepInv, DeletedCounted
  <2>4. DoomedCounted'
    <3>1. ~(x.stamp < cutoff)
      BY <1>3 DEF KeepInv, StoreTyped, Samples
    <3>2. QED
      BY <1>5, <1>7, <3>1 DEF KeepInv, DoomedCounted
  <2>5. WholeCounted'
    <3>1. ASSUME NEW b \in DOMAIN aggregates, b[2] \notin split PROVE Bucket(x) # b
      <4>1. b[2] \in Nat /\ (b[2] + 1) * Hour <= cutoff
        BY <3>1 DEF KeepInv, WholeCounted
      <4>2. x.stamp < (Bucket(x)[2] + 1) * Hour
        BY <1>3, HourEnds
      <4>3. x.stamp \in Nat /\ cutoff \in Nat /\ (b[2] + 1) * Hour \in Nat
        BY <1>3, <4>1, HourAssumption DEF KeepInv, StoreTyped, Samples
      <4>4. QED
        BY <1>3, <4>1, <4>2, <4>3
    <3>2. ASSUME NEW b \in DOMAIN aggregates, b[2] \notin split PROVE InBucket(b)' = InBucket(b)
      BY <1>7, <3>1, <3>2 DEF InBucket
    <3>3. QED
      BY <1>5, <3>2 DEF KeepInv, WholeCounted
  <2>6. QED
    BY <1>1, <2>1, <2>2, <2>3, <2>4, <2>5 DEF KeepInv
<1>8. QED
  BY <1>4, <1>6, <1>7

(* The first statement of the job.  An hour it aggregates whole had no     *)
(* sample deleted before, or it would have had an aggregate; its samples   *)
(* are all there and all before the cutoff.                                *)
LEMMA AggregateKeeps ==
    ASSUME KeepInv, BusTyped', Coming' = Coming, NEW c \in Cutoffs,
           \A x \in Coming : c <= x.stamp, AggregateHours(c)
    PROVE  KeepInv'
<1> DEFINE old == {x \in raw : x.stamp < c}
           buckets == Buckets(old) \ DOMAIN aggregates
<1>0. c \in Nat /\ cutoff \in Nat /\ cutoff <= c /\ Hour \in Nat \ {0}
      /\ stored \subseteq Samples /\ raw \subseteq stored
  BY HourAssumption DEF KeepInv, StoreTyped, AggregateHours
<1>1. /\ aggregates' = [b \in DOMAIN aggregates \cup buckets |->
                           IF b \in buckets THEN Count({x \in old : Bucket(x) = b})
                           ELSE aggregates[b]]
      /\ cutoff' = c /\ UNCHANGED <<driver, raw, stored>>
      /\ split' = split \cup {b[2] : b \in {b \in buckets : (b[2] + 1) * Hour > c}}
  BY DEF AggregateHours
<1>2. \A b \in buckets : b[2] \in Nat
  BY <1>0, HourEnds DEF Buckets
<1>3. /\ DOMAIN aggregates' = DOMAIN aggregates \cup buckets
      /\ \A b \in buckets : aggregates'[b] = Count({x \in old : Bucket(x) = b})
      /\ \A b \in DOMAIN aggregates : aggregates'[b] = aggregates[b]
  BY <1>1
<1>4. driver = "pgx" => \A x \in old : Bucket(x) \in DOMAIN aggregates'
  BY <1>3 DEF Buckets
<1>5. ASSUME NEW b \in buckets, b[2] \notin split' PROVE (b[2] + 1) * Hour <= c
  <2>1. ~((b[2] + 1) * Hour > c)
    BY <1>1, <1>5
  <2>2. (b[2] + 1) * Hour \in Nat
    BY <1>0, <1>2, <1>5
  <2>3. QED
    BY <1>0, <2>1, <2>2
<1>6. ASSUME NEW b \in buckets, b[2] \notin split'
      PROVE  {x \in old : Bucket(x) = b} = InBucket(b)
  <2>1. ASSUME NEW x \in stored, Bucket(x) = b PROVE x \in old
    <3>1. x \in raw
      BY <1>6, <2>1 DEF KeepInv, DeletedCounted, Buckets
    <3>2. x.stamp < (b[2] + 1) * Hour /\ x.stamp \in Nat
      BY <1>0, <2>1, HourEnds DEF Samples
    <3>3. (b[2] + 1) * Hour \in Nat
      BY <1>0, <1>2, <1>6
    <3>4. x.stamp < c
      BY <1>0, <1>5, <1>6, <3>2, <3>3
    <3>5. QED
      BY <3>1, <3>4
  <2>2. QED
    BY <1>0, <2>1 DEF InBucket
<1> HIDE DEF buckets
<1>7. StoreTyped'
  BY <1>0, <1>1, <1>2 DEF KeepInv, StoreTyped
<1>8. AheadOfCutoff'
  BY <1>1 DEF AheadOfCutoff
<1>9. DeletedCounted'
  BY <1>1, <1>3 DEF KeepInv, DeletedCounted
<1>10. DoomedCounted'
  BY <1>1, <1>4 DEF DoomedCounted
<1>11. WholeCounted'
  <2>1. \A b : InBucket(b)' = InBucket(b)
    BY <1>1 DEF InBucket
  <2>2. ASSUME NEW b \in buckets, b[2] \notin split'
        PROVE  aggregates'[b] = Count(InBucket(b)') /\ (b[2] + 1) * Hour <= cutoff'
    BY <1>1, <1>3, <1>5, <1>6, <2>1, <2>2
  <2>3. ASSUME NEW b \in DOMAIN aggregates, b[2] \notin split'
        PROVE  aggregates'[b] = Count(InBucket(b)') /\ (b[2] + 1) * Hour <= cutoff'
    <3>1. /\ b[2] \in Nat /\ aggregates[b] = Count(InBucket(b))
          /\ (b[2] + 1) * Hour <= cutoff
      BY <1>1, <2>3 DEF KeepInv, WholeCounted
    <3>2. (b[2] + 1) * Hour \in Nat
      BY <1>0, <3>1
    <3>3. (b[2] + 1) * Hour <= c
      BY <1>0, <3>1, <3>2
    <3>4. QED
      BY <1>1, <1>3, <2>1, <2>3, <3>1, <3>3
  <2>4. \A b \in DOMAIN aggregates : b[2] \in Nat
    BY DEF KeepInv, WholeCounted
  <2>5. QED
    BY <1>2, <1>3, <2>2, <2>3, <2>4 DEF WholeCounted
<1>12. QED
  BY <1>7, <1>8, <1>9, <1>10, <1>11 DEF KeepInv

(* A statement that fails leaves the rows alone and no run half done.      *)
LEMMA JobFailsKeeps ==
    ASSUME KeepInv, BusTyped', Coming' = Coming, NEW c \in Cutoffs,
           \A x \in Coming : c <= x.stamp, JobFails(c)
    PROVE  KeepInv'
<1>1. /\ UNCHANGED <<driver, raw, aggregates, stored, split>> /\ job' # "aggregated"
      /\ cutoff' \in {cutoff, c} /\ cutoff' \in Nat /\ cutoff \in Nat /\ cutoff <= cutoff'
  BY HourAssumption DEF KeepInv, StoreTyped, JobFails
<1>2. (StoreTyped /\ DeletedCounted /\ DoomedCounted)'
  BY <1>1 DEF KeepInv, StoreTyped, DeletedCounted, DoomedCounted
<1>3. AheadOfCutoff'
  BY <1>1 DEF KeepInv, AheadOfCutoff
<1>4. WholeCounted'
  <2>1. ASSUME NEW b \in DOMAIN aggregates, b[2] \in Nat, (b[2] + 1) * Hour <= cutoff
        PROVE  (b[2] + 1) * Hour <= cutoff'
    <3>1. (b[2] + 1) * Hour \in Nat
      BY <2>1, HourAssumption
    <3>2. QED
      BY <1>1, <2>1, <3>1
  <2>2. QED
    BY <1>1, <2>1 DEF KeepInv, WholeCounted, InBucket
<1>5. QED
  BY <1>2, <1>3, <1>4 DEF KeepInv

(* The second statement deletes what the first one has counted.            *)
LEMMA DeleteKeeps ==
    ASSUME KeepInv, BusTyped', Coming' = Coming, DeleteOldSamples
    PROVE  KeepInv'
<1>1. /\ UNCHANGED <<driver, aggregates, cutoff, stored, split>>
      /\ job = "aggregated" /\ job' = "idle"
      /\ raw' = {x \in raw : x.stamp >= cutoff}
  BY DEF DeleteOldSamples
<1>2. (StoreTyped /\ DoomedCounted)'
  BY <1>1 DEF KeepInv, StoreTyped, DoomedCounted
<1>3. AheadOfCutoff'
  BY <1>1 DEF KeepInv, AheadOfCutoff
<1>4. DeletedCounted'
  <2>1. ASSUME NEW x \in raw, ~(x.stamp >= cutoff) PROVE x.stamp < cutoff
    BY <2>1 DEF KeepInv, StoreTyped, Samples
  <2>2. QED
    BY <1>1, <2>1 DEF KeepInv, DeletedCounted, DoomedCounted
<1>5. WholeCounted'
  BY <1>1 DEF KeepInv, WholeCounted, InBucket
<1>6. QED
  BY <1>2, <1>3, <1>4, <1>5 DEF KeepInv

(* The other consumers leave the store alone.                              *)
LEMMA KeepStep == KeepInv /\ [Next]_vars => KeepInv'
<1> SUFFICES ASSUME KeepInv, [Next]_vars PROVE KeepInv'
  OBVIOUS
<1>0. {"populator", "watcher", "consumer"} \subseteq Subscriptions /\ BusTyped
  BY DEF Subscriptions, KeepInv
<1>1. ASSUME UNCHANGED busVars PROVE BusTyped' /\ Coming' = Coming
  BY <1>0, <1>1 DEF BusTyped, Coming, busVars
<1>2. CASE PublishTelemetry
  <2>1. BusTyped' /\ trace' = trace
    BY <1>0, <1>2, Published
  <2>2. Coming' \subseteq Coming
    BY <1>0, <1>2, <2>1, ComingLess
  <2>3. QED
    BY <1>2, <2>1, <2>2, StoreStill DEF PublishTelemetry
<1>3. ASSUME NEW s \in {"populator", "watcher"}, Taken(s), UNCHANGED retentionVars PROVE KeepInv'
  <2>1. BusTyped' /\ UNCHANGED <<trace, used, sent>> /\ inbox'["consumer"] = inbox["consumer"]
    BY <1>0, <1>3, TakenOne
  <2>2. Coming' \subseteq Coming
    BY <1>0, <2>1, ComingLess
  <2>3. QED
    BY <1>3, <2>1, <2>2, StoreStill
<1>4. ASSUME NEW c \in Clients, Stream(c) PROVE KeepInv'
  <2>1. BusTyped' /\ UNCHANGED <<trace, used, sent>> /\ inbox'["consumer"] = inbox["consumer"]
    BY <1>0, <1>4, StreamDoes
  <2>2. UNCHANGED retentionVars
    BY <1>0, <1>4, StreamDoes
  <2>3. Coming' \subseteq Coming
    BY <1>0, <2>1, ComingLess
  <2>4. QED
    BY <2>1, <2>2, <2>3, StoreStill
<1>5. CASE Add
  BY <1>3, <1>5 DEF Add
<1>6. CASE Watch
  BY <1>3, <1>6 DEF Watch
<1>7. CASE RetentionRun
  BY <1>1, <1>7, AggregateKeeps, JobFailsKeeps, DeleteKeeps DEF RetentionRun
<1>8. CASE Events
  BY <1>1, <1>8, StoreStill DEF Events
<1>9. CASE UNCHANGED vars
  BY <1>1, <1>9, StoreStill DEF vars
<1>10. QED
  BY <1>2, <1>4, <1>5, <1>6, <1>7, <1>8, <1>9, ConsumeKeeps DEF Next

(* The store starts empty.                                                 *)
LEMMA KeepInit == Init => KeepInv
<1> SUFFICES ASSUME Init PROVE KeepInv
  OBVIOUS
<1>1. BusTyped
  BY TraceOf DEF Init, BusTyped
<1>2. StoreTyped /\ DeletedCounted /\ DoomedCounted /\ WholeCounted
  BY DEF Init, RetentionInit, StoreTyped, DeletedCounted, DoomedCounted, WholeCounted
<1>3. AheadOfCutoff
  <2>1. \A x \in Coming : x \in Samples
    BY <1>1, TraceOf DEF Coming, BusTyped, Init, Subscriptions
  <2>2. cutoff = 0
    BY DEF Init, RetentionInit
  <2>3. QED
    BY <2>1, <2>2 DEF AheadOfCutoff, Samples
<1>4. QED
  BY <1>1, <1>2, <1>3 DEF KeepInv

(* retention: in PostgreSQL, an hour that no cutoff has split is not lost. *)
(* Once one of its samples is deleted its aggregate counts all that were   *)
(* ever stored, whichever statements of whichever runs failed, as long as  *)
(* samples arrive within the retention period.                             *)
THEOREM WholeHoursKeptHolds == Spec => []WholeHoursKept
<1>1. KeepInv => WholeHoursKept
  BY DEF KeepInv, DeletedCounted, WholeCounted, WholeHoursKept
<1>2. QED
  BY <1>1, KeepInit, KeepStep, PTL DEF Spec

-----------------------------------------------------------------------------
(* Sums.  What a fold computes is an induction; it is done by taking the   *)
(* least counterexample.                                                   *)

(* Every set of naturals that is not empty has a least element.            *)
LEMMA Least ==
    ASSUME NEW T \in SUBSET Nat, T # {}
    PROVE  \E m \in T : \A n \in T : m <= n
<1>1. PICK x \in T : \A y \in T : ~ (<<y, x>> \in OpToRel(<, Nat))
  BY NatLessThanWellFounded, WFMin
<1>2. ASSUME NEW y \in T PROVE x <= y
  <2>1. <<y, x>> \in Nat \X Nat /\ <<y, x>>[1] = y /\ <<y, x>>[2] = x
    OBVIOUS
  <2>2. ~(y < x)
    BY <1>1, <2>1 DEF OpToRel
  <2>3. QED
    BY <2>2
<1>3. QED
  BY <1>2

(* One unfolding of the sum that SumFunctionOnSet computes: g is the table *)
(* of the sums of f over the sets in D.                                    *)
Pick(s) == CHOOSE x \in s : TRUE
Upto(S, n) == {s \in SUBSET S : Cardinality(s) <= n}
Sums(f, g, s) == IF s = {} THEN 0 ELSE f[Pick(s)] + g[s \ {Pick(s)}]
Summing(f, g, D) == g = [s \in D |-> Sums(f, g, s)]

(* The fold takes an element of the set and goes on with a smaller one.    *)
LEMMA Picked ==
    ASSUME NEW S, IsFiniteSet(S), NEW s \in SUBSET S, s # {}
    PROVE  /\ Pick(s) \in s /\ s \ {Pick(s)} \in SUBSET S
           /\ Cardinality(s) \in Nat /\ Cardinality(s \ {Pick(s)}) = Cardinality(s) - 1
           /\ Cardinality(s \ {Pick(s)}) \in Nat
<1>1. Pick(s) \in s
  BY DEF Pick
<1>2. IsFiniteSet(s)
  BY FS_Subset
<1>3. QED
  BY <1>1, <1>2, FS_RemoveElement, FS_CardinalityType

(* The table of the sums over the sets with at most n elements exists.     *)
LEMMA SummingUpto ==
    ASSUME NEW S, IsFiniteSet(S), NEW f, NEW n \in Nat
    PROVE  \E g : Summing(f, g, Upto(S, n))
<1> DEFINE Bad == {k \in Nat : ~ \E g : Summing(f, g, Upto(S, k))}
<1>1. SUFFICES ASSUME Bad # {} PROVE FALSE
  OBVIOUS
<1>2. PICK m \in Bad : \A k \in Bad : m <= k
  <2> HIDE DEF Bad
  <2>1. Bad \in SUBSET Nat
    BY DEF Bad
  <2>2. QED
    BY <1>1, <2>1, Least
<1>3. m # 0
  <2>1. ASSUME m = 0 PROVE FALSE
    <3> DEFINE g == [s \in Upto(S, 0) |-> 0]
    <3>1. ASSUME NEW s \in Upto(S, 0) PROVE s = {}
      <4>1. IsFiniteSet(s) /\ Cardinality(s) <= 0
        BY <3>1, FS_Subset DEF Upto
      <4>2. QED
        BY <4>1, FS_EmptySet, FS_CardinalityType
    <3>2. Summing(f, g, Upto(S, 0))
      BY <3>1 DEF Summing, Sums
    <3> HIDE DEF g
    <3>3. QED
      BY <2>1, <3>2
  <2>2. QED
    BY <2>1
<1>4. m - 1 \in Nat /\ ~(m <= m - 1)
  BY <1>3
<1>5. PICK g : Summing(f, g, Upto(S, m - 1))
  BY <1>2, <1>4
<1> DEFINE h == [s \in Upto(S, m) |-> Sums(f, g, s)]
<1>6. ASSUME NEW s \in Upto(S, m) PROVE h[s] = Sums(f, h, s)
  <2>1. CASE s = {}
    BY <2>1, <1>6 DEF Sums
  <2>2. CASE s # {}
    <3> DEFINE r == s \ {Pick(s)}
    <3>1. s \in SUBSET S /\ Cardinality(s) <= m
      BY <1>6 DEF Upto
    <3>2. r \in SUBSET S /\ Cardinality(s) \in Nat /\ Cardinality(r) = Cardinality(s) - 1
          /\ Cardinality(r) \in Nat
      BY <2>2, <3>1, Picked
    <3>3. r \in Upto(S, m - 1) /\ r \in Upto(S, m)
      <4> HIDE DEF r
      <4>1. Cardinality(r) <= m - 1 /\ Cardinality(r) <= m
        BY <3>1, <3>2
      <4>2. QED
        BY <3>2, <4>1 DEF Upto
    <3>4. g[r] = Sums(f, g, r) /\ h[r] = Sums(f, g, r)
      <4> HIDE DEF r
      <4>1. g[r] = Sums(f, g, r)
        BY <1>5, <3>3 DEF Summing
      <4>2. QED
        BY <3>3, <4>1
    <3>5. h[s] = Sums(f, g, s)
      BY <1>6
    <3> HIDE DEF h
    <3>6. QED
      BY <2>2, <3>4, <3>5 DEF Sums
  <2>3. QED
    BY <2>1, <2>2
<1>7. Summing(f, h, Upto(S, m))
  <2>1. h = [s \in Upto(S, m) |-> h[s]]
    OBVIOUS
  <2> HIDE DEF h
  <2>2. QED
    BY <1>6, <2>1 DEF Summing
<1> HIDE DEF h
<1>8. QED
  BY <1>2, <1>7

(* The library's sum is an entry of such a table.                          *)
LEMMA SumSums ==
    ASSUME NEW S, IsFiniteSet(S), NEW f
    PROVE  \E g : Summing(f, g, SUBSET S) /\ SumFunctionOnSet(f, S) = g[S]
<1>1. Upto(S, Cardinality(S)) = SUBSET S
  BY FS_Subset DEF Upto
<1>2. Cardinality(S) \in Nat
  BY FS_CardinalityType
<1>3. \E g : Summing(f, g, SUBSET S)
  <2>1. \E g : Summing(f, g, Upto(S, Cardinality(S)))
    BY <1>2, SummingUpto
  <2>2. QED
    BY <1>1, <2>1, Zenon
<1> DEFINE g == CHOOSE g : Summing(f, g, SUBSET S)
<1>4. Summing(f, g, SUBSET S)
  BY <1>3
<1>5. SumFunctionOnSet(f, S) = g[S]
  BY DEF SumFunctionOnSet, FoldFunctionOnSet, MapThenFoldSet, Summing, Sums, Pick
<1> HIDE DEF g
<1>6. QED
  BY <1>4, <1>5

(* A sum over a set is at most the size of A if each summand is at most    *)
(* the size of its own part of A and the parts do not overlap.             *)
LEMMA SumBounded ==
    ASSUME NEW S, IsFiniteSet(S), NEW f, NEW A, IsFiniteSet(A), NEW D,
           \A b \in S : D[b] \subseteq A /\ f[b] \in Nat /\ f[b] <= Cardinality(D[b]),
           \A b, c \in S : b # c => D[b] \cap D[c] = {}
    PROVE  SumFunctionOnSet(f, S) \in Nat /\ SumFunctionOnSet(f, S) <= Cardinality(A)
<1> DEFINE All(s) == UNION {D[b] : b \in s}
<1>1. PICK g : Summing(f, g, SUBSET S) /\ SumFunctionOnSet(f, S) = g[S]
  BY SumSums
<1> DEFINE Fine(s) == g[s] \in Nat /\ g[s] <= Cardinality(All(s))
           Sizes == {n \in Nat : \E s \in SUBSET S : ~Fine(s) /\ n = Cardinality(s)}
<1>2. ASSUME NEW s \in SUBSET S
      PROVE  IsFiniteSet(All(s)) /\ Cardinality(All(s)) \in Nat
             /\ Cardinality(All(s)) <= Cardinality(A)
  <2>1. All(s) \in SUBSET A
    OBVIOUS
  <2> HIDE DEF All
  <2>2. QED
    BY <2>1, FS_Subset, FS_CardinalityType
<1>3. Fine(S)
  <2> SUFFICES ASSUME ~Fine(S) PROVE FALSE
    OBVIOUS
  <2>1. Sizes \in SUBSET Nat /\ Sizes # {}
    <3> HIDE DEF Fine
    <3>1. Cardinality(S) \in Nat
      BY FS_CardinalityType
    <3>2. QED
      BY <3>1
  <2>2. PICK n \in Sizes : \A m \in Sizes : n <= m
    <3> HIDE DEF Sizes
    <3>1. QED
      BY <2>1, Least
  <2>3. PICK s \in SUBSET S : ~Fine(s) /\ n = Cardinality(s)
    BY <2>2
  <2>4. g[s] = Sums(f, g, s)
    BY <1>1 DEF Summing
  <2>5. s # {}
    <3>1. ASSUME s = {} PROVE FALSE
      <4>1. g[s] = 0
        BY <2>4, <3>1 DEF Sums
      <4>2. Cardinality(All(s)) \in Nat
        BY <1>2
      <4> HIDE DEF All
      <4>3. QED
        BY <2>3, <4>1, <4>2
    <3>2. QED
      BY <3>1
  <2> DEFINE b == Pick(s)
             r == s \ {b}
  <2>6. /\ b \in S /\ r \in SUBSET S /\ Cardinality(r) \in Nat
        /\ n \in Nat /\ Cardinality(r) = n - 1
    BY <2>3, <2>5, Picked
  <2>7. Fine(r)
    <3> HIDE DEF Fine, r
    <3>1. Cardinality(r) \in Sizes => n <= Cardinality(r)
      BY <2>2
    <3>2. Cardinality(r) \notin Sizes
      BY <2>6, <3>1
    <3>3. QED
      BY <2>6, <3>2
  <2>8. g[s] = f[b] + g[r]
    BY <2>4, <2>5 DEF Sums
  <2>9. Cardinality(All(s)) = Cardinality(D[b]) + Cardinality(All(r))
    <3>1. All(s) = D[b] \cup All(r)
      <4>1. b \in s
        BY <2>3, <2>5, Picked
      <4> HIDE DEF b
      <4>2. QED
        BY <4>1
    <3>2. D[b] \cap All(r) = {}
      BY <2>6
    <3>3. IsFiniteSet(D[b]) /\ IsFiniteSet(All(r)) /\ Cardinality(D[b]) \in Nat
          /\ Cardinality(All(r)) \in Nat
      <4> HIDE DEF b, r, All
      <4>1. QED
        BY <1>2, <2>6, FS_Subset, FS_CardinalityType
    <3> HIDE DEF b, r, All
    <3>4. Cardinality(All(s)) = Cardinality(D[b]) + Cardinality(All(r)) - Cardinality({})
      BY <3>1, <3>2, <3>3, FS_Union
    <3>5. QED
      BY <3>3, <3>4, FS_EmptySet
  <2>10. f[b] \in Nat /\ f[b] <= Cardinality(D[b]) /\ Cardinality(D[b]) \in Nat
    <3> HIDE DEF b
    <3>1. QED
      BY <2>6, FS_Subset, FS_CardinalityType
  <2>11. g[r] \in Nat /\ g[r] <= Cardinality(All(r)) /\ Cardinality(All(r)) \in Nat
    <3> HIDE DEF r, All
    <3>1. QED
      BY <1>2, <2>6, <2>7
  <2> HIDE DEF b, r, All
  <2>12. QED
    BY <2>3, <2>8, <2>9, <2>10, <2>11
<1>4. QED
  <2>1. Cardinality(All(S)) \in Nat /\ Cardinality(All(S)) <= Cardinality(A)
    BY <1>2
  <2>2. Cardinality(A) \in Nat
    BY FS_CardinalityType
  <2> HIDE DEF All
  <2>3. QED
    BY <1>1, <1>3, <2>1, <2>2

-----------------------------------------------------------------------------
(* Summaries *)

(* A count over fewer samples is not greater.                              *)
LEMMA CountLess ==
    ASSUME NEW S, IsFiniteSet(S), NEW T \in SUBSET S
    PROVE  /\ IsFiniteSet({x \in S : x.online})
           /\ Count(S) = Cardinality({x \in S : x.online})
           /\ Count(S) \in Nat /\ Count(T) \in Nat /\ Count(T) <= Count(S)
<1>1. {x \in S : x.online} \in SUBSET S /\ {x \in T : x.online} \in SUBSET {x \in S : x.online}
  OBVIOUS
<1>2. IsFiniteSet({x \in S : x.online})
  BY <1>1, FS_Subset
<1>3. QED
  BY <1>1, <1>2, FS_Subset, FS_CardinalityType DEF Count

(* What a step does to the store and the aggregates.                       *)
LEMMA StoreMoves ==
    ASSUME [Next]_vars
    PROVE  \/ UNCHANGED <<stored, aggregates>>
           \/ (\E x : stored' = stored \cup {x}) /\ UNCHANGED aggregates
           \/ \E c \in Cutoffs : AggregateHours(c)
<1>1. ASSUME NEW c \in Clients, Stream(c) PROVE UNCHANGED <<stored, aggregates>>
  BY <1>1 DEF Stream, Connect, SubscribeTelemetry, Handle, DropOldest, WriteSample, Disconnect,
              retentionVars
<1>2. CASE PublishTelemetry \/ Add \/ Watch \/ Events \/ UNCHANGED vars
  BY <1>2 DEF PublishTelemetry, Add, Watch, Events, vars, retentionVars
<1>3. CASE Consume
  BY <1>3 DEF Consume, WriteTelemetry
<1>4. CASE RetentionRun
  BY <1>4 DEF RetentionRun, JobFails, DeleteOldSamples
<1>5. QED
  BY <1>1, <1>2, <1>3, <1>4 DEF Next

(* The first statement of the job: a new aggregate counts samples of its   *)
(* hour that are there; the others stay.                                   *)
LEMMA AggregateCounts ==
    ASSUME SummaryInv, NEW c \in Cutoffs, AggregateHours(c)
    PROVE  CountedOnce'
<1> DEFINE old == {x \in raw : x.stamp < c}
           buckets == Buckets(old) \ DOMAIN aggregates
<1>1. /\ aggregates' = [b \in DOMAIN aggregates \cup buckets |->
                           IF b \in buckets THEN Count({x \in old : Bucket(x) = b})
                           ELSE aggregates[b]]
      /\ stored' = stored
  BY DEF AggregateHours
<1>2. IsFiniteSet(stored) /\ IsFiniteSet(DOMAIN aggregates) /\ old \in SUBSET stored
  BY DEF SummaryInv, KeepInv, StoreTyped, CountedOnce
<1>3. IsFiniteSet(old)
  <2> HIDE DEF old
  <2>1. QED
    BY <1>2, FS_Subset
<1>4. IsFiniteSet({Bucket(x) : x \in old})
  <2> DEFINE all == {Bucket(x) : x \in old}
             f == [x \in old |-> Bucket(x)]
  <2> HIDE DEF old
  <2>1. f \in Surjection(old, all)
    BY DEF Surjection
  <2> HIDE DEF f, all
  <2>2. IsFiniteSet(all)
    BY <1>3, <2>1, FS_Surjection
  <2>3. QED
    BY <2>2 DEF all
<1>5. \A b : {x \in old : Bucket(x) = b} \in SUBSET InBucket(b)
  BY <1>2 DEF InBucket
<1>6. \A b : InBucket(b) \in SUBSET stored
  BY DEF InBucket
<1>7. \A b : Count({x \in old : Bucket(x) = b}) \in Nat
             /\ Count({x \in old : Bucket(x) = b}) <= Count(InBucket(b))
  <2> TAKE b
  <2> DEFINE S == InBucket(b)
             T == {x \in old : Bucket(x) = b}
  <2>1. IsFiniteSet(S)
    BY <1>2, <1>6, FS_Subset
  <2>2. T \in SUBSET S
    BY <1>5
  <2> HIDE DEF S, T
  <2>3. Count(T) \in Nat /\ Count(T) <= Count(S)
    BY <2>1, <2>2, CountLess
  <2>4. QED
    BY <2>3 DEF S, T
<1>8. IsFiniteSet(DOMAIN aggregates \cup buckets)
  <2> DEFINE all == {Bucket(x) : x \in old}
  <2> HIDE DEF old, all
  <2>1. IsFiniteSet(all)
    BY <1>4 DEF all
  <2>2. buckets \in SUBSET all
    BY DEF all, Buckets
  <2> HIDE DEF buckets
  <2>3. IsFiniteSet(buckets)
    BY <2>1, <2>2, FS_Subset
  <2>4. QED
    BY <1>2, <2>3, FS_Union
<1>9. \A b : InBucket(b)' = InBucket(b)
  BY <1>1 DEF InBucket
<1> DEFINE n(b) == Count({x \in old : Bucket(x) = b})
<1>10. \A b : n(b) \in Nat /\ n(b) <= Count(InBucket(b))
  BY <1>7
<1>11. DOMAIN aggregates' = DOMAIN aggregates \cup buckets
       /\ \A b \in DOMAIN aggregates' :
             aggregates'[b] = IF b \in buckets THEN n(b) ELSE aggregates[b]
  BY <1>1
<1> HIDE DEF buckets, n
<1>12. \A b \in DOMAIN aggregates' :
          aggregates'[b] \in Nat /\ aggregates'[b] <= Count(InBucket(b)')
  BY <1>9, <1>10, <1>11 DEF SummaryInv, CountedOnce
<1>13. QED
  BY <1>1, <1>2, <1>8, <1>11, <1>12 DEF CountedOnce

(* Each step keeps the aggregates below what was stored.                   *)
LEMMA SummaryStep == SummaryInv /\ [Next]_vars => SummaryInv'
<1> SUFFICES ASSUME SummaryInv, [Next]_vars PROVE SummaryInv'
  OBVIOUS
<1>1. KeepInv'
  BY KeepStep DEF SummaryInv
<1>2. CASE UNCHANGED <<stored, aggregates>>
  BY <1>1, <1>2 DEF SummaryInv, CountedOnce, InBucket
<1>3. ASSUME NEW x, stored' = stored \cup {x}, UNCHANGED aggregates PROVE SummaryInv'
  <2>1. IsFiniteSet(stored')
    BY <1>3, FS_AddElement DEF SummaryInv, CountedOnce
  <2>2. ASSUME NEW b \in DOMAIN aggregates PROVE aggregates[b] <= Count(InBucket(b)')
    <3>1. InBucket(b)' \in SUBSET stored' /\ InBucket(b) \in SUBSET (InBucket(b)')
      BY <1>3 DEF InBucket
    <3>2. IsFiniteSet(InBucket(b)')
      BY <2>1, <3>1, FS_Subset
    <3>3. Count(InBucket(b)') \in Nat /\ Count(InBucket(b)) \in Nat
          /\ Count(InBucket(b)) <= Count(InBucket(b)')
      BY <3>1, <3>2, CountLess
    <3>4. aggregates[b] \in Nat /\ aggregates[b] <= Count(InBucket(b))
      BY DEF SummaryInv, CountedOnce
    <3>5. QED
      BY <3>3, <3>4
  <2>3. QED
    BY <1>1, <1>3, <2>1, <2>2 DEF SummaryInv, CountedOnce
<1>4. ASSUME NEW c \in Cutoffs, AggregateHours(c) PROVE SummaryInv'
  BY <1>1, <1>4, AggregateCounts DEF SummaryInv
<1>5. QED
  BY <1>2, <1>3, <1>4, StoreMoves

(* Hours as multiples: an hour that starts no later than t ends no later   *)
(* than the one t lies in.                                                 *)
LEMMA HourOrder ==
    ASSUME NEW t \in Nat, NEW h \in Nat, h * Hour <= t
    PROVE  /\ t \div Hour \in Nat /\ t < (t \div Hour + 1) * Hour
           /\ (h + 1) * Hour <= (t \div Hour + 1) * Hour
<1>1. Hour \in Nat \ {0}
  BY HourAssumption
<1>2. t \div Hour \in Nat /\ t < (t \div Hour + 1) * Hour
  BY <1>1
<1> DEFINE k == t \div Hour
<1> HIDE DEF k
<1>3. k \in Nat /\ t < (k + 1) * Hour
  BY <1>2 DEF k
<1>4. \A m, n \in Nat : m <= n => m * Hour <= n * Hour
  BY <1>1
<1>5. h <= k
  <2>1. k + 1 <= h => (k + 1) * Hour <= h * Hour
    BY <1>3, <1>4
  <2>2. (k + 1) * Hour \in Nat /\ h * Hour \in Nat
    BY <1>1, <1>3
  <2>3. QED
    BY <1>3, <2>1, <2>2
<1>6. (h + 1) * Hour <= (k + 1) * Hour
  BY <1>3, <1>4, <1>5
<1>7. QED
  BY <1>2, <1>6 DEF k

(* The samples of an hour that starts in the range lie in the range or     *)
(* before the end of its last hour.                                        *)
LEMMA HourInRange ==
    ASSUME NEW x \in Samples, NEW from \in Nat, NEW to \in Nat,
           from <= Bucket(x)[2] * Hour, Bucket(x)[2] * Hour <= to
    PROVE  from <= x.stamp /\ x.stamp < (to \div Hour + 1) * Hour
<1> DEFINE h == Bucket(x)[2]
<1>1. h \in Nat /\ x.stamp < (h + 1) * Hour /\ h = x.stamp \div Hour
  BY HourEnds
<1>2. x.stamp \in Nat /\ Hour \in Nat \ {0}
  BY HourAssumption DEF Samples
<1>3. h * Hour <= x.stamp
  BY <1>1, <1>2
<1>4. (h + 1) * Hour <= (to \div Hour + 1) * Hour /\ to \div Hour \in Nat
  BY <1>1, HourOrder
<1>5. h * Hour \in Nat /\ (h + 1) * Hour \in Nat /\ (to \div Hour + 1) * Hour \in Nat
  BY <1>1, <1>2, <1>4
<1> HIDE DEF h
<1>6. QED
  BY <1>1, <1>2, <1>3, <1>4, <1>5 DEF h

(* A summary is bounded by what was stored, whichever of its two sources   *)
(* it reads.                                                               *)
LEMMA SummaryBounded == SummaryInv => SummaryNoInflation
<1> SUFFICES ASSUME SummaryInv, NEW range \in Ranges, NEW r
             PROVE  RobotSummary(r, range[1], range[2])
                       <= Count({x \in stored : x.robot = r /\ range[1] <= x.stamp
                                                /\ x.stamp < (range[2] \div Hour + 1) * Hour})
  BY DEF SummaryNoInflation
<1> DEFINE from == range[1]
           to == range[2]
           rows == {x \in raw : x.robot = r /\ from <= x.stamp /\ x.stamp <= to}
           buckets == {b \in DOMAIN aggregates : /\ b[1] = r
                                                 /\ from <= b[2] * Hour /\ b[2] * Hour <= to}
           kept == {x \in stored : x.robot = r /\ from <= x.stamp
                                   /\ x.stamp < (to \div Hour + 1) * Hour}
           A == {x \in kept : x.online}
           D == [b \in buckets |-> {x \in InBucket(b) : x.online}]
<1>1. from \in Nat /\ to \in Nat
  BY HourAssumption
<1>2. /\ IsFiniteSet(stored) /\ IsFiniteSet(DOMAIN aggregates)
      /\ stored \subseteq Samples /\ raw \subseteq stored
      /\ \A b \in DOMAIN aggregates : /\ b[2] \in Nat /\ aggregates[b] \in Nat
                                      /\ aggregates[b] <= Count(InBucket(b))
  BY DEF SummaryInv, KeepInv, StoreTyped, WholeCounted, CountedOnce
<1>3. RobotSummary(r, from, to)
        = IF Count(rows) > 0 THEN Count(rows) ELSE SumFunctionOnSet(aggregates, buckets)
  BY DEF RobotSummary
<1>4. kept \in SUBSET stored /\ IsFiniteSet(kept)
  BY <1>2, FS_Subset
<1>5. IsFiniteSet(A) /\ Count(kept) = Cardinality(A) /\ Count(kept) \in Nat
  BY <1>4, CountLess
<1>6. Count(rows) <= Count(kept) /\ Count(rows) \in Nat
  <2>1. ASSUME NEW x \in rows PROVE x \in kept
    <3> HIDE DEF from, to
    <3>1. x \in stored /\ x.stamp \in Nat /\ x.stamp <= to /\ from <= x.stamp /\ x.robot = r
      BY <1>2, <2>1 DEF Samples
    <3>2. 0 * Hour <= to
      BY <1>1, HourAssumption
    <3>3. to < (to \div Hour + 1) * Hour /\ to \div Hour \in Nat
      BY <1>1, <3>2, HourOrder
    <3>4. (to \div Hour + 1) * Hour \in Nat
      BY <3>3, HourAssumption
    <3>5. x.stamp < (to \div Hour + 1) * Hour
      BY <1>1, <3>1, <3>3, <3>4
    <3>6. QED
      BY <3>1, <3>5
  <2> HIDE DEF rows, kept
  <2>2. QED
    BY <1>4, <2>1, CountLess
<1>7. SumFunctionOnSet(aggregates, buckets) <= Cardinality(A)
  <2>1. IsFiniteSet(buckets)
    BY <1>2, FS_Subset
  <2>2. ASSUME NEW b \in buckets
        PROVE  D[b] \subseteq A /\ aggregates[b] \in Nat /\ aggregates[b] <= Cardinality(D[b])
    <3> HIDE DEF from, to
    <3>1. ASSUME NEW x \in InBucket(b) PROVE x \in kept
      <4>1. x \in Samples /\ x \in stored /\ Bucket(x) = b
        BY <1>2, <3>1 DEF InBucket
      <4>2. x.robot = b[1]
        BY <4>1 DEF Bucket
      <4>3. from <= x.stamp /\ x.stamp < (to \div Hour + 1) * Hour
        BY <1>1, <2>2, <4>1, HourInRange
      <4>4. QED
        BY <2>2, <4>1, <4>2, <4>3
    <3>2. D[b] \subseteq A
      <4> HIDE DEF kept
      <4>1. QED
        BY <2>2, <3>1
    <3>3. Cardinality(D[b]) = Count(InBucket(b))
      BY <2>2 DEF Count
    <3>4. QED
      BY <1>2, <2>2, <3>2, <3>3
  <2>3. \A b, c \in buckets : b # c => D[b] \cap D[c] = {}
    <3> HIDE DEF buckets
    <3>1. QED
      BY DEF InBucket
  <2> HIDE DEF buckets, A, D
  <2>4. QED
    BY <1>5, <2>1, <2>2, <2>3, SumBounded
<1> HIDE DEF from, to, rows, buckets, kept, A
<1>8. RobotSummary(r, from, to) <= Count(kept)
  BY <1>3, <1>5, <1>6, <1>7
<1>9. QED
  BY <1>8 DEF from, to, kept

(* Nothing is stored at first.                                             *)
LEMMA SummaryInit == Init => SummaryInv
<1> SUFFICES ASSUME Init PROVE SummaryInv
  OBVIOUS
<1>1. KeepInv
  BY KeepInit
<1>2. stored = {} /\ DOMAIN aggregates = {}
  BY DEF Init, RetentionInit
<1>3. QED
  BY <1>1, <1>2, FS_EmptySet DEF SummaryInv, CountedOnce

(* RobotSummary never reports more online samples than were stored in the  *)
(* hours of the range, for any trace, any cutoffs and any ranges: not      *)
(* while an hour is aggregated and its samples still there, not after a    *)
(* cutoff has split it, and not after a run that failed.                   *)
THEOREM SummaryNoInflationHolds == Spec => []SummaryNoInflation
  BY SummaryInit, SummaryStep, SummaryBounded, PTL DEF Spec

-----------------------------------------------------------------------------
(* Queues and sorting *)

(* Appending what comes after everything keeps a queue rising.             *)
LEMMA PutOn ==
    ASSUME NEW q \in Seq(Nat), NEW x \in Nat
    PROVE  /\ Append(q, x) \in Seq(Nat) /\ Range(Append(q, x)) = Range(q) \cup {x}
           /\ Len(Append(q, x)) = Len(q) + 1
           /\ Rising(q) /\ Before(Range(q), {x}) => Rising(Append(q, x))
<1> DEFINE p == Append(q, x)
<1>1. /\ p \in Seq(Nat) /\ Len(q) \in Nat /\ Len(p) = Len(q) + 1
      /\ DOMAIN q = 1..Len(q) /\ DOMAIN p = 1..(Len(q) + 1)
      /\ \A i \in 1..Len(q) : p[i] = q[i] /\ q[i] \in Nat
      /\ p[Len(q) + 1] = x
  OBVIOUS
<1> HIDE DEF p
<1>2. Range(p) = Range(q) \cup {x}
  <2>1. \A i \in DOMAIN p : p[i] \in Range(q) \cup {x}
    <3> TAKE i \in DOMAIN p
    <3>1. i \in 1..Len(q) \/ i = Len(q) + 1
      BY <1>1
    <3>2. QED
      BY <1>1, <3>1 DEF Range
  <2>2. \A i \in DOMAIN q : q[i] \in Range(p)
    <3> TAKE i \in DOMAIN q
    <3>1. i \in DOMAIN p /\ p[i] = q[i]
      BY <1>1
    <3>2. QED
      BY <3>1 DEF Range
  <2>3. x \in Range(p)
    <3>1. Len(q) + 1 \in DOMAIN p
      BY <1>1
    <3>2. QED
      BY <1>1, <3>1 DEF Range
  <2>4. QED
    BY <2>1, <2>2, <2>3 DEF Range
<1>3. ASSUME Rising(q), Before(Range(q), {x}) PROVE Rising(p)
  <2> SUFFICES ASSUME NEW i \in DOMAIN p, NEW j \in DOMAIN p, i < j PROVE p[i] < p[j]
    BY DEF Rising
  <2>1. i \in 1..Len(q) /\ p[i] = q[i] /\ q[i] \in Range(q)
    BY <1>1 DEF Range
  <2>2. CASE j = Len(q) + 1
    BY <1>1, <1>3, <2>1, <2>2 DEF Before
  <2>3. CASE j \in 1..Len(q)
    BY <1>1, <1>3, <2>1, <2>3 DEF Rising
  <2>4. QED
    BY <1>1, <2>2, <2>3
<1>4. QED
  BY <1>1, <1>2, <1>3 DEF p

(* Taking the head off leaves less, all of it behind the head.             *)
LEMMA TakeOff ==
    ASSUME NEW q \in Seq(Nat), q # <<>>
    PROVE  /\ Head(q) \in Range(q) /\ Tail(q) \in Seq(Nat) /\ Range(Tail(q)) \subseteq Range(q)
           /\ Len(Tail(q)) = Len(q) - 1 /\ Len(q) \in Nat \ {0}
           /\ Rising(q) => Rising(Tail(q)) /\ Before({Head(q)}, Range(Tail(q)))
<1> DEFINE p == Tail(q)
<1>1. /\ p \in Seq(Nat) /\ Len(q) \in Nat \ {0} /\ Len(p) = Len(q) - 1 /\ Head(q) = q[1]
      /\ DOMAIN q = 1..Len(q) /\ DOMAIN p = 1..(Len(q) - 1)
      /\ \A i \in 1..(Len(q) - 1) : p[i] = q[i + 1]
  BY HeadTail
<1> HIDE DEF p
<1>2. Head(q) \in Range(q)
  <2>1. 1 \in DOMAIN q
    BY <1>1
  <2>2. QED
    BY <1>1, <2>1 DEF Range
<1>3. ASSUME NEW i \in DOMAIN p
      PROVE  i + 1 \in DOMAIN q /\ p[i] = q[i + 1] /\ i \in Nat \ {0}
  <2>1. i \in 1..(Len(q) - 1) /\ p[i] = q[i + 1]
    BY <1>1
  <2>2. i \in Nat \ {0} /\ i + 1 \in 1..Len(q)
    BY <2>1, Len(q) \in Nat
  <2>3. QED
    BY <1>1, <2>1, <2>2
<1>4. Range(p) \subseteq Range(q)
  BY <1>3 DEF Range
<1>5. ASSUME Rising(q) PROVE Rising(p)
  <2> SUFFICES ASSUME NEW i \in DOMAIN p, NEW j \in DOMAIN p, i < j PROVE p[i] < p[j]
    BY DEF Rising
  <2>1. i + 1 < j + 1
    BY <1>3
  <2>2. QED
    BY <1>3, <1>5, <2>1 DEF Rising
<1>6. ASSUME Rising(q) PROVE Before({Head(q)}, Range(p))
  <2>1. ASSUME NEW i \in DOMAIN p PROVE Head(q) < p[i]
    <3>1. 1 \in DOMAIN q /\ 1 < i + 1
      BY <1>1, <1>3
    <3>2. QED
      BY <1>1, <1>3, <1>6, <3>1 DEF Rising
  <2>2. QED
    BY <2>1 DEF Before, Range
<1>7. QED
  BY <1>1, <1>2, <1>4, <1>5, <1>6 DEF p

(* A text that sorts before another does not sort behind it.               *)
LEMMA IdAsymmetric ==
    ASSUME trace \in Traces, NEW i \in DOMAIN trace, NEW j \in DOMAIN trace, IdLess(i, j)
    PROVE  ~IdLess(j, i)
<1> DEFINE a == EventID(i)[1]
           b == EventID(j)[1]
           u == EventID(i)[2]
           v == EventID(j)[2]
<1>1. Second \in Nat \ {0} /\ Places \subseteq Nat \ {0}
  BY StreamBounds
<1>2. ASSUME NEW k \in DOMAIN trace PROVE EventID(k)[1] \in Nat /\ EventID(k)[2] \in Nat
  <2> DEFINE t == trace[k].stamp
  <2>1. t \in Nat
    BY TraceOf DEF Samples
  <2>2. EventID(k) = <<t \div Second, t % Second>>
    BY DEF EventID
  <2> HIDE DEF t
  <2>3. t \div Second \in Nat /\ t % Second \in Nat
    BY <1>1, <2>1
  <2>4. QED
    BY <2>2, <2>3
<1>3. a \in Nat /\ b \in Nat /\ u \in Nat /\ v \in Nat
  BY <1>2
<1>4. ASSUME NEW x \in Nat, NEW y \in Nat, CutShort(x, y) PROVE x < y
  <2>1. PICK p \in Places : x = y - (y % p)
    BY <1>4 DEF CutShort
  <2>2. y % p \in Nat
    BY <1>1
  <2>3. x <= y /\ x # y
    BY <1>4, <2>1, <2>2 DEF CutShort
  <2>4. QED
    BY <2>3
<1>5. CutShort(u, v) => u < v
  BY <1>3, <1>4
<1>6. CutShort(v, u) => v < u
  BY <1>3, <1>4
<1>7. /\ IdLess(i, j) <=> a < b \/ (a = b /\ CutShort(v, u)) \/ (a = b /\ u < v /\ ~CutShort(u, v))
      /\ IdLess(j, i) <=> b < a \/ (b = a /\ CutShort(u, v)) \/ (b = a /\ v < u /\ ~CutShort(v, u))
  BY DEF IdLess
<1> HIDE DEF a, b, u, v
<1>8. QED
  BY <1>3, <1>5, <1>6, <1>7

(* So it may follow.                                                       *)
LEMMA IdFollows ==
    ASSUME trace \in Traces, NEW i \in DOMAIN trace, NEW j \in DOMAIN trace, IdLess(i, j)
    PROVE  MayFollow(i, j)
<1>1. ~IdLess(j, i) /\ ~IdLess(i, i)
  BY IdAsymmetric
<1>2. QED
  BY <1>1 DEF MayFollow

(* A sorted replay is an enumeration of its events.                        *)
LEMMA SortedSorts ==
    ASSUME trace \in Traces, NEW S \in SUBSET DOMAIN trace, NEW q \in Sorted(S)
    PROVE  q \in Seq(Nat) /\ Range(q) \subseteq S /\ Goes(q)
<1>1. DOMAIN trace = 1..Len(trace) /\ Len(trace) \in Nat
  BY TraceOf
<1>2. Cardinality(S) \in Nat
  <2>1. IsFiniteSet(1..Len(trace))
    BY <1>1, FS_Interval
  <2>2. QED
    BY <1>1, <2>1, FS_Subset, FS_CardinalityType
<1>3. /\ q \in [1..Cardinality(S) -> S] /\ S \subseteq Nat
      /\ \A k, l \in 1..Cardinality(S) : k # l => q[k] # q[l]
      /\ \A k, l \in DOMAIN q : k < l => ~IdLess(q[l], q[k])
  BY <1>1 DEF Sorted, SetToSeqs
<1>4. q \in [1..Cardinality(S) -> Nat]
  BY <1>3
<1>5. q \in Seq(Nat) /\ Len(q) = Cardinality(S) /\ DOMAIN q = 1..Len(q)
  BY <1>2, <1>4
<1>6. Range(q) \subseteq S
  BY <1>3 DEF Range
<1>7. Goes(q)
  <2> SUFFICES ASSUME NEW k \in 1..(Len(q) - 1) PROVE MayFollow(q[k], q[k + 1])
    BY DEF Goes
  <2>1. k \in 1..Len(q) /\ k + 1 \in 1..Len(q) /\ k < k + 1
    BY <1>2, <1>5
  <2>2. q[k] # q[k + 1] /\ ~IdLess(q[k + 1], q[k])
    BY <1>3, <1>5, <2>1
  <2>3. QED
    BY <2>2 DEF MayFollow
<1>8. QED
  BY <1>5, <1>6, <1>7

(* What comes after everything that was seen may follow it.                *)
LEMMA GoesOn ==
    ASSUME NEW q \in Seq(Nat), NEW x \in Nat, Goes(q), Before(Range(q), {x})
    PROVE  Goes(Append(q, x))
<1> DEFINE p == Append(q, x)
<1>1. /\ Len(q) \in Nat /\ Len(p) = Len(q) + 1 /\ DOMAIN q = 1..Len(q)
      /\ \A i \in 1..Len(q) : p[i] = q[i] /\ q[i] \in Nat
      /\ p[Len(q) + 1] = x
  OBVIOUS
<1> HIDE DEF p
<1>2. ASSUME NEW k \in 1..(Len(p) - 1) PROVE MayFollow(p[k], p[k + 1])
  <2>1. k \in 1..Len(q) /\ p[k] = q[k]
    BY <1>1
  <2>2. CASE k = Len(q)
    <3>1. q[k] \in Range(q) /\ p[k + 1] = x
      BY <1>1, <2>1, <2>2 DEF Range
    <3>2. q[k] < x /\ q[k] \in Nat
      BY <1>1, <2>1, <3>1 DEF Before
    <3>3. QED
      BY <2>1, <3>1, <3>2 DEF MayFollow
  <2>3. CASE k # Len(q)
    <3>1. k \in 1..(Len(q) - 1) /\ k + 1 \in 1..Len(q)
      <4>1. Len(q) \in Nat
        BY <1>1
      <4>2. QED
        BY ONLY <2>1, <2>3, <4>1
    <3>2. QED
      BY <1>1, <2>1, <3>1 DEF Goes
  <2>4. QED
    BY <2>2, <2>3
<1>3. QED
  BY <1>2 DEF Goes, p

(* A part of a replay, put behind what was seen.                           *)
LEMMA Follow ==
    ASSUME NEW q \in Seq(Nat), NEW p \in Seq(Nat), NEW n \in 0..Len(p), Goes(q), Goes(p),
           q # <<>> => \A x \in Range(p) : MayFollow(Last(q), x)
    PROVE  LET z == q \o SubSeq(p, 1, n) IN
           /\ z \in Seq(Nat) /\ Range(z) \subseteq Range(q) \cup Range(p) /\ Goes(z)
<1> DEFINE s == SubSeq(p, 1, n)
           z == q \o s
<1>1. /\ s \in Seq(Nat) /\ Len(s) = n /\ n \in Nat /\ Len(p) \in Nat /\ DOMAIN p = 1..Len(p)
      /\ n <= Len(p) /\ \A i \in 1..n : s[i] = p[i] /\ i \in DOMAIN p
  OBVIOUS
<1> HIDE DEF s
<1>2. /\ z \in Seq(Nat) /\ Len(q) \in Nat /\ DOMAIN q = 1..Len(q)
      /\ DOMAIN z = 1..(Len(q) + n) /\ Len(z) = Len(q) + n
      /\ \A i \in 1..(Len(q) + n) : z[i] = IF i <= Len(q) THEN q[i] ELSE s[i - Len(q)]
  <2>1. q \o s \in Seq(Nat) /\ Len(q) \in Nat /\ DOMAIN q = 1..Len(q)
    BY <1>1
  <2>2. Len(q \o s) = Len(q) + n
    BY <1>1, ConcatProperties
  <2>3. DOMAIN (q \o s) = 1..(Len(q) + n)
    BY <2>1, <2>2
  <2>4. ASSUME NEW i \in 1..(Len(q) + n)
        PROVE  (q \o s)[i] = IF i <= Len(q) THEN q[i] ELSE s[i - Len(q)]
    BY <1>1
  <2>5. QED
    BY <2>1, <2>2, <2>3, <2>4
<1> HIDE DEF z
<1>3. ASSUME NEW i \in DOMAIN z
      PROVE  \/ i \in DOMAIN q /\ z[i] = q[i]
             \/ i > Len(q) /\ i - Len(q) \in DOMAIN p /\ z[i] = p[i - Len(q)]
  <2>1. CASE i <= Len(q)
    BY <1>2, <2>1
  <2>2. CASE ~(i <= Len(q))
    <3>1. i - Len(q) \in 1..n /\ i \in 1..(Len(q) + n) /\ i > Len(q)
      <4>1. Len(q) \in Nat /\ n \in Nat /\ i \in 1..(Len(q) + n)
        BY <1>1, <1>2
      <4>2. QED
        BY ONLY <2>2, <4>1
    <3>2. z[i] = s[i - Len(q)]
      BY <1>2, <2>2, <3>1
    <3>3. s[i - Len(q)] = p[i - Len(q)] /\ i - Len(q) \in DOMAIN p
      BY <1>1, <3>1
    <3>4. QED
      BY <3>1, <3>2, <3>3
  <2>3. QED
    BY <2>1, <2>2
<1>4. Range(z) \subseteq Range(q) \cup Range(p)
  BY <1>3 DEF Range
<1>5. ASSUME NEW k \in 1..(Len(z) - 1) PROVE MayFollow(z[k], z[k + 1])
  <2>00. /\ Len(q) \in Nat /\ n \in Nat /\ Len(p) \in Nat /\ n <= Len(p)
         /\ Len(z) = Len(q) + n /\ DOMAIN z = 1..(Len(q) + n)
    BY <1>1, <1>2
  <2>0. /\ k \in Nat /\ k + 1 \in Nat /\ 1 <= k /\ k + 1 <= Len(q) + n
        /\ k \in DOMAIN z /\ k + 1 \in DOMAIN z
    BY ONLY <2>00, k \in 1..(Len(z) - 1)
  <2>1. CASE k + 1 <= Len(q)
    <3>1. k \in 1..(Len(q) - 1) /\ z[k] = q[k] /\ z[k + 1] = q[k + 1]
      BY <1>1, <1>2, <2>0, <2>1
    <3>2. QED
      BY <3>1 DEF Goes
  <2>2. CASE k = Len(q)
    <3>1. z[k] = q[Len(q)] /\ Last(q) = q[Len(q)] /\ q # <<>>
      BY <1>2, <2>0, <2>2 DEF Last
    <3>2. z[k + 1] \in Range(p)
      <4>1. k + 1 \notin DOMAIN q
        BY ONLY <1>2, <2>00, <2>0, <2>2
      <4>2. k + 1 - Len(q) \in DOMAIN p /\ z[k + 1] = p[k + 1 - Len(q)]
        BY <1>3, <2>0, <4>1
      <4>3. QED
        BY <4>2 DEF Range
    <3>3. QED
      BY <3>1, <3>2
  <2>3. CASE k > Len(q)
    <3> DEFINE m == k - Len(q)
    <3>1. z[k] = p[m] /\ z[k + 1] = p[m + 1] /\ m \in 1..(Len(p) - 1)
      <4>1. m \in Nat \ {0} /\ m + 1 = (k + 1) - Len(q) /\ k + 1 > Len(q) /\ m + 1 <= n
        BY ONLY <2>00, <2>0, <2>3 DEF m
      <4>2. m \in 1..n /\ m + 1 \in 1..n /\ m \in 1..(Len(p) - 1)
        BY ONLY <2>00, <4>1
      <4>3. z[k] = s[m] /\ z[k + 1] = s[m + 1]
        <5>1. ~(k <= Len(q)) /\ ~(k + 1 <= Len(q))
          BY ONLY <2>00, <2>0, <2>3
        <5>2. z[k] = s[k - Len(q)] /\ z[k + 1] = s[(k + 1) - Len(q)]
          BY <1>2, <2>0, <5>1
        <5>3. QED
          BY <4>1, <5>2
      <4>4. QED
        BY <1>1, <4>2, <4>3
    <3> HIDE DEF m
    <3>2. QED
      BY <3>1 DEF Goes
  <2>4. k + 1 <= Len(q) \/ k = Len(q) \/ k > Len(q)
    BY ONLY <2>00, <2>0
  <2>5. QED
    BY <2>1, <2>2, <2>3, <2>4
<1>6. Goes(z)
  BY <1>5 DEF Goes
<1>7. QED
  BY <1>2, <1>4, <1>6 DEF z, s

(* The last element of a sequence.                                         *)
LEMMA LastOf ==
    ASSUME NEW q \in Seq(Nat), q # <<>>
    PROVE  Last(q) \in Range(q)
<1>1. Len(q) \in DOMAIN q /\ Last(q) = q[Len(q)]
  BY DEF Last
<1>2. QED
  BY <1>1 DEF Range

(* What a client has seen stays as it is.                                  *)
LEMMA SeenStill ==
    ASSUME NEW c, trace' = trace, seen'[c] = seen[c]
    PROVE  SeenGoes(c)' <=> SeenGoes(c)
BY DEF SeenGoes, MayFollow, IdLess, EventID

(* It becomes something else.                                              *)
LEMMA SeenMoves ==
    ASSUME NEW c, trace' = trace, NEW z, seen'[c] = z, Goes(z)
    PROVE  SeenGoes(c)'
BY DEF SeenGoes, Goes, MayFollow, IdLess, EventID

-----------------------------------------------------------------------------
(* Streams *)

(* The bus holds numbers, and a queue that is empty has no range.          *)
LEMMA QueueOf ==
    ASSUME BusTyped, NEW s \in Subscriptions
    PROVE  inbox[s] \in Seq(Nat) /\ sent \in Nat
<1>1. DOMAIN trace \subseteq Nat /\ Len(trace) \in Nat /\ inbox[s] \in Seq(DOMAIN trace)
  BY TraceOf DEF BusTyped
<1>2. QED
  BY <1>1 DEF BusTyped

(* An empty queue holds nothing.                                           *)
LEMMA EmptyQueue ==
    Range(<<>>) = {} /\ Rising(<<>>) /\ Goes(<<>>) /\ Len(<<>>) = 0 /\ <<>> \in Seq(Nat)
BY DEF Range, Rising, Goes

(* A step of one client's stream leaves the others as they are.            *)
LEMMA OneClient ==
    ASSUME SeenInv, NEW c \in Clients, BusTyped', StreamTyped',
           UNCHANGED <<trace, sent, ring>>, ClientOK(c)',
           Range(inbox'[c]) \subseteq 1..sent,
           \A s \in Subscriptions \ {c} : inbox'[s] = inbox[s],
           \A d \in Clients \ {c} : /\ stream'[d] = stream[d] /\ chan'[d] = chan[d]
                                    /\ spilling'[d] = spilling[d] /\ seen'[d] = seen[d]
    PROVE  SeenInv'
<1>1. RingTyped'
  BY DEF SeenInv, RingTyped
<1>2. \A s \in Subscriptions : Range(inbox'[s]) \subseteq 1..sent'
  BY DEF SeenInv
<1>3. \A d \in Clients \ {c} : SeenGoes(d)' <=> SeenGoes(d)
  BY SeenStill
<1>4. ASSUME NEW d \in Clients \ {c} PROVE ClientOK(d)'
  <2>1. inbox'[d] = inbox[d]
    BY DEF Subscriptions
  <2>2. ClientOK(d)
    BY DEF SeenInv
  <2>3. InOrder(d)' <=> InOrder(d)
    BY <1>3, <2>1 DEF InOrder, Spilled
  <2>4. QED
    BY <2>1, <2>2, <2>3 DEF ClientOK, Idle
<1>5. QED
  BY <1>1, <1>2, <1>4 DEF SeenInv

(* Publishing: the new sample comes after all that were published.         *)
LEMMA PublishSeen ==
    ASSUME SeenInv, PublishTelemetry
    PROVE  SeenInv'
<1>0. BusTyped /\ StreamTyped /\ RingTyped
  BY DEF SeenInv
<1>1. /\ BusTyped' /\ trace' = trace /\ sent' = sent + 1
      /\ \A s \in Subscriptions : inbox'[s] \in {inbox[s], Append(inbox[s], sent + 1)}
  BY <1>0, Published
<1>2. UNCHANGED <<ring, stream, connects, chan, spilling, seen>>
  BY DEF PublishTelemetry, streamVars
<1>3. sent \in Nat /\ 1..sent \subseteq 1..sent' /\ 0..sent \subseteq 0..sent' /\ sent + 1 \in Nat
  BY <1>0, <1>1, TraceOf DEF BusTyped
<1>4. StreamTyped' /\ RingTyped'
  BY <1>0, <1>2, <1>3 DEF StreamTyped, RingTyped
<1>5. ASSUME NEW s \in Subscriptions
      PROVE  /\ inbox[s] \in Seq(Nat) /\ Range(inbox[s]) \subseteq 1..sent
             /\ Range(inbox'[s]) \subseteq Range(inbox[s]) \cup {sent + 1}
             /\ Rising(inbox[s]) => Rising(inbox'[s])
  <2>1. inbox[s] \in Seq(Nat) /\ Range(inbox[s]) \subseteq 1..sent
    BY <1>0, QueueOf DEF SeenInv
  <2>2. Before(Range(inbox[s]), {sent + 1})
    BY <1>3, <2>1 DEF Before
  <2>3. CASE inbox'[s] = inbox[s]
    BY <2>1, <2>3
  <2>4. CASE inbox'[s] = Append(inbox[s], sent + 1)
    BY <1>3, <2>1, <2>2, <2>4, PutOn
  <2>5. QED
    BY <1>1, <2>3, <2>4
<1>6. \A s \in Subscriptions : Range(inbox'[s]) \subseteq 1..sent'
  <2>1. sent + 1 \in 1..sent'
    BY <1>1, <1>3
  <2>2. QED
    BY <1>3, <1>5, <2>1
<1>7. \A c \in Clients : SeenGoes(c)' <=> SeenGoes(c)
  BY <1>1, <1>2, SeenStill
<1>8. ASSUME NEW c \in Clients PROVE ClientOK(c)'
  <2>1. ClientOK(c) /\ c \in Subscriptions
    BY DEF SeenInv, Subscriptions
  <2>2. Idle(c)'
    <3>1. ASSUME stream[c] # "open" PROVE inbox'[c] = inbox[c]
      <4>1. ~Listening(c)
        BY <2>1, <3>1, TraceAssumption DEF Listening
      <4>2. QED
        BY <2>1, <4>1 DEF PublishTelemetry
    <3>2. QED
      BY <1>2, <2>1, <3>1 DEF ClientOK, Idle
  <2>3. ASSUME InOrder(c) PROVE InOrder(c)'
    <3> DEFINE A == Range(seen[c])
               B == Range(chan[c])
               C == Spilled(c)
               Q == Range(inbox[c])
               R == Range(inbox'[c])
    <3>1. A \subseteq 1..sent /\ B \subseteq 1..sent /\ C \subseteq 0..sent
      BY <2>1 DEF ClientOK, Spilled
    <3>2. R \subseteq Q \cup {sent + 1} /\ Rising(inbox'[c])
      BY <1>5, <2>1, <2>3 DEF InOrder
    <3>3. /\ SeenGoes(c)' /\ Rising(chan[c]) /\ Spilled(c)' = C
          /\ Before(A, B \cup C \cup Q) /\ Before(B, C \cup Q) /\ Before(C, Q)
      BY <1>2, <1>7, <2>3 DEF InOrder, Spilled
    <3> HIDE DEF A, B, C, Q, R
    <3>4. Before(A, B \cup C \cup R) /\ Before(B, C \cup R) /\ Before(C, R)
      <4>1. Before(A, {sent + 1}) /\ Before(B, {sent + 1}) /\ Before(C, {sent + 1})
        BY <1>3, <3>1 DEF Before
      <4>2. QED
        BY <3>2, <3>3, <4>1 DEF Before
    <3>5. QED
      BY <1>2, <3>2, <3>3, <3>4 DEF InOrder, A, B, R
  <2>4. QED
    BY <1>2, <1>3, <2>1, <2>2, <2>3 DEF ClientOK
<1>9. QED
  BY <1>1, <1>4, <1>6, <1>8 DEF SeenInv

(* The consumers on the bus take from queues of their own.                 *)
LEMMA OtherTakes ==
    ASSUME SeenInv, NEW s \in {"populator", "watcher", "consumer"}, Taken(s), RingTyped',
           UNCHANGED <<stream, connects, chan, spilling, seen>>
    PROVE  SeenInv'
<1>0. BusTyped /\ s \in Subscriptions /\ Clients \subseteq Subscriptions \ {s}
  BY TraceAssumption DEF SeenInv, Subscriptions
<1>1. /\ BusTyped' /\ UNCHANGED <<trace, sent>> /\ inbox'[s] = Tail(inbox[s])
      /\ \A u \in Subscriptions \ {s} : inbox'[u] = inbox[u]
  BY <1>0, TakenOne
<1>2. StreamTyped'
  BY DEF SeenInv, StreamTyped
<1>3. \A u \in Subscriptions : Range(inbox'[u]) \subseteq 1..sent'
  <2>1. inbox[s] \in Seq(Nat) /\ inbox[s] # <<>>
    BY <1>0, QueueOf DEF Taken
  <2>2. Range(inbox'[s]) \subseteq Range(inbox[s])
    BY <1>1, <2>1, TakeOff
  <2>3. QED
    BY <1>0, <1>1, <2>2 DEF SeenInv
<1>4. \A c \in Clients : SeenGoes(c)' <=> SeenGoes(c)
  BY <1>1, SeenStill
<1>5. ASSUME NEW c \in Clients PROVE ClientOK(c)'
  <2>1. inbox'[c] = inbox[c] /\ ClientOK(c)
    BY <1>0, <1>1 DEF SeenInv
  <2>2. InOrder(c)' <=> InOrder(c)
    BY <1>4, <2>1 DEF InOrder, Spilled
  <2>3. QED
    BY <1>1, <2>1, <2>2 DEF ClientOK, Idle
<1>6. QED
  BY <1>1, <1>2, <1>3, <1>5 DEF SeenInv

(* The ring buffer holds what was published, whatever makes room for it.   *)
LEMMA AddSeen ==
    ASSUME SeenInv, Add
    PROVE  SeenInv'
<1> DEFINE x == Head(inbox["populator"])
           all == Append(ring, x)
<1>0. BusTyped /\ RingTyped /\ "populator" \in Subscriptions /\ Taken("populator")
  BY DEF SeenInv, Subscriptions, Add
<1>1. inbox["populator"] \in Seq(Nat) /\ inbox["populator"] # <<>> /\ sent \in Nat /\ sent' = sent
  BY <1>0, QueueOf DEF Taken
<1>2. x \in 1..sent
  BY <1>0, <1>1, TakeOff DEF SeenInv
<1> HIDE DEF x
<1>3. /\ ring \in Seq(Nat) /\ Range(ring) \subseteq 1..sent /\ Len(ring) <= RingCap
      /\ Len(ring) \in Nat /\ RingCap \in Nat \ {0}
  BY <1>0, StreamBounds DEF RingTyped
<1>4. all \in Seq(Nat) /\ Range(all) \subseteq 1..sent /\ Len(all) = Len(ring) + 1
  <2>1. x \in Nat
    BY <1>1, <1>2
  <2>2. all \in Seq(Nat) /\ Range(all) = Range(ring) \cup {x} /\ Len(all) = Len(ring) + 1
    BY <1>3, <2>1, PutOn
  <2>3. QED
    BY <1>2, <1>3, <2>2
<1>5. ring' = IF Len(all) > RingCap THEN Tail(all) ELSE all
  BY DEF Add, x
<1> HIDE DEF all
<1>6. all # <<>>
  BY <1>3, <1>4, EmptyQueue
<1>7. Tail(all) \in Seq(Nat) /\ Range(Tail(all)) \subseteq 1..sent /\ Len(Tail(all)) = Len(ring)
  <2>1. Tail(all) \in Seq(Nat) /\ Range(Tail(all)) \subseteq Range(all)
        /\ Len(Tail(all)) = Len(all) - 1
    BY <1>4, <1>6, TakeOff
  <2>2. QED
    BY <1>3, <1>4, <2>1
<1>8. RingTyped'
  BY <1>1, <1>3, <1>4, <1>5, <1>7 DEF RingTyped
<1>9. UNCHANGED <<stream, connects, chan, spilling, seen>>
  BY DEF Add
<1>10. QED
  BY <1>0, <1>8, <1>9, OtherTakes

(* What the invariant says of one client.                                  *)
LEMMA OfClient ==
    ASSUME SeenInv, NEW c \in Clients
    PROVE  /\ BusTyped /\ StreamTyped /\ RingTyped /\ ClientOK(c) /\ c \in Subscriptions
           /\ inbox[c] \in Seq(Nat) /\ Range(inbox[c]) \subseteq 1..sent /\ sent \in Nat
           /\ chan[c] \in Seq(Nat) /\ seen[c] \in Seq(Nat) /\ spilling[c] \in Nat
           /\ ChanCap \in Nat \ {0}
<1>1. BusTyped /\ StreamTyped /\ RingTyped /\ ClientOK(c) /\ c \in Subscriptions
  BY DEF SeenInv, Subscriptions
<1>2. QED
  BY <1>1, QueueOf, StreamBounds DEF SeenInv, StreamTyped

(* What is replayed was buffered, and its texts sort behind that of what   *)
(* the client saw last.                                                    *)
LEMMA ReplayFollows ==
    ASSUME SeenInv, NEW c \in Clients, NEW q \in Replays(c)
    PROVE  /\ q \in Seq(Nat) /\ Range(q) \subseteq 1..sent /\ Goes(q)
           /\ seen[c] # <<>> => \A x \in Range(q) : MayFollow(Last(seen[c]), x)
<1>0. trace \in Traces /\ sent \in Nat /\ 1..sent \subseteq DOMAIN trace
  BY OfClient, TraceOf DEF BusTyped
<1>1. CASE seen[c] = <<>>
  <2>1. q = <<>>
    BY <1>1 DEF Replays
  <2>2. QED
    BY <1>1, <2>1, EmptyQueue
<1>2. CASE seen[c] # <<>>
  <2> DEFINE m == Last(seen[c])
             S == {i \in GetSince(m) : trace[i].robot \in Filter[c]}
  <2>1. q \in Sorted(S)
    BY <1>2 DEF Replays
  <2>2. /\ seen[c] \in Seq(Nat) /\ Range(seen[c]) \subseteq 1..sent
        /\ Range(ring) \subseteq 1..sent
    BY OfClient DEF ClientOK, RingTyped
  <2>3. m \in 1..sent
    BY <1>2, <2>2, LastOf
  <2> HIDE DEF m
  <2>4. \A i \in S : i \in 1..sent /\ IdLess(m, i)
    BY <2>2 DEF GetSince
  <2> HIDE DEF S
  <2>5. q \in Seq(Nat) /\ Range(q) \subseteq S /\ Goes(q)
    BY <1>0, <2>1, <2>4, SortedSorts
  <2>6. \A i \in S : MayFollow(m, i)
    BY <1>0, <2>3, <2>4, IdFollows
  <2>7. QED
    BY <2>4, <2>5, <2>6 DEF m
<1>3. QED
  BY <1>1, <1>2

(* A connection replays some or all of it before it subscribes.            *)
LEMMA ConnectSeen ==
    ASSUME SeenInv, NEW c \in Clients, Connect(c)
    PROVE  SeenInv'
<1>0. /\ StreamTyped /\ ClientOK(c) /\ seen[c] \in Seq(Nat) /\ c \in Subscriptions
  BY OfClient
<1>1. PICK p \in Replays(c) : \E n \in 0..Len(p) :
         /\ seen' = [seen EXCEPT ![c] = @ \o SubSeq(p, 1, n)]
         /\ stream' = [stream EXCEPT ![c] = IF n = Len(p) THEN "replayed" ELSE "off"]
  BY DEF Connect
<1>1a. PICK n \in 0..Len(p) :
         /\ seen' = [seen EXCEPT ![c] = @ \o SubSeq(p, 1, n)]
         /\ stream' = [stream EXCEPT ![c] = IF n = Len(p) THEN "replayed" ELSE "off"]
  BY <1>1
<1>2. /\ stream[c] = "off" /\ connects[c] < MaxConnects
      /\ connects' = [connects EXCEPT ![c] = @ + 1]
      /\ UNCHANGED <<trace, sent, inbox, ring, chan, spilling>>
  BY DEF Connect, busVars
<1>3. /\ p \in Seq(Nat) /\ Range(p) \subseteq 1..sent /\ Goes(p)
      /\ seen[c] # <<>> => \A x \in Range(p) : MayFollow(Last(seen[c]), x)
  BY ReplayFollows
<1>3a. Goes(seen[c])
  BY <1>0 DEF ClientOK, InOrder, SeenGoes, Goes
<1> DEFINE z == seen[c] \o SubSeq(p, 1, n)
<1>4. z \in Seq(Nat) /\ Range(z) \subseteq Range(seen[c]) \cup Range(p) /\ Goes(z)
  BY <1>0, <1>3, <1>3a, Follow
<1> HIDE DEF z
<1>5. seen' = [seen EXCEPT ![c] = z]
  BY <1>1a DEF z
<1>6. StreamTyped'
  <2>1. MaxConnects \in Nat
    BY StreamBounds
  <2>2. connects' \in [Clients -> 0..MaxConnects]
    <3>1. connects \in [Clients -> 0..MaxConnects] /\ connects[c] + 1 \in 0..MaxConnects
      BY <1>0, <1>2, <2>1 DEF StreamTyped
    <3>2. QED
      BY <1>2, <3>1
  <2>3. stream' \in [Clients -> {"off", "replayed", "open"}] /\ seen' \in [Clients -> Seq(Nat)]
    BY <1>0, <1>1a, <1>4, <1>5 DEF StreamTyped
  <2>4. QED
    BY <1>0, <1>2, <2>2, <2>3 DEF StreamTyped
<1>7. seen'[c] = z /\ stream'[c] # "open"
  BY <1>0, <1>1a, <1>5 DEF StreamTyped
<1>8. inbox[c] = <<>> /\ chan[c] = <<>> /\ spilling[c] = NoSample
  BY <1>0, <1>2 DEF ClientOK, Idle
<1>10. SeenGoes(c)'
  BY <1>2, <1>4, <1>7, SeenMoves
<1>9. InOrder(c)'
  <2>1. Spilled(c)' = {} /\ Range(chan'[c]) = {} /\ Range(inbox'[c]) = {}
        /\ Rising(chan'[c]) /\ Rising(inbox'[c])
    BY <1>2, <1>8, EmptyQueue DEF Spilled
  <2>2. QED
    BY <1>10, <2>1 DEF InOrder, Before
<1>11. ClientOK(c)'
  <2>1. Range(seen'[c]) \subseteq 1..sent
    BY <1>0, <1>3, <1>4, <1>7 DEF ClientOK
  <2>2. QED
    BY <1>0, <1>2, <1>7, <1>8, <1>9, <2>1 DEF ClientOK, Idle
<1>12. /\ BusTyped' /\ Range(inbox'[c]) \subseteq 1..sent
       /\ \A s \in Subscriptions \ {c} : inbox'[s] = inbox[s]
  BY <1>0, <1>2, OfClient, StreamDoes DEF Stream
<1>13. \A d \in Clients \ {c} : stream'[d] = stream[d] /\ seen'[d] = seen[d]
  BY <1>0, <1>1a, <1>5 DEF StreamTyped
<1>14. QED
  BY <1>2, <1>6, <1>11, <1>12, <1>13, OneClient

(* The steps of an open stream move one sample on, or lose the oldest.     *)
LEMMA SubscribeSeen ==
    ASSUME SeenInv, NEW c \in Clients, SubscribeTelemetry(c)
    PROVE  SeenInv'
<1>0. StreamTyped /\ ClientOK(c) /\ BusTyped
  BY OfClient
<1>1. /\ stream[c] = "replayed" /\ stream' = [stream EXCEPT ![c] = "open"]
      /\ UNCHANGED <<trace, sent, inbox, ring, connects, chan, spilling, seen>>
  BY DEF SubscribeTelemetry, busVars
<1>2. StreamTyped' /\ stream'[c] = "open"
  BY <1>0, <1>1 DEF StreamTyped
<1>3. InOrder(c)' <=> InOrder(c)
  BY <1>1, SeenStill DEF InOrder, Spilled
<1>4. ClientOK(c)'
  BY <1>0, <1>1, <1>2, <1>3 DEF ClientOK, Idle
<1>5. BusTyped' /\ Range(inbox'[c]) \subseteq 1..sent
  BY <1>0, <1>1, OfClient DEF BusTyped
<1>6. \A d \in Clients \ {c} : stream'[d] = stream[d]
  BY <1>0, <1>1 DEF StreamTyped
<1>7. QED
  BY <1>1, <1>2, <1>4, <1>5, <1>6, OneClient

(* The handler moves the next sample from the bus into the channel, or     *)
(* holds it when the channel is full.                                      *)
LEMMA HandleSeen ==
    ASSUME SeenInv, NEW c \in Clients, Handle(c)
    PROVE  SeenInv'
<1> DEFINE x == Head(inbox[c])
<1>0. /\ StreamTyped /\ ClientOK(c) /\ BusTyped /\ c \in Subscriptions /\ inbox[c] \in Seq(Nat)
      /\ Range(inbox[c]) \subseteq 1..sent /\ chan[c] \in Seq(Nat) /\ sent \in Nat
      /\ ChanCap \in Nat \ {0}
  BY OfClient
<1>1. /\ stream[c] = "open" /\ spilling[c] = NoSample /\ Taken(c) /\ inbox[c] # <<>>
      /\ UNCHANGED <<ring, stream, connects, seen>>
      /\ \/ /\ Len(chan[c]) < ChanCap /\ UNCHANGED spilling
            /\ chan' = [chan EXCEPT ![c] = Append(@, x)]
         \/ spilling' = [spilling EXCEPT ![c] = x] /\ UNCHANGED chan
  BY DEF Handle, Taken
<1>2. /\ BusTyped' /\ UNCHANGED <<trace, sent>> /\ inbox'[c] = Tail(inbox[c])
      /\ \A s \in Subscriptions \ {c} : inbox'[s] = inbox[s]
  BY <1>0, <1>1, TakenOne
<1>3. /\ x \in Range(inbox[c]) /\ Range(inbox'[c]) \subseteq Range(inbox[c])
      /\ Rising(inbox[c]) => Rising(inbox'[c]) /\ Before({x}, Range(inbox'[c]))
  BY <1>0, <1>1, <1>2, TakeOff
<1> HIDE DEF x
<1>4. x \in 1..sent /\ x \in Nat
  BY <1>0, <1>3
<1>5. SeenGoes(c)' <=> SeenGoes(c)
  BY <1>1, <1>2, SeenStill
<1> DEFINE A == Range(seen[c])
           B == Range(chan[c])
           Q == Range(inbox[c])
           R == Range(inbox'[c])
<1>6. /\ A \subseteq 1..sent /\ B \subseteq 1..sent /\ Len(chan[c]) <= ChanCap
      /\ InOrder(c) => /\ SeenGoes(c) /\ Rising(chan[c]) /\ Rising(inbox[c])
                       /\ Before(A, B) /\ Before(A, Q) /\ Before(B, Q)
  BY <1>0 DEF ClientOK, InOrder, Before
<1>7. CASE Len(chan[c]) < ChanCap /\ UNCHANGED spilling /\ chan' = [chan EXCEPT ![c] = Append(@, x)]
  <2> DEFINE p == Append(chan[c], x)
  <2>1. /\ p \in Seq(Nat) /\ Range(p) = B \cup {x} /\ Len(p) = Len(chan[c]) + 1
        /\ Rising(chan[c]) /\ Before(B, {x}) => Rising(p)
    BY <1>0, <1>4, PutOn
  <2> HIDE DEF p
  <2>2. chan' = [chan EXCEPT ![c] = p]
    BY <1>7 DEF p
  <2>3. StreamTyped' /\ chan'[c] = p /\ \A d \in Clients \ {c} : chan'[d] = chan[d]
    BY <1>0, <1>1, <1>7, <2>1, <2>2 DEF StreamTyped
  <2>4. Len(p) <= ChanCap /\ Range(p) \subseteq 1..sent
    BY <1>0, <1>4, <1>6, <1>7, <2>1
  <2>5. ASSUME InOrder(c) PROVE InOrder(c)'
    <3>1. Spilled(c)' = {}
      BY <1>1, <1>7 DEF Spilled
    <3> HIDE DEF A, B, Q, R
    <3>2. /\ SeenGoes(c) /\ Rising(p) /\ Rising(inbox'[c])
          /\ Before(A, (B \cup {x}) \cup R) /\ Before(B \cup {x}, R)
      <4>1. x \in Q /\ R \subseteq Q /\ Before({x}, R) /\ Rising(inbox'[c])
        BY <1>3, <1>6, <2>5 DEF Q, R
      <4>2. QED
        BY <1>6, <2>1, <2>5, <4>1 DEF Before
    <3>3. QED
      BY <1>1, <1>5, <2>1, <2>3, <3>1, <3>2 DEF InOrder, Before, A, R
  <2>6. ClientOK(c)'
    BY <1>0, <1>1, <1>2, <1>7, <2>3, <2>4, <2>5 DEF ClientOK, Idle
  <2>7. QED
    BY <1>0, <1>1, <1>2, <1>3, <1>7, <2>3, <2>6, OneClient
<1>8. CASE spilling' = [spilling EXCEPT ![c] = x] /\ UNCHANGED chan
  <2>1. StreamTyped' /\ spilling'[c] = x /\ \A d \in Clients \ {c} : spilling'[d] = spilling[d]
    BY <1>0, <1>1, <1>4, <1>8 DEF StreamTyped
  <2>2. ASSUME InOrder(c) PROVE InOrder(c)'
    <3>1. Spilled(c)' = {x}
      BY <1>4, <2>1 DEF Spilled, NoSample
    <3> HIDE DEF A, B, Q, R
    <3>2. /\ SeenGoes(c) /\ Rising(chan[c]) /\ Rising(inbox'[c])
          /\ Before(A, B \cup {x} \cup R) /\ Before(B, {x} \cup R) /\ Before({x}, R)
      <4>1. x \in Q /\ R \subseteq Q /\ Before({x}, R) /\ Rising(inbox'[c])
        BY <1>3, <1>6, <2>2 DEF Q, R
      <4>2. QED
        BY <1>6, <2>2, <4>1 DEF Before
    <3>3. QED
      BY <1>1, <1>5, <1>8, <3>1, <3>2 DEF InOrder, A, B, R
  <2>3. ClientOK(c)'
    <3>1. x \in 0..sent
      BY <1>0, <1>4
    <3>2. QED
      BY <1>0, <1>1, <1>2, <1>8, <2>1, <2>2, <3>1 DEF ClientOK, Idle
  <2>4. QED
    BY <1>0, <1>1, <1>2, <1>3, <1>8, <2>1, <2>3, OneClient
<1>9. QED
  BY <1>1, <1>7, <1>8

(* The oldest sample of the channel is lost, the held one comes last.      *)
LEMMA DropSeen ==
    ASSUME SeenInv, NEW c \in Clients, DropOldest(c)
    PROVE  SeenInv'
<1> DEFINE x == spilling[c]
           t == Tail(chan[c])
           p == Append(t, x)
<1>0. /\ StreamTyped /\ ClientOK(c) /\ BusTyped /\ c \in Subscriptions /\ chan[c] \in Seq(Nat)
      /\ Range(inbox[c]) \subseteq 1..sent /\ sent \in Nat /\ ChanCap \in Nat \ {0} /\ x \in Nat
  BY OfClient
<1>1. /\ x # NoSample /\ chan[c] # <<>>
      /\ chan' = [chan EXCEPT ![c] = p] /\ spilling' = [spilling EXCEPT ![c] = NoSample]
      /\ UNCHANGED <<trace, used, sent, inbox, ring, stream, connects, seen>>
  BY DEF DropOldest, busVars
<1>2. /\ t \in Seq(Nat) /\ Range(t) \subseteq Range(chan[c]) /\ Len(t) = Len(chan[c]) - 1
      /\ Len(chan[c]) \in Nat /\ Rising(chan[c]) => Rising(t)
  BY <1>0, <1>1, TakeOff
<1> HIDE DEF x, t
<1>3. /\ p \in Seq(Nat) /\ Range(p) = Range(t) \cup {x} /\ Len(p) = Len(t) + 1
      /\ Rising(t) /\ Before(Range(t), {x}) => Rising(p)
  BY <1>0, <1>2, PutOn
<1> HIDE DEF p
<1>4. /\ StreamTyped' /\ chan'[c] = p /\ spilling'[c] = NoSample
      /\ \A d \in Clients \ {c} : chan'[d] = chan[d] /\ spilling'[d] = spilling[d]
  <2>1. NoSample \in Nat
    BY DEF NoSample
  <2>2. QED
    BY <1>0, <1>1, <1>3, <2>1 DEF StreamTyped
<1>5. Len(p) <= ChanCap /\ Range(p) \subseteq 1..sent
  <2>1. x \in 1..sent
    BY <1>0, <1>1 DEF ClientOK, NoSample, x
  <2>2. QED
    BY <1>0, <1>2, <1>3, <2>1 DEF ClientOK
<1>5a. SeenGoes(c)' <=> SeenGoes(c)
  BY <1>1, SeenStill
<1>6. ASSUME InOrder(c) PROVE InOrder(c)'
  <2> DEFINE A == Range(seen[c])
             B == Range(chan[c])
             Q == Range(inbox[c])
  <2>1. Spilled(c) = {x} /\ Spilled(c)' = {}
    BY <1>1, <1>4 DEF Spilled, x
  <2>2. /\ SeenGoes(c) /\ Rising(chan[c]) /\ Rising(inbox[c])
        /\ Before(A, B \cup {x} \cup Q) /\ Before(B, {x} \cup Q) /\ Before({x}, Q)
    BY <1>6, <2>1 DEF InOrder
  <2>3. Range(t) \subseteq B
    BY <1>2
  <2> HIDE DEF A, B, Q
  <2>4. Rising(p) /\ Before(A, Range(p) \cup Q) /\ Before(Range(p), Q)
    BY <1>2, <1>3, <2>2, <2>3 DEF Before
  <2>5. QED
    BY <1>1, <1>4, <1>5a, <2>1, <2>2, <2>4 DEF InOrder, Before, A, Q
<1>7. stream[c] = "open"
  BY <1>0, <1>1 DEF ClientOK, Idle
<1>8. ClientOK(c)'
  <2>1. NoSample \in 0..sent
    BY <1>0 DEF NoSample
  <2>2. QED
    BY <1>0, <1>1, <1>4, <1>5, <1>6, <1>7, <2>1 DEF ClientOK, Idle
<1>9. BusTyped' /\ Range(inbox'[c]) \subseteq 1..sent
  BY <1>0, <1>1 DEF BusTyped
<1>10. QED
  BY <1>1, <1>4, <1>8, <1>9, OneClient

(* The writer moves the oldest sample of the channel to the client.        *)
LEMMA WriteSeen ==
    ASSUME SeenInv, NEW c \in Clients, WriteSample(c)
    PROVE  SeenInv'
<1> DEFINE x == Head(chan[c])
           t == Tail(chan[c])
           z == Append(seen[c], x)
<1>0. /\ StreamTyped /\ ClientOK(c) /\ BusTyped /\ c \in Subscriptions /\ chan[c] \in Seq(Nat)
      /\ Range(inbox[c]) \subseteq 1..sent /\ sent \in Nat /\ ChanCap \in Nat \ {0}
      /\ seen[c] \in Seq(Nat)
  BY OfClient
<1>1. /\ stream[c] = "open" /\ chan[c] # <<>>
      /\ seen' = [seen EXCEPT ![c] = z] /\ chan' = [chan EXCEPT ![c] = t]
      /\ UNCHANGED <<trace, used, sent, inbox, ring, stream, connects, spilling>>
  BY DEF WriteSample, busVars
<1>2. /\ t \in Seq(Nat) /\ Range(t) \subseteq Range(chan[c]) /\ Len(t) = Len(chan[c]) - 1
      /\ Len(chan[c]) \in Nat /\ x \in Range(chan[c])
      /\ Rising(chan[c]) => Rising(t) /\ Before({x}, Range(t))
  BY <1>0, <1>1, TakeOff
<1> HIDE DEF x, t
<1>3. x \in 1..sent /\ x \in Nat
  BY <1>0, <1>2 DEF ClientOK
<1>4. /\ z \in Seq(Nat) /\ Range(z) = Range(seen[c]) \cup {x}
      /\ Goes(seen[c]) /\ Before(Range(seen[c]), {x}) => Goes(z)
  BY <1>0, <1>3, PutOn, GoesOn
<1> HIDE DEF z
<1>5. /\ StreamTyped' /\ chan'[c] = t /\ seen'[c] = z
      /\ \A d \in Clients \ {c} : chan'[d] = chan[d] /\ seen'[d] = seen[d]
  BY <1>0, <1>1, <1>2, <1>4 DEF StreamTyped
<1>6. Len(t) <= ChanCap /\ Range(t) \subseteq 1..sent /\ Range(z) \subseteq 1..sent
  BY <1>0, <1>2, <1>3, <1>4 DEF ClientOK
<1>7. ASSUME InOrder(c) PROVE InOrder(c)'
  <2> DEFINE A == Range(seen[c])
             B == Range(chan[c])
             C == Spilled(c)
             Q == Range(inbox[c])
             T == Range(t)
  <2>1. /\ Goes(seen[c]) /\ Rising(chan[c]) /\ Rising(inbox[c])
        /\ Before(A, B \cup C \cup Q) /\ Before(B, C \cup Q) /\ Before(C, Q)
    BY <1>7 DEF InOrder, SeenGoes, Goes
  <2>2. T \subseteq B /\ x \in B /\ Rising(t) /\ Before({x}, T) /\ Range(z) = A \cup {x}
    BY <1>2, <1>4, <2>1
  <2>3. Spilled(c)' = C
    BY <1>1 DEF Spilled
  <2> HIDE DEF A, B, C, Q, T
  <2>4. Before(A, {x}) /\ Before(A \cup {x}, T \cup C \cup Q) /\ Before(T, C \cup Q)
    BY <2>1, <2>2 DEF Before
  <2>5. SeenGoes(c)'
    <3>1. Goes(z)
      BY <1>4, <2>1, <2>4 DEF A
    <3>2. QED
      BY <1>1, <1>5, <3>1, SeenMoves
  <2>6. QED
    BY <1>1, <1>5, <2>1, <2>2, <2>3, <2>4, <2>5 DEF InOrder, Q, T
<1>8. ClientOK(c)'
  BY <1>0, <1>1, <1>5, <1>6, <1>7 DEF ClientOK, Idle
<1>9. BusTyped' /\ Range(inbox'[c]) \subseteq 1..sent
  BY <1>0, <1>1 DEF BusTyped
<1>10. QED
  BY <1>1, <1>5, <1>8, <1>9, OneClient

(* A client that leaves takes its queues with it.                          *)
LEMMA DisconnectSeen ==
    ASSUME SeenInv, NEW c \in Clients, Disconnect(c)
    PROVE  SeenInv'
<1>0. StreamTyped /\ ClientOK(c) /\ BusTyped /\ c \in Subscriptions /\ sent \in Nat
      /\ ChanCap \in Nat \ {0}
  BY OfClient
<1>1. /\ stream' = [stream EXCEPT ![c] = "off"] /\ chan' = [chan EXCEPT ![c] = <<>>]
      /\ inbox' = [inbox EXCEPT ![c] = <<>>] /\ spilling' = [spilling EXCEPT ![c] = NoSample]
      /\ UNCHANGED <<trace, sent, ring, connects, seen>>
  BY DEF Disconnect
<1>2. NoSample \in Nat /\ <<>> \in Seq(Nat)
  BY DEF NoSample
<1>3. /\ StreamTyped' /\ chan'[c] = <<>> /\ spilling'[c] = NoSample
      /\ \A d \in Clients \ {c} : /\ stream'[d] = stream[d] /\ chan'[d] = chan[d]
                                  /\ spilling'[d] = spilling[d]
  BY <1>0, <1>1, <1>2 DEF StreamTyped
<1>4. BusTyped' /\ \A s \in Subscriptions \ {c} : inbox'[s] = inbox[s]
  BY <1>0, StreamDoes DEF Stream
<1>5. inbox'[c] = <<>>
  BY <1>0, <1>1 DEF BusTyped
<1>6. SeenGoes(c)' <=> SeenGoes(c)
  BY <1>1, SeenStill
<1>7. ASSUME InOrder(c) PROVE InOrder(c)'
  <2>1. Spilled(c)' = {} /\ Range(chan'[c]) = {} /\ Range(inbox'[c]) = {}
        /\ Rising(chan'[c]) /\ Rising(inbox'[c])
    BY <1>3, <1>5, EmptyQueue DEF Spilled
  <2>2. QED
    BY <1>1, <1>6, <1>7, <2>1 DEF InOrder, Before
<1>8. ClientOK(c)'
  <2>1. Range(chan'[c]) \subseteq 1..sent /\ Len(chan'[c]) <= ChanCap /\ spilling'[c] \in 0..sent
    BY <1>0, <1>3, EmptyQueue DEF NoSample
  <2>2. QED
    BY <1>0, <1>1, <1>3, <1>5, <1>7, <2>1 DEF ClientOK, Idle
<1>9. Range(inbox'[c]) \subseteq 1..sent
  BY <1>5, EmptyQueue
<1>10. QED
  BY <1>1, <1>3, <1>4, <1>8, <1>9, OneClient

(* Every step keeps the streams in order.                                  *)
LEMMA SeenStep == SeenInv /\ [Next]_vars => SeenInv'
<1> SUFFICES ASSUME SeenInv, [Next]_vars PROVE SeenInv'
  OBVIOUS
<1>1. ASSUME UNCHANGED <<busVars, streamVars>> PROVE SeenInv'
  <2>1. UNCHANGED <<trace, sent, inbox, ring, stream, connects, chan, spilling, seen>>
    BY <1>1 DEF busVars, streamVars
  <2>2. BusTyped' /\ StreamTyped' /\ RingTyped'
    BY <2>1 DEF SeenInv, BusTyped, StreamTyped, RingTyped
  <2>3. \A c : ClientOK(c)' <=> ClientOK(c)
    BY <2>1, SeenStill DEF ClientOK, Idle, InOrder, Spilled
  <2>4. QED
    BY <2>1, <2>2, <2>3 DEF SeenInv
<1>2. ASSUME NEW s \in {"watcher", "consumer"}, Taken(s), UNCHANGED streamVars PROVE SeenInv'
  <2>1. UNCHANGED <<stream, connects, chan, spilling, seen>> /\ RingTyped'
    BY <1>2 DEF streamVars, SeenInv, RingTyped, Taken
  <2>2. QED
    BY <1>2, <2>1, OtherTakes
<1>3. CASE Watch
  BY <1>2, <1>3 DEF Watch
<1>4. CASE Consume
  BY <1>2, <1>4 DEF Consume
<1>5. CASE RetentionRun \/ Events
  BY <1>1, <1>5 DEF RetentionRun, Events
<1>6. CASE UNCHANGED vars
  BY <1>1, <1>6 DEF vars
<1>7. ASSUME NEW c \in Clients, Stream(c) PROVE SeenInv'
  BY <1>7, ConnectSeen, SubscribeSeen, HandleSeen, DropSeen, WriteSeen, DisconnectSeen DEF Stream
<1>8. QED
  BY <1>3, <1>4, <1>5, <1>6, <1>7, PublishSeen, AddSeen DEF Next

(* Nothing is published at first.                                          *)
LEMMA SeenInit == Init => SeenInv
<1> SUFFICES ASSUME Init PROVE SeenInv
  OBVIOUS
<1>1. BusTyped /\ sent = 0 /\ \A s \in Subscriptions : inbox[s] = <<>>
  BY TraceOf DEF Init, BusTyped
<1>2. /\ RingCap \in Nat /\ ChanCap \in Nat /\ MaxConnects \in Nat
  BY StreamBounds
<1>3. RingTyped
  BY <1>2, EmptyQueue DEF Init, RingTyped
<1>4. StreamTyped
  BY <1>2, EmptyQueue DEF Init, StreamTyped, NoSample
<1>5. ASSUME NEW c \in Clients PROVE ClientOK(c)
  <2>1. /\ chan[c] = <<>> /\ seen[c] = <<>> /\ spilling[c] = NoSample /\ inbox[c] = <<>>
    BY <1>1 DEF Init, Subscriptions
  <2>2. Spilled(c) = {}
    BY <2>1 DEF Spilled
  <2>3. InOrder(c)
    BY <2>1, <2>2, EmptyQueue DEF InOrder, Before, SeenGoes
  <2>4. QED
    BY <1>1, <1>2, <2>1, <2>3, EmptyQueue DEF ClientOK, Idle, NoSample
<1>6. QED
  BY <1>1, <1>3, <1>4, <1>5, EmptyQueue DEF SeenInv

(* telemetryStream and the ring buffer: for any number of clients, filters,*)
(* capacities and reconnects, a stream goes back only where the text of a  *)
(* timestamp makes it: neither where a replay meets the live stream, nor   *)
(* when the channel overflows, nor when the buffer lags.                   *)
THEOREM SeenInOrderHolds == Spec => []SeenInOrder
<1>1. SeenInv => SeenInOrder
  BY DEF SeenInv, ClientOK, InOrder, SeenGoes, SeenInOrder
<1>2. QED
  BY <1>1, SeenInit, SeenStep, PTL DEF Spec

-----------------------------------------------------------------------------
(* Types: what the invariants above do not say *)

(* Events carry the number of a broadcast that has begun; announcements    *)
(* are for published samples; the job's cutoff is one of its own.          *)
EventTyped ==
    /\ channel \in [Subscribers -> Seq(Event)]
    /\ \A s \in Subscribers : Len(channel[s]) <= EventCap
    /\ casts \in [Sources -> 0..MaxEvents]
    /\ \A b \in Sources : casting[b] # {} => casts[b] # 0

WatchTyped == used \in Uses /\ online \in [Robots -> BOOLEAN] /\ told \subseteq 1..sent
JobTyped == job \in {"idle", "aggregated"} /\ cutoff \in Cutoffs \cup {0}

TypeInv == SeenInv /\ SummaryInv /\ CastInv /\ EventTyped /\ WatchTyped /\ JobTyped

(* A broadcast that begins is counted.                                     *)
LEMMA BroadcastTyped ==
    ASSUME EventTyped, CastTyped, NEW b, Broadcast(b)
    PROVE  EventTyped'
<1>1. /\ casts' = [casts EXCEPT ![b] = casts[b] + 1] /\ casts[b] < MaxEvents
      /\ casting' = [casting EXCEPT ![b] = {s \in Subscribers : subscriber[s] = "on"}]
      /\ channel' = channel
  BY DEF Broadcast
<1>2. /\ casts \in [Sources -> 0..MaxEvents] /\ MaxEvents \in Nat
      /\ casting \in [Sources -> SUBSET Subscribers]
  BY BroadcasterBounds DEF EventTyped, CastTyped
<1>3. casts' \in [Sources -> 0..MaxEvents]
  <2>1. CASE b \in Sources
    <3>1. casts[b] + 1 \in 0..MaxEvents
      BY <1>1, <1>2, <2>1
    <3>2. QED
      BY <1>1, <1>2, <3>1
  <2>2. CASE b \notin Sources
    BY <1>1, <1>2, <2>2
  <2>3. QED
    BY <2>1, <2>2
<1>4. ASSUME NEW a \in Sources, casting'[a] # {} PROVE casts'[a] # 0
  <2>1. CASE a = b
    BY <1>1, <1>2, <2>1
  <2>2. CASE a # b
    BY <1>1, <1>2, <1>4, <2>2 DEF EventTyped
  <2>3. QED
    BY <2>1, <2>2
<1>5. QED
  BY <1>1, <1>3, <1>4 DEF EventTyped

(* An offer appends an event only where there is room.                     *)
LEMMA OfferTyped ==
    ASSUME EventTyped, CastTyped, NEW b \in Sources, NEW s \in Subscribers, Offer(b, s)
    PROVE  EventTyped'
<1> DEFINE e == <<b, casts[b]>>
<1>1. /\ s \in casting[b] /\ casts' = casts /\ casting' = [casting EXCEPT ![b] = casting[b] \ {s}]
      /\ channel' = IF Len(channel[s]) < EventCap
                    THEN [channel EXCEPT ![s] = Append(channel[s], e)] ELSE channel
  BY DEF Offer
<1>2. /\ casts \in [Sources -> 0..MaxEvents] /\ casting \in [Sources -> SUBSET Subscribers]
      /\ channel \in [Subscribers -> Seq(Event)] /\ casts[b] # 0
      /\ MaxEvents \in Nat /\ EventCap \in Nat
  BY <1>1, BroadcasterBounds DEF EventTyped, CastTyped
<1>3. e \in Event
  BY <1>2 DEF Event
<1> HIDE DEF e
<1>4. /\ Append(channel[s], e) \in Seq(Event)
      /\ Len(channel[s]) < EventCap => Len(Append(channel[s], e)) <= EventCap
  <2>1. channel[s] \in Seq(Event) /\ Len(channel[s]) \in Nat
    BY <1>2
  <2>2. Append(channel[s], e) \in Seq(Event) /\ Len(Append(channel[s], e)) = Len(channel[s]) + 1
    BY <1>3, <2>1
  <2>3. QED
    BY <1>2, <2>1, <2>2
<1>5. /\ channel' \in [Subscribers -> Seq(Event)]
      /\ \A a \in Subscribers : Len(channel'[a]) <= EventCap
  BY <1>1, <1>2, <1>4 DEF EventTyped
<1>6. \A a \in Sources : casting'[a] # {} => casts'[a] # 0
  BY <1>1, <1>2 DEF EventTyped
<1>7. QED
  BY <1>1, <1>2, <1>5, <1>6 DEF EventTyped

(* What subscribers do only empties channels.                              *)
LEMMA SubscriberTyped ==
    ASSUME EventTyped, NEW s \in Subscribers,
           Subscribe(s) \/ Unsubscribe(s) \/ CloseChannel(s) \/ WriteEvent(s)
    PROVE  EventTyped'
<1>1. EventCap \in Nat /\ channel \in [Subscribers -> Seq(Event)] /\ UNCHANGED <<casting, casts>>
  BY BroadcasterBounds DEF EventTyped, Subscribe, Unsubscribe, CloseChannel, WriteEvent
<1>2. CASE Unsubscribe(s) \/ CloseChannel(s)
  BY <1>1, <1>2 DEF EventTyped, Unsubscribe, CloseChannel
<1>3. CASE Subscribe(s)
  <2>1. channel' = [channel EXCEPT ![s] = <<>>] /\ <<>> \in Seq(Event) /\ Len(<<>>) <= EventCap
    BY <1>1, <1>3 DEF Subscribe
  <2>2. QED
    BY <1>1, <2>1 DEF EventTyped
<1>4. CASE WriteEvent(s)
  <2>1. channel' = [channel EXCEPT ![s] = Tail(channel[s])] /\ channel[s] # <<>>
    BY <1>4 DEF WriteEvent
  <2>2. Tail(channel[s]) \in Seq(Event) /\ Len(Tail(channel[s])) <= EventCap
    <3>1. channel[s] \in Seq(Event) /\ Len(channel[s]) <= EventCap
      BY <1>1 DEF EventTyped
    <3>2. Tail(channel[s]) \in Seq(Event) /\ Len(Tail(channel[s])) = Len(channel[s]) - 1
          /\ Len(channel[s]) \in Nat
      BY <2>1, <3>1
    <3>3. QED
      BY <1>1, <3>1, <3>2
  <2>3. QED
    BY <1>1, <2>1, <2>2 DEF EventTyped
<1>5. QED
  BY <1>2, <1>3, <1>4

(* The watcher announces a sample the bus had for it.                      *)
LEMMA WatchKeepsTypes ==
    ASSUME TypeInv, Watch
    PROVE  EventTyped' /\ WatchTyped'
<1> DEFINE i == Head(inbox["watcher"])
           x == trace[i]
<1>1. /\ Taken("watcher") /\ online' = [online EXCEPT ![x.robot] = x.online]
      /\ \/ Broadcast("watcher") /\ told' = told \cup {i}
         \/ UNCHANGED <<broadcasterVars, told>>
  BY DEF Watch
<1>2. EventTyped'
  <2>1. EventTyped /\ CastTyped
    BY DEF TypeInv, CastInv
  <2>2. QED
    BY <1>1, <2>1, BroadcastTyped DEF EventTyped, broadcasterVars
<1>3. i \in 1..sent /\ sent' = sent /\ used' = used /\ trace \in Traces /\ sent \in 0..Len(trace)
  <2>1. "watcher" \in Subscriptions /\ BusTyped
    BY DEF Subscriptions, TypeInv, SeenInv
  <2>2. inbox["watcher"] # <<>> /\ sent' = sent /\ used' = used
    BY <1>1 DEF Taken
  <2>3. Head(inbox["watcher"]) \in Range(inbox["watcher"])
    BY <2>1, <2>2, QueueOf, TakeOff
  <2>4. Range(inbox["watcher"]) \subseteq 1..sent
    BY <2>1 DEF TypeInv, SeenInv
  <2>5. QED
    BY <2>1, <2>2, <2>3, <2>4 DEF BusTyped
<1>4. x.online \in BOOLEAN
  <2>1. trace \in Seq(Samples) /\ i \in DOMAIN trace
    BY <1>3, TraceOf
  <2>2. x \in Samples
    BY <2>1
  <2>3. QED
    BY <2>2 DEF Samples
<1> HIDE DEF i, x
<1>5. online' \in [Robots -> BOOLEAN]
  BY <1>1, <1>4 DEF TypeInv, WatchTyped
<1>6. told' \subseteq 1..sent'
  BY <1>1, <1>3 DEF TypeInv, WatchTyped, broadcasterVars
<1>7. QED
  BY <1>2, <1>3, <1>5, <1>6 DEF TypeInv, WatchTyped

(* Every step keeps the types.                                             *)
LEMMA TypeStep == TypeInv /\ [Next]_vars => TypeInv'
<1> SUFFICES ASSUME TypeInv, [Next]_vars PROVE TypeInv'
  OBVIOUS
<1>0. EventTyped /\ WatchTyped /\ JobTyped /\ CastTyped /\ BusTyped
  BY DEF TypeInv, CastInv, SeenInv
<1>1. SeenInv' /\ SummaryInv' /\ CastInv'
  BY SeenStep, SummaryStep, CastStep DEF TypeInv
<1>2. ASSUME UNCHANGED broadcasterVars PROVE EventTyped'
  BY <1>0, <1>2 DEF EventTyped, broadcasterVars
<1>3. ASSUME UNCHANGED <<used, sent, online, told>> PROVE WatchTyped'
  BY <1>0, <1>3 DEF WatchTyped
<1>4. ASSUME UNCHANGED <<job, cutoff>> PROVE JobTyped'
  BY <1>0, <1>4 DEF JobTyped
<1>5. CASE PublishTelemetry
  <2>1. WatchTyped'
    <3>1. sent' = sent + 1 /\ used' = used /\ online' = online /\ told' = told
      BY <1>5 DEF PublishTelemetry, watcherVars
    <3>2. sent \in Nat
      BY <1>0, TraceOf DEF BusTyped
    <3>3. 1..sent \subseteq 1..sent'
      BY <3>1, <3>2
    <3>4. QED
      BY <1>0, <3>1, <3>3 DEF WatchTyped
  <2>2. UNCHANGED broadcasterVars /\ UNCHANGED <<job, cutoff>>
    BY <1>5 DEF PublishTelemetry, retentionVars
  <2>3. QED
    BY <1>1, <1>2, <1>4, <2>1, <2>2 DEF TypeInv
<1>6. CASE Add
  <2>1. /\ UNCHANGED broadcasterVars /\ UNCHANGED <<job, cutoff>>
        /\ UNCHANGED <<used, sent, online, told>>
    BY <1>6 DEF Add, Taken, watcherVars, retentionVars
  <2>2. QED
    BY <1>1, <1>2, <1>3, <1>4, <2>1 DEF TypeInv
<1>7. CASE Watch
  <2>1. UNCHANGED <<job, cutoff>>
    BY <1>7 DEF Watch, retentionVars
  <2>2. QED
    BY <1>1, <1>4, <1>7, <2>1, WatchKeepsTypes DEF TypeInv
<1>8. CASE Consume
  <2>1. /\ UNCHANGED broadcasterVars /\ UNCHANGED <<job, cutoff>>
        /\ UNCHANGED <<used, sent, online, told>>
    BY <1>8 DEF Consume, Taken, WriteTelemetry, watcherVars
  <2>2. QED
    BY <1>1, <1>2, <1>3, <1>4, <2>1 DEF TypeInv
<1>9. CASE RetentionRun
  <2>1. UNCHANGED broadcasterVars /\ UNCHANGED <<used, sent, online, told>>
    BY <1>9 DEF RetentionRun, busVars, watcherVars
  <2>2. JobTyped'
    BY <1>0, <1>9 DEF RetentionRun, AggregateHours, JobFails, DeleteOldSamples, JobTyped
  <2>3. QED
    BY <1>1, <1>2, <1>3, <2>1, <2>2 DEF TypeInv
<1>10. CASE Events
  <2>1. UNCHANGED <<used, sent, online, told>> /\ UNCHANGED <<job, cutoff>>
    BY <1>10 DEF Events, busVars, watcherVars, retentionVars
  <2>2. EventTyped'
    BY <1>0, <1>10, BroadcastTyped, OfferTyped, SubscriberTyped DEF Events
  <2>3. QED
    BY <1>1, <1>3, <1>4, <2>1, <2>2 DEF TypeInv
<1>11. ASSUME NEW c \in Clients, Stream(c) PROVE TypeInv'
  <2>1. /\ UNCHANGED broadcasterVars /\ UNCHANGED <<job, cutoff>>
        /\ UNCHANGED <<used, sent, online, told>>
    BY <1>11 DEF Stream, Connect, SubscribeTelemetry, Handle, DropOldest, WriteSample, Disconnect,
       Taken, busVars, watcherVars, retentionVars
  <2>2. QED
    BY <1>1, <1>2, <1>3, <1>4, <2>1 DEF TypeInv
<1>12. CASE UNCHANGED vars
  <2>1. /\ UNCHANGED broadcasterVars /\ UNCHANGED <<job, cutoff>>
        /\ UNCHANGED <<used, sent, online, told>>
    BY <1>12 DEF vars, busVars, watcherVars, retentionVars
  <2>2. QED
    BY <1>1, <1>2, <1>3, <1>4, <2>1 DEF TypeInv
<1>13. QED
  BY <1>5, <1>6, <1>7, <1>8, <1>9, <1>10, <1>11, <1>12 DEF Next

(* No queue, channel or ring buffer outgrows its capacity, and every       *)
(* variable stays in its type.                                             *)
THEOREM TypeCorrect == Spec => []TypeOK
<1>1. Init => TypeInv
  <2> SUFFICES ASSUME Init PROVE TypeInv
    OBVIOUS
  <2>1. SeenInv /\ SummaryInv
    BY SeenInit, SummaryInit
  <2>2. CastInv
    BY DEF Init, BroadcasterInit, CastInv, CastTyped, NoSendOnClosed
  <2>3. EventTyped
    <3>1. <<>> \in Seq(Event) /\ Len(<<>>) <= EventCap /\ 0 \in 0..MaxEvents
      BY BroadcasterBounds
    <3>2. QED
      BY <3>1 DEF Init, BroadcasterInit, EventTyped
  <2>4. WatchTyped /\ JobTyped
    BY DEF Init, RetentionInit, WatchTyped, JobTyped
  <2>5. QED
    BY <2>1, <2>2, <2>3, <2>4 DEF TypeInv
<1>2. TypeInv => TypeOK
  <2> SUFFICES ASSUME TypeInv PROVE TypeOK
    OBVIOUS
  <2>1. BroadcasterTypeOK
    BY DEF TypeInv, CastInv, CastTyped, EventTyped, BroadcasterTypeOK
  <2>2. RetentionTypeOK
    BY DEF TypeInv, JobTyped, SummaryInv, KeepInv, StoreTyped, CountedOnce, RetentionTypeOK
  <2>3. BusTyped /\ StreamTyped /\ RingTyped /\ WatchTyped
    BY DEF TypeInv, SeenInv
  <2>4. \A s \in Subscriptions : Range(inbox[s]) \subseteq 1..sent
    BY DEF TypeInv, SeenInv
  <2>5. \A c \in Clients : /\ Range(chan[c]) \subseteq 1..sent /\ Len(chan[c]) <= ChanCap
                           /\ spilling[c] \in 0..sent /\ Range(seen[c]) \subseteq 1..sent
    BY DEF TypeInv, SeenInv, ClientOK
  <2>6. QED
    BY <2>1, <2>2, <2>3, <2>4, <2>5 DEF TypeOK, BusTyped, StreamTyped, RingTyped, WatchTyped
<1>3. QED
  BY <1>1, <1>2, TypeStep, PTL DEF Spec

==============================================================================
