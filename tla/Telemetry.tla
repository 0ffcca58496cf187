------------------------------ MODULE Telemetry ------------------------------
(***************************************************************************)
(* What the control plane does with the telemetry that robots publish on   *)
(* the bus: the ring buffer and the SSE streams with reconnect             *)
(* (streaming, telemetryStream), the watcher that announces robots which   *)
(* come online (runRobotOnlineWatcher) through the event broadcaster, and  *)
(* the consumer that stores samples for analytics and retention.  The bus  *)
(* (NATS) gives every subscription a queue of its own, in order.           *)
(***************************************************************************)
EXTENDS Broadcaster, Retention

CONSTANTS
    Traces,     \* sequences of samples [robot, stamp, online] the robots publish
    Uses,       \* which of the consumers a deployment uses
    Clients,    \* clients of the telemetry stream
    Filter,     \* Filter[c]: robots client c may see and asks for
    RingCap,    \* capacity of the ring buffer (1000 in the code)
    ChanCap,    \* capacity of a stream's channel (1000 in the code)
    Second,     \* a second in the unit of the timestamps, a power of ten
    Places,     \* the powers of ten from 10 to Second
    MaxConnects \* bound: connections a client makes

ASSUME StreamBounds ==
    /\ {RingCap, ChanCap, Second} \cup Places \subseteq Nat \ {0} /\ MaxConnects \in Nat
    /\ Uses \subseteq SUBSET {"stream", "events", "history"}

(* The consumers on the bus are not clients; what robots publish has a     *)
(* robot, a time and the online flag.                                      *)
ASSUME TraceAssumption ==
    /\ Clients \cap {"populator", "watcher", "consumer"} = {}
    /\ Traces \subseteq Seq([robot : STRING, stamp : Nat, online : BOOLEAN])

VARIABLES
    trace, used, \* chosen once
    sent,       \* samples published
    inbox,      \* inbox[s]: samples the bus holds for subscription s
    ring,       \* ring: the buffered samples, oldest first
    stream,     \* stream[c]: "off", "replayed", "open"
    connects,   \* connections c has made
    chan,       \* chan[c]: samples between the handler and the writer
    spilling,   \* spilling[c]: sample for which the handler found chan full, or NoSample
    seen,       \* seen[c]: samples written to client c
    online,     \* the watcher's map
    told        \* samples for which the watcher announced a robot

busVars     == <<trace, used, sent, inbox>>
streamVars  == <<ring, stream, connects, chan, spilling, seen>>
watcherVars == <<online, told>>
vars == <<busVars, streamVars, watcherVars, broadcasterVars, retentionVars>>

NoSample == 0
Robots == UNION {{t[i].robot : i \in DOMAIN t} : t \in Traces}
Subscriptions == {"populator", "watcher", "consumer"} \cup Clients

-----------------------------------------------------------------------------
(* The bus *)

Listening(s) ==
    CASE s = "populator" -> "stream" \in used
      [] s = "watcher"   -> "events" \in used
      [] s = "consumer"  -> "history" \in used
      [] OTHER           -> stream[s] = "open" /\ trace[sent + 1].robot \in Filter[s]

PublishTelemetry ==
    /\ sent < Len(trace)
    /\ sent' = sent + 1
    /\ inbox' = [s \in Subscriptions |->
                    IF Listening(s) THEN Append(inbox[s], sent + 1) ELSE inbox[s]]
    /\ UNCHANGED <<trace, used, streamVars, watcherVars, broadcasterVars, retentionVars>>

Taken(s) ==
    /\ inbox[s] # <<>>
    /\ inbox' = [inbox EXCEPT ![s] = Tail(@)]
    /\ UNCHANGED <<trace, used, sent>>

-----------------------------------------------------------------------------
(* The ring buffer *)

(* A timestamp's text (RFC3339Nano): the second and its fraction, without  *)
(* the zeros at its end, nor the point if nothing is left of it.           *)
EventID(i) == <<trace[i].stamp \div Second, trace[i].stamp % Second>>

(* The digits of the fraction a are the first of the longer ones of b.     *)
CutShort(a, b) == a # b /\ \E p \in Places : a = b - (b % p)

(* Texts are compared, and the Z at the end of one sorts behind the digits *)
(* (or the point) with which a longer one goes on: .12Z before .1Z before  *)
(* Z, all in one second.                                                   *)
IdLess(i, j) ==
    LET a == EventID(i) b == EventID(j) IN
    \/ a[1] < b[1]
    \/ a[1] = b[1] /\ CutShort(b[2], a[2])
    \/ a[1] = b[1] /\ a[2] < b[2] /\ ~CutShort(a[2], b[2])

(* runStreamBufferPopulator: the oldest sample makes room.                 *)
Add ==
    /\ Taken("populator")
    /\ LET all == Append(ring, Head(inbox["populator"])) IN
       ring' = IF Len(all) > RingCap THEN Tail(all) ELSE all
    /\ UNCHANGED <<stream, connects, chan, spilling, seen>>
    /\ UNCHANGED <<watcherVars, broadcasterVars, retentionVars>>

(* Faulty variant: events as new as the last one are replayed too.         *)
GetSinceInclusive(i) == {j \in Range(ring) : ~IdLess(j, i)}

(* The buffered samples with a greater ID; they are sorted in Replay.      *)
GetSince(i) == {j \in Range(ring) : IdLess(i, j)}

-----------------------------------------------------------------------------
(* telemetryStream *)

(* sort.Slice leaves events with the same ID in any order.                 *)
Sorted(events) == {q \in SetToSeqs(events) : \A k, l \in DOMAIN q : k < l => ~IdLess(q[l], q[k])}

(* The replay for Last-Event-ID, filtered as the stream will be.           *)
Replays(c) ==
    IF seen[c] = <<>> THEN {<<>>}
    ELSE Sorted({i \in GetSince(Last(seen[c])) : trace[i].robot \in Filter[c]})

(* The client may go away in the middle of the replay.                     *)
Connect(c) ==
    /\ "stream" \in used
    /\ stream[c] = "off" /\ connects[c] < MaxConnects
    /\ connects' = [connects EXCEPT ![c] = @ + 1]
    /\ \E q \in Replays(c) : \E n \in 0..Len(q) :
          /\ seen' = [seen EXCEPT ![c] = @ \o SubSeq(q, 1, n)]
          /\ stream' = [stream EXCEPT ![c] = IF n = Len(q) THEN "replayed" ELSE "off"]
    /\ UNCHANGED <<busVars, ring, chan, spilling, watcherVars, broadcasterVars, retentionVars>>

(* The subscription comes after the replay.                                *)
SubscribeTelemetry(c) ==
    /\ stream[c] = "replayed"
    /\ stream' = [stream EXCEPT ![c] = "open"]
    /\ UNCHANGED <<busVars, ring, connects, chan, spilling, seen>>
    /\ UNCHANGED <<watcherVars, broadcasterVars, retentionVars>>

(* The subscription's handler: room in the channel, or the default branch. *)
Handle(c) ==
    LET i == Head(inbox[c]) IN
    /\ stream[c] = "open" /\ spilling[c] = NoSample
    /\ Taken(c)
    /\ IF Len(chan[c]) < ChanCap
       THEN chan' = [chan EXCEPT ![c] = Append(@, i)] /\ UNCHANGED spilling
       ELSE spilling' = [spilling EXCEPT ![c] = i] /\ UNCHANGED chan
    /\ UNCHANGED <<ring, stream, connects, seen, watcherVars, broadcasterVars, retentionVars>>

(* It receives the oldest sample itself and sends the new one.  If the     *)
(* writer has emptied the channel in the meantime it waits for ever: it is *)
(* the only sender.                                                        *)
DropOldest(c) ==
    /\ spilling[c] # NoSample /\ chan[c] # <<>>
    /\ chan' = [chan EXCEPT ![c] = Append(Tail(@), spilling[c])]
    /\ spilling' = [spilling EXCEPT ![c] = NoSample]
    /\ UNCHANGED <<busVars, ring, stream, connects, seen>>
    /\ UNCHANGED <<watcherVars, broadcasterVars, retentionVars>>

(* The request's loop.                                                     *)
WriteSample(c) ==
    /\ stream[c] = "open" /\ chan[c] # <<>>
    /\ seen' = [seen EXCEPT ![c] = Append(@, Head(chan[c]))]
    /\ chan' = [chan EXCEPT ![c] = Tail(@)]
    /\ UNCHANGED <<busVars, ring, stream, connects, spilling>>
    /\ UNCHANGED <<watcherVars, broadcasterVars, retentionVars>>

Disconnect(c) ==
    /\ stream[c] \in {"replayed", "open"}
    /\ stream' = [stream EXCEPT ![c] = "off"]
    /\ inbox' = [inbox EXCEPT ![c] = <<>>]
    /\ chan' = [chan EXCEPT ![c] = <<>>]
    /\ spilling' = [spilling EXCEPT ![c] = NoSample]
    /\ UNCHANGED <<trace, used, sent, ring, connects, seen>>
    /\ UNCHANGED <<watcherVars, broadcasterVars, retentionVars>>

-----------------------------------------------------------------------------
(* runRobotOnlineWatcher, runTelemetryConsumer *)

(* Faulty variant: robots that go offline stay in the map.                 *)
WatchSticky ==
    LET x == trace[Head(inbox["watcher"])] IN
    /\ Taken("watcher") /\ casting["watcher"] = {}
    /\ online' = [online EXCEPT ![x.robot] = @ \/ x.online]
    /\ IF x.online /\ ~online[x.robot]
       THEN Broadcast("watcher") /\ told' = told \cup {Head(inbox["watcher"])}
       ELSE UNCHANGED <<broadcasterVars, told>>
    /\ UNCHANGED <<streamVars, retentionVars>>

(* The next sample is handled when the broadcast of the last is over.      *)
Watch ==
    LET x == trace[Head(inbox["watcher"])] IN
    /\ Taken("watcher") /\ casting["watcher"] = {}
    /\ online' = [online EXCEPT ![x.robot] = x.online]
    /\ IF x.online /\ ~online[x.robot]
       THEN Broadcast("watcher") /\ told' = told \cup {Head(inbox["watcher"])}
       ELSE UNCHANGED <<broadcasterVars, told>>
    /\ UNCHANGED <<streamVars, retentionVars>>

Consume ==
    /\ Taken("consumer")
    /\ WriteTelemetry(trace[Head(inbox["consumer"])])
    /\ UNCHANGED <<streamVars, watcherVars, broadcasterVars>>

(* Samples are stored well within the retention period, so the cutoff lies *)
(* before those still to come.                                             *)
Coming == {trace[i] : i \in (sent + 1)..Len(trace)}
            \cup {trace[inbox["consumer"][k]] : k \in DOMAIN inbox["consumer"]}

RetentionRun ==
    /\ "history" \in used
    /\ \/ \E c \in Cutoffs : /\ \A x \in Coming : c <= x.stamp
                             /\ AggregateHours(c) \/ JobFails(c)
       \/ DeleteOldSamples
    /\ UNCHANGED <<busVars, streamVars, watcherVars, broadcasterVars>>

(* Task events and the SSE clients of the event stream.                    *)
Events ==
    /\ "events" \in used
    /\ \/ \E b \in Sources \ {"watcher"} : Broadcast(b)
       \/ \E b \in Sources, s \in Subscribers : Offer(b, s)
       \/ \E s \in Subscribers :
             Subscribe(s) \/ Unsubscribe(s) \/ CloseChannel(s) \/ WriteEvent(s)
    /\ UNCHANGED <<busVars, streamVars, watcherVars, retentionVars>>

-----------------------------------------------------------------------------
Init ==
    /\ trace \in Traces /\ used \in Uses /\ sent = 0
    /\ inbox = [s \in Subscriptions |-> <<>>] /\ ring = <<>>
    /\ stream = [c \in Clients |-> "off"] /\ connects = [c \in Clients |-> 0]
    /\ chan = [c \in Clients |-> <<>>] /\ spilling = [c \in Clients |-> NoSample]
    /\ seen = [c \in Clients |-> <<>>]
    /\ online = [r \in Robots |-> FALSE] /\ told = {}
    /\ BroadcasterInit /\ RetentionInit

Stream(c) ==
    Connect(c) \/ SubscribeTelemetry(c) \/ Handle(c) \/ DropOldest(c) \/ WriteSample(c)
    \/ Disconnect(c)

Next ==
    \/ PublishTelemetry \/ Add \/ Watch \/ Consume \/ RetentionRun \/ Events
    \/ \E c \in Clients : Stream(c)

Spec == Init /\ [][Next]_vars
-----------------------------------------------------------------------------
(* Properties *)

TypeOK ==
    /\ trace \in Traces /\ used \in Uses /\ sent \in 0..Len(trace)
    /\ \A s \in Subscriptions : Range(inbox[s]) \subseteq 1..sent
    /\ Range(ring) \subseteq 1..sent /\ Len(ring) <= RingCap
    /\ stream \in [Clients -> {"off", "replayed", "open"}]
    /\ connects \in [Clients -> 0..MaxConnects]
    /\ \A c \in Clients : /\ Range(chan[c]) \subseteq 1..sent /\ Len(chan[c]) <= ChanCap
                          /\ spilling[c] \in 0..sent /\ Range(seen[c]) \subseteq 1..sent
    /\ online \in [Robots -> BOOLEAN] /\ told \subseteq 1..sent
    /\ BroadcasterTypeOK /\ RetentionTypeOK

(* The sample j may come next after i: it was published later, or the text *)
(* of its timestamp does not sort before that of i.                        *)
MayFollow(i, j) == i # j /\ (i < j \/ ~IdLess(j, i))

(* The stream of a client goes back to an older sample only where the text *)
(* of its timestamp sorts behind or is the same, over all its reconnects:  *)
(* replay and live stream do not overlap, and neither overflow nor a       *)
(* lagging ring buffer brings a sample back.  Where texts sort like the    *)
(* samples, it therefore sees each once at most, in order of publication.  *)
SeenInOrder ==
    \A c \in Clients : \A k \in 1..(Len(seen[c]) - 1) : MayFollow(seen[c][k], seen[c][k + 1])

(* A robot is announced exactly for those samples handled that show it     *)
(* online after none or an offline one, however the announcements wait for *)
(* each other.                                                             *)
OnlineEdges ==
    LET before(i) == {j \in 1..(i - 1) : trace[j].robot = trace[i].robot}
        edge(i) == trace[i].online /\ (before(i) = {} \/ ~trace[Max(before(i))].online)
    IN "events" \in used =>
          told = {i \in 1..(sent - Len(inbox["watcher"])) : edge(i)}

-----------------------------------------------------------------------------
(* What the code says of itself and does not do *)

(* buffer.go: eventID is "lexicographically sortable", so a replay goes on *)
(* where the client was.  RFC3339Nano cuts zeros off and is not.           *)
SeenOnce == \A c \in Clients : IsInjective(seen[c])
==============================================================================
