----------------------------- MODULE Broadcaster -----------------------------
(***************************************************************************)
(* The event broadcaster (events.Broadcaster) and the SSE requests that    *)
(* read from it (eventsStream).  Broadcast holds the read lock while it    *)
(* offers the event to one subscriber after the other; several goroutines  *)
(* may do so at once.  Subscribe and Unsubscribe take the write lock.      *)
(***************************************************************************)
EXTENDS Naturals, Sequences, SequencesExt

CONSTANTS
    Sources,    \* goroutines that broadcast
    Subscribers,
    EventCap,   \* capacity of a subscriber's channel (32 in the code)
    MaxEvents   \* bound: events that one source broadcasts

ASSUME BroadcasterBounds == EventCap \in Nat \ {0} /\ MaxEvents \in Nat

VARIABLES
    subscriber, \* "off", "on", "removed" from the map, "closed"
    channel,    \* channel[s]: events waiting
    casting,    \* casting[b]: subscribers the current event has yet to reach
    casts       \* casts[b]: events that b has begun to broadcast

broadcasterVars == <<subscriber, channel, casting, casts>>

(* An event is named by its source and its number there.                   *)
Event == Sources \X (1..MaxEvents)

ReadLocked == \E b \in Sources : casting[b] # {}

Subscribe(s) ==
    /\ subscriber[s] = "off" /\ ~ReadLocked
    /\ subscriber' = [subscriber EXCEPT ![s] = "on"]
    /\ channel' = [channel EXCEPT ![s] = <<>>]
    /\ UNCHANGED <<casting, casts>>

(* Faulty variant: the subscriber leaves the map without the lock.         *)
UnsubscribeUnlocked(s) ==
    /\ subscriber[s] = "on"
    /\ subscriber' = [subscriber EXCEPT ![s] = "removed"]
    /\ UNCHANGED <<channel, casting, casts>>

(* Unsubscribe leaves the map under the lock and closes the channel after. *)
Unsubscribe(s) ==
    /\ subscriber[s] = "on" /\ ~ReadLocked
    /\ subscriber' = [subscriber EXCEPT ![s] = "removed"]
    /\ UNCHANGED <<channel, casting, casts>>

CloseChannel(s) ==
    /\ subscriber[s] = "removed"
    /\ subscriber' = [subscriber EXCEPT ![s] = "closed"]
    /\ UNCHANGED <<channel, casting, casts>>

(* Broadcast takes the read lock; without subscribers it is over at once.  *)
Broadcast(b) ==
    /\ casting[b] = {} /\ casts[b] < MaxEvents
    /\ casts' = [casts EXCEPT ![b] = @ + 1]
    /\ casting' = [casting EXCEPT ![b] = {s \in Subscribers : subscriber[s] = "on"}]
    /\ UNCHANGED <<subscriber, channel>>

(* The event is offered to one subscriber, and dropped if there is no room.*)
Offer(b, s) ==
    /\ s \in casting[b]
    /\ channel' = IF Len(channel[s]) < EventCap
                  THEN [channel EXCEPT ![s] = Append(@, <<b, casts[b]>>)] ELSE channel
    /\ casting' = [casting EXCEPT ![b] = @ \ {s}]
    /\ UNCHANGED <<subscriber, casts>>

(* eventsStream writes the next event to its client.                       *)
WriteEvent(s) ==
    /\ subscriber[s] = "on" /\ channel[s] # <<>>
    /\ channel' = [channel EXCEPT ![s] = Tail(@)]
    /\ UNCHANGED <<subscriber, casting, casts>>

BroadcasterInit ==
    /\ subscriber = [s \in Subscribers |-> "off"]
    /\ channel = [s \in Subscribers |-> <<>>]
    /\ casting = [b \in Sources |-> {}] /\ casts = [b \in Sources |-> 0]

BroadcasterTypeOK ==
    /\ subscriber \in [Subscribers -> {"off", "on", "removed", "closed"}]
    /\ \A s \in Subscribers : channel[s] \in Seq(Event) /\ Len(channel[s]) <= EventCap
    /\ casting \in [Sources -> SUBSET Subscribers] /\ casts \in [Sources -> 0..MaxEvents]
-----------------------------------------------------------------------------
(* Properties *)

(* Broadcast never sends on a channel that Unsubscribe has closed or is    *)
(* about to close, which would end the process: whoever it still has to    *)
(* reach is in the map.                                                    *)
NoSendOnClosed == \A b \in Sources : \A s \in casting[b] : subscriber[s] = "on"
==============================================================================
