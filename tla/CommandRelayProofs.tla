------------------------- MODULE CommandRelayProofs --------------------------
(***************************************************************************)
(* Proofs about CommandRelay, for any commands, retries, faults, expired   *)
(* keys and overlapping heartbeats, with stores in memory or in SQL.       *)
(***************************************************************************)
EXTENDS CommandRelay, TLAPS, FiniteSetTheorems

(* Every row of the queue stems from a request that is over.               *)
Open     == {a \in Attempts : attempt[a] \in {"none", "handling"}}
RoomLeft == Len(queue) + Cardinality(Open) <= Cardinality(Attempts)

(* Handlers and the agent hold rows of the queue; the agent waits for one  *)
(* heartbeat, or deals with one answer, or neither.                        *)
Handed ==
    /\ inbox \subseteq DOMAIN queue
    /\ \A h \in Slots : /\ beat[h].left \subseteq beat[h].batch
                        /\ beat[h].batch \subseteq DOMAIN queue
                        /\ beat[h].at # "acking" => beat[h].batch = {}
    /\ agent = "waiting" <=> waiting # NoSlot
    /\ agent # "relaying" => inbox = {}
    /\ waiting # NoSlot => beat[waiting].at # "idle"

(* While a request with a key is handled, the key is claimed and unused,   *)
(* and no other request with it is handled.                                *)
Holds(a)  == attempt[a] = "handling" /\ a[1].key # NoKey
KeyOnce ==
    \A a \in Attempts : Holds(a) =>
        /\ a[1].key \in reserved /\ a[1].key \notin spent
        /\ \A b \in Attempts : Holds(b) /\ b[1].key = a[1].key => b = a

(* A claimed key whose command was not forwarded belongs to a rival, and so*)
(* does that of a silent answer 202.                                       *)
Claimed ==
    /\ \A c \in Sendings : c.key \in reserved /\ accepted[c] = 0 => Rivals(c) # {}
    /\ SilentOnlyBehindRival

(* The rows the agent has or will get with the answer it waits for, those  *)
(* of them not dealt with by the handler, and the other rows to hand out.  *)
Out   == IF waiting = NoSlot THEN inbox ELSE beat[waiting].batch
Unmarked == IF waiting = NoSlot THEN {} ELSE beat[waiting].left
Again == Pending \ Unmarked
Of(S, c) == {k \in S : queue[k] = c}

(* A command can still be published once for every row that is out and     *)
(* once for every row that will be handed out again; that is covered.      *)
Budget ==
    \A c \in Sendings : delivered[c] + Cardinality(Of(Out, c)) + Cardinality(Of(Again, c))
                           <= accepted[c] + doubts[c]

QueuedAccepted == \A k \in DOMAIN queue : accepted[queue[k]] > 0

(* No row is marked later than a row behind it is published: up to a row   *)
(* that was published or is out, all are marked, flawed or about to be     *)
(* marked; and behind a row that is out none was published, unless it is   *)
(* flawed.                                                                 *)
SentSettled == \A j \in Rows : sent[j] > 0 => \A i \in 1..j : i \in acked \cup flawed
OutSettled  == \A k \in Out : \A i \in 1..k : i \in acked \cup flawed \cup Unmarked
OutFresh    == \A k \in Out : k \in flawed \/ \A j \in Rows : j >= k => sent[j] = 0

OrderInv == SentSettled /\ OutSettled /\ OutFresh

BaseInv == TypeOK /\ RoomLeft /\ Handed

-----------------------------------------------------------------------------
(* Sets of rows and of requests *)

(* The numbers of requests and of rows, and which rows there are.          *)
LEMMA RowFacts ==
    ASSUME TypeOK
    PROVE  /\ Cardinality(Attempts) \in Nat /\ Rows = 1..Cardinality(Attempts)
           /\ Len(queue) \in Nat /\ DOMAIN queue = 1..Len(queue)
           /\ DOMAIN queue \subseteq Rows /\ IsFiniteSet(DOMAIN queue)
           /\ Pending \subseteq DOMAIN queue /\ Pending = DOMAIN queue \ acked
           /\ \A k \in DOMAIN queue : queue[k] \in Sendings
<1>1. Cardinality(Attempts) \in Nat
  BY AttemptsAssumption, FS_CardinalityType
<1>2. /\ Len(queue) \in Nat /\ DOMAIN queue = 1..Len(queue)
      /\ Len(queue) <= Cardinality(Attempts)
      /\ \A k \in DOMAIN queue : queue[k] \in Sendings
  BY DEF TypeOK
<1>3. DOMAIN queue \subseteq Rows
  BY <1>1, <1>2 DEF Rows
<1>4. IsFiniteSet(DOMAIN queue)
  BY <1>2, FS_Interval
<1>5. Pending \subseteq DOMAIN queue /\ Pending = DOMAIN queue \ acked
  BY <1>2 DEF Pending
<1> QED BY <1>1, <1>2, <1>3, <1>4, <1>5 DEF Rows

(* A request of a command is a request.                                    *)
LEMMA AttemptOf ==
    ASSUME NEW c \in Sendings, NEW n \in 1..Tries[c]
    PROVE  <<c, n>> \in Attempts
  BY DEF Attempts

(* One request changes its state; the number of open requests follows.     *)
LEMMA AttemptSet ==
    ASSUME TypeOK, NEW a \in Attempts, NEW s \in AttemptStates, SetAttempt(a, s)
    PROVE  /\ attempt' \in [Attempts -> AttemptStates] /\ attempt'[a] = s
           /\ \A b \in Attempts \ {a} : attempt'[b] = attempt[b]
           /\ Cardinality(Open) \in Nat
           /\ a \in Open => Cardinality(Open') <= Cardinality(Open)
           /\ a \in Open /\ s \notin {"none", "handling"} =>
                 Cardinality(Open') = Cardinality(Open) - 1
<1>1. /\ attempt' \in [Attempts -> AttemptStates] /\ attempt'[a] = s
      /\ \A b \in Attempts \ {a} : attempt'[b] = attempt[b]
  BY DEF TypeOK, SetAttempt
<1>2. IsFiniteSet(Open)
  BY AttemptsAssumption, FS_Subset DEF Open
<1>3. Cardinality(Open) \in Nat
  BY <1>2, FS_CardinalityType
<1>4. ASSUME a \in Open PROVE Cardinality(Open') <= Cardinality(Open)
  <2>1. Open' \subseteq Open
    BY <1>1, <1>4 DEF Open
  <2> QED BY <1>2, <2>1, FS_Subset
<1>5. ASSUME a \in Open, s \notin {"none", "handling"}
      PROVE  Cardinality(Open') = Cardinality(Open) - 1
  <2>1. Open' = Open \ {a}
    BY <1>1, <1>5 DEF Open
  <2> QED BY <1>2, <1>5, <2>1, FS_RemoveElement
<1> QED BY <1>1, <1>3, <1>4, <1>5

(* One heartbeat request changes its state, or one row of its list is done.*)
LEMMA BeatSet ==
    ASSUME NEW f \in [Slots -> BeatType], NEW h \in Slots, NEW v \in BeatType
    PROVE  LET g == [f EXCEPT ![h] = v]
           IN g \in [Slots -> BeatType] /\ g[h] = v /\ \A i \in Slots \ {h} : g[i] = f[i]
  OBVIOUS

(* An answer arrives: only the stage of its request changes.               *)
LEMMA BeatArrives ==
    ASSUME NEW f \in [Slots -> BeatType], NEW h \in Slots
    PROVE  LET g == [f EXCEPT ![h].at = "arrived"]
           IN /\ g \in [Slots -> BeatType] /\ g[h].at = "arrived"
              /\ g[h].batch = f[h].batch /\ g[h].left = f[h].left
              /\ \A i \in Slots \ {h} : g[i] = f[i]
  BY DEF BeatType

(* MarkSent took one row off a request's list: the rest of the request     *)
(* stays.                                                                  *)
LEMMA BeatMarks ==
    ASSUME NEW f \in [Slots -> BeatType], NEW h \in Slots, NEW k
    PROVE  LET g == [f EXCEPT ![h].left = @ \ {k}]
           IN /\ g \in [Slots -> BeatType] /\ g[h].left = f[h].left \ {k}
              /\ g[h].batch = f[h].batch /\ g[h].at = f[h].at
              /\ \A i \in Slots \ {h} : g[i] = f[i]
<1>1. f[h].left \ {k} \in SUBSET Rows
  BY DEF BeatType
<1> DEFINE v == f[h].left \ {k}
<1>2. [f EXCEPT ![h].left = @ \ {k}] = [f EXCEPT ![h].left = v]
  OBVIOUS
<1> HIDE DEF v
<1>3. LET g == [f EXCEPT ![h].left = v]
      IN /\ g \in [Slots -> BeatType] /\ g[h].left = v
         /\ g[h].batch = f[h].batch /\ g[h].at = f[h].at
         /\ \A i \in Slots \ {h} : g[i] = f[i]
  BY <1>1 DEF BeatType, v
<1> QED BY <1>2, <1>3 DEF v

(* A heartbeat request that is not there.                                  *)
LEMMA IdleBeat == Idle \in BeatType /\ Idle.at = "idle" /\ Idle.batch = {} /\ Idle.left = {}
  BY DEF Idle, BeatType

-----------------------------------------------------------------------------
(* What the steps do *)

(* Fetch takes all pending rows into its list.                             *)
LEMMA FetchDoes ==
    ASSUME TypeOK, NEW h \in Slots, Fetch(h)
    PROVE  /\ beat[h].at = "arrived" /\ beat' \in [Slots -> BeatType]
           /\ beat'[h].at = "acking" /\ beat'[h].batch = Pending /\ beat'[h].left = Pending
           /\ \A i \in Slots \ {h} : beat'[i] = beat[i]
           /\ UNCHANGED <<keyVars, attempt, storeVars, agentVars, faults, seenVars>>
<1>1. Pending \in SUBSET Rows
  BY RowFacts
<1> DEFINE v == [at |-> "acking", batch |-> Pending, left |-> Pending]
<1>2. v \in BeatType /\ v.at = "acking" /\ v.batch = Pending /\ v.left = Pending
  BY <1>1 DEF BeatType
<1>3. /\ beat[h].at = "arrived" /\ beat' = [beat EXCEPT ![h] = v]
      /\ UNCHANGED <<keyVars, attempt, storeVars, agentVars, faults, seenVars>>
  BY DEF Fetch
<1> HIDE DEF v
<1>4. beat \in [Slots -> BeatType]
  BY DEF TypeOK
<1>5. /\ beat' \in [Slots -> BeatType] /\ beat'[h] = v
      /\ \A i \in Slots \ {h} : beat'[i] = beat[i]
  BY <1>2, <1>3, <1>4, BeatSet
<1> QED BY <1>2, <1>3, <1>5

(* Ack deals with one row of its list and leaves the others alone.         *)
LEMMA AckDoes ==
    ASSUME TypeOK, NEW h \in Slots, Ack(h)
    PROVE  \E k \in Oldest(beat[h].left) :
              /\ k \in beat[h].left /\ \A j \in beat[h].left : k <= j
              /\ beat[h].at = "acking" /\ beat' \in [Slots -> BeatType]
              /\ beat'[h].at = "acking" /\ beat'[h].batch = beat[h].batch
              /\ beat'[h].left = beat[h].left \ {k}
              /\ \A i \in Slots \ {h} : beat'[i] = beat[i]
              /\ \/ acked' = acked \cup {k} /\ UNCHANGED <<faults, doubts, flawed>>
                 \/ waiting # h /\ UNCHANGED <<acked, faults, doubts, flawed>>
                 \/ /\ waiting = h /\ Fault
                    /\ flawed' = flawed \cup {k}
                    /\ doubts' = [doubts EXCEPT ![queue[k]] = @ + 1]
                    /\ UNCHANGED acked
              /\ UNCHANGED <<keyVars, attempt, queue, agentVars, accepted, spent, delivered,
                             sent, refused>>
<1>1. PICK k \in Oldest(beat[h].left) :
         /\ beat' = [beat EXCEPT ![h].left = @ \ {k}]
         /\ \/ acked' = acked \cup {k} /\ UNCHANGED <<faults, doubts, flawed>>
            \/ waiting # h /\ UNCHANGED <<acked, faults, doubts, flawed>>
            \/ /\ waiting = h /\ Fault
               /\ flawed' = flawed \cup {k}
               /\ doubts' = [doubts EXCEPT ![queue[k]] = @ + 1]
               /\ UNCHANGED acked
  BY DEF Ack
<1>2. beat \in [Slots -> BeatType]
  BY DEF TypeOK
<1>3. /\ beat' \in [Slots -> BeatType] /\ beat'[h].left = beat[h].left \ {k}
      /\ beat'[h].batch = beat[h].batch /\ beat'[h].at = beat[h].at
      /\ \A i \in Slots \ {h} : beat'[i] = beat[i]
  BY <1>1, <1>2, BeatMarks
<1>4. /\ beat[h].at = "acking"
      /\ UNCHANGED <<keyVars, attempt, queue, agentVars, accepted, spent, delivered, sent,
                     refused>>
  BY DEF Ack
<1>5. k \in beat[h].left /\ \A j \in beat[h].left : k <= j
  BY <1>1 DEF Oldest
<1> QED BY <1>1, <1>3, <1>4, <1>5

(* Answer ends the request; the agent gets the rows if it still waits.     *)
LEMMA AnswerDoes ==
    ASSUME TypeOK, NEW h \in Slots, Answer(h)
    PROVE  /\ beat[h].at = "acking" /\ beat[h].left = {}
           /\ beat' \in [Slots -> BeatType]
           /\ beat'[h].at = "idle" /\ beat'[h].batch = {} /\ beat'[h].left = {}
           /\ \A i \in Slots \ {h} : beat'[i] = beat[i]
           /\ \/ /\ waiting = h /\ agent' = "relaying" /\ waiting' = NoSlot
                 /\ inbox' = beat[h].batch
              \/ waiting # h /\ UNCHANGED agentVars
           /\ UNCHANGED <<keyVars, attempt, storeVars, faults, seenVars>>
<1>1. beat \in [Slots -> BeatType]
  BY DEF TypeOK
<1>2. /\ beat[h].at = "acking" /\ beat[h].left = {} /\ beat' = [beat EXCEPT ![h] = Idle]
      /\ \/ /\ waiting = h /\ agent' = "relaying" /\ waiting' = NoSlot
            /\ inbox' = beat[h].batch
         \/ waiting # h /\ UNCHANGED agentVars
      /\ UNCHANGED <<keyVars, attempt, storeVars, faults, seenVars>>
  BY DEF Answer
<1>3. /\ beat' \in [Slots -> BeatType] /\ beat'[h] = Idle
      /\ \A i \in Slots \ {h} : beat'[i] = beat[i]
  BY <1>1, <1>2, IdleBeat, BeatSet
<1> QED BY <1>2, <1>3, IdleBeat

(* Heartbeat starts a request in a free slot.                              *)
LEMMA HeartbeatDoes ==
    ASSUME TypeOK, NEW h \in Slots, Heartbeat(h)
    PROVE  /\ agent = "idle" /\ beat[h].at = "idle" /\ beat' \in [Slots -> BeatType]
           /\ beat'[h].at = "arrived" /\ beat'[h].batch = beat[h].batch
           /\ beat'[h].left = beat[h].left
           /\ \A i \in Slots \ {h} : beat'[i] = beat[i]
           /\ agent' = "waiting" /\ waiting' = h
           /\ UNCHANGED <<keyVars, attempt, storeVars, inbox, faults, seenVars>>
<1>1. beat \in [Slots -> BeatType]
  BY DEF TypeOK
<1>2. beat' = [beat EXCEPT ![h].at = "arrived"]
  BY DEF Heartbeat
<1>3. /\ beat' \in [Slots -> BeatType] /\ beat'[h].at = "arrived"
      /\ beat'[h].batch = beat[h].batch /\ beat'[h].left = beat[h].left
      /\ \A i \in Slots \ {h} : beat'[i] = beat[i]
  BY <1>1, <1>2, BeatArrives
<1> QED BY <1>3 DEF Heartbeat

(* Relay deals with the oldest row of the answer.                          *)
LEMMA RelayDoes ==
    ASSUME Relay
    PROVE  \E k \in inbox :
              /\ agent = "relaying" /\ inbox' = inbox \ {k}
              /\ \A j \in inbox : k <= j
              /\ \/ /\ delivered' = [delivered EXCEPT ![queue[k]] = @ + 1]
                    /\ sent' = [sent EXCEPT ![k] = @ + 1]
                    /\ UNCHANGED <<faults, refused>>
                 \/ Fault /\ UNCHANGED <<delivered, sent, refused>>
                 \/ refused' = refused \cup {k} /\ UNCHANGED <<faults, delivered, sent>>
              /\ UNCHANGED <<keyVars, attempt, storeVars, beat, agent, waiting, accepted,
                             doubts, spent, flawed>>
  BY DEF Relay, Oldest

(* The control plane's crash ends every request and heartbeat.             *)
LEMMA CrashDoes ==
    ASSUME TypeOK, Crash
    PROVE  /\ Fault
           /\ attempt' \in [Attempts -> AttemptStates]
           /\ \A a \in Attempts : attempt'[a] = IF attempt[a] = "handling" THEN "lost"
                                                                     ELSE attempt[a]
           /\ beat' \in [Slots -> BeatType]
           /\ \A h \in Slots : /\ beat'[h].at = "idle" /\ beat'[h].batch = {}
                               /\ beat'[h].left = {}
           /\ agent' = (IF agent = "waiting" THEN "idle" ELSE agent) /\ waiting' = NoSlot
           /\ \/ UNCHANGED <<reserved, spent, acked>>
              \/ reserved' = {} /\ spent' = {} /\ acked' = DOMAIN queue
           /\ UNCHANGED <<expired, queue, inbox, accepted, doubts, delivered, sent, flawed,
                          refused>>
<1>1. /\ Fault
      /\ attempt' = [a \in Attempts |-> IF attempt[a] = "handling" THEN "lost" ELSE attempt[a]]
      /\ beat' = [h \in Slots |-> Idle]
      /\ agent' = (IF agent = "waiting" THEN "idle" ELSE agent) /\ waiting' = NoSlot
      /\ \/ UNCHANGED <<reserved, spent, acked>>
         \/ reserved' = {} /\ spent' = {} /\ acked' = DOMAIN queue
      /\ UNCHANGED <<expired, queue, inbox, accepted, doubts, delivered, sent, flawed, refused>>
  BY DEF Crash
<1>2. attempt' \in [Attempts -> AttemptStates]
  BY <1>1 DEF TypeOK, AttemptStates
<1>3. \A a \in Attempts : attempt'[a] = IF attempt[a] = "handling" THEN "lost" ELSE attempt[a]
  BY <1>1
<1>4. beat' \in [Slots -> BeatType] /\ \A h \in Slots : beat'[h] = Idle
  BY <1>1, IdleBeat
<1> QED BY <1>1, <1>2, <1>3, <1>4, IdleBeat

-----------------------------------------------------------------------------
(* Types *)

(* The type of everything the heartbeats and the agent do not touch stays, *)
(* and the room in the queue, while queue, requests and counters rest.     *)
LEMMA QuietType ==
    ASSUME BaseInv, UNCHANGED <<keyVars, attempt, queue, accepted, spent>>,
           acked' \subseteq DOMAIN queue, beat' \in [Slots -> BeatType],
           agent' \in {"idle", "waiting", "relaying"}, waiting' \in Slots \cup {NoSlot},
           inbox' \subseteq DOMAIN queue, faults' \in 0..MaxFaults,
           doubts' \in [Sendings -> Nat], delivered' \in [Sendings -> Nat],
           sent' \in [Rows -> Nat],
           flawed' \subseteq DOMAIN queue, refused' \subseteq DOMAIN queue
    PROVE  TypeOK' /\ RoomLeft'
<1>1. DOMAIN queue \subseteq Rows
  BY RowFacts DEF BaseInv
<1>2. TypeOK'
  BY <1>1 DEF BaseInv, TypeOK, keyVars
<1>3. RoomLeft'
  BY DEF BaseInv, RoomLeft, Open
<1> QED BY <1>2, <1>3

(* A row more.                                                             *)
LEMMA RowMore ==
    ASSUME NEW S, NEW q \in Seq(S), NEW x \in S
    PROVE  /\ Append(q, x) \in Seq(S) /\ Len(Append(q, x)) = Len(q) + 1
           /\ Append(q, x)[Len(q) + 1] = x /\ \A k \in 1..Len(q) : Append(q, x)[k] = q[k]
           /\ DOMAIN q = 1..Len(q) /\ DOMAIN Append(q, x) = DOMAIN q \cup {Len(q) + 1}
  OBVIOUS

(* A step of one request: the queue grows only when an open request ends.  *)
LEMMA RequestType ==
    ASSUME BaseInv, NEW c \in Sendings, NEW n \in 1..Tries[c], NEW s \in AttemptStates,
           <<c, n>> \in Open, SetAttempt(<<c, n>>, s),
           queue' \in Seq(Sendings),
           \/ Len(queue') = Len(queue)
           \/ Len(queue') = Len(queue) + 1 /\ s \notin {"none", "handling"},
           UNCHANGED <<expired, acked, beat, agentVars, faults, doubts, sent, flawed, refused>>,
           reserved' \subseteq Keys, spent' \subseteq reserved',
           accepted' \in [Sendings -> Nat], delivered' \in [Sendings -> Nat]
    PROVE  BaseInv'
<1> USE DEF BaseInv
<1>1. <<c, n>> \in Attempts
  BY AttemptOf
<1>2. /\ attempt' \in [Attempts -> AttemptStates]
      /\ Cardinality(Open) \in Nat /\ Cardinality(Open') <= Cardinality(Open)
      /\ s \notin {"none", "handling"} => Cardinality(Open') = Cardinality(Open) - 1
  BY <1>1, AttemptSet
<1>3. Cardinality(Attempts) \in Nat /\ Len(queue) \in Nat /\ DOMAIN queue = 1..Len(queue)
  BY RowFacts
<1>4. Len(queue') \in Nat /\ DOMAIN queue' = 1..Len(queue') /\ Len(queue) <= Len(queue')
  BY <1>3
<1>5. IsFiniteSet(Open') /\ Cardinality(Open') \in Nat
  <2>1. Open' \subseteq Attempts
    BY DEF Open
  <2>2. IsFiniteSet(Open')
    BY <2>1, AttemptsAssumption, FS_Subset
  <2> QED BY <2>2, FS_CardinalityType
<1>6. Len(queue) + Cardinality(Open) <= Cardinality(Attempts)
  BY DEF RoomLeft
<1>7. \A i, j, o, p, N \in Nat : i + o <= N /\ p <= o /\ (j = i \/ (j = i + 1 /\ p = o - 1))
                                => j + p <= N /\ j <= N
  OBVIOUS
<1>8. /\ Len(queue') + Cardinality(Open') <= Cardinality(Attempts)
      /\ Len(queue') <= Cardinality(Attempts)
  BY <1>2, <1>3, <1>4, <1>5, <1>6, <1>7
<1>8b. RoomLeft' /\ DOMAIN queue \subseteq DOMAIN queue'
  BY ONLY <1>3, <1>4, <1>8 DEF RoomLeft
<1>9. TypeOK'
  BY <1>2, <1>4, <1>8, <1>8b DEF TypeOK, agentVars
<1>10. Handed'
  BY <1>8b DEF Handed, agentVars
<1> QED BY <1>8b, <1>9, <1>10

(* One more of something.                                                  *)
LEMMA OneMore ==
    ASSUME NEW S, NEW f \in [S -> Nat], NEW x \in S
    PROVE  LET g == [f EXCEPT ![x] = @ + 1]
           IN /\ g \in [S -> Nat] /\ g[x] = f[x] + 1
              /\ \A y \in S \ {x} : g[y] = f[y]
  OBVIOUS

(* A fault more is within the bound.                                       *)
LEMMA FaultType ==
    ASSUME TypeOK, Fault
    PROVE  faults' \in 0..MaxFaults
  BY RelayBounds DEF TypeOK, Fault

(* Every step keeps the types, the room in the queue and who holds rows.   *)
LEMMA BaseStep ==
    ASSUME BaseInv, KeyOnce, [Next]_vars
    PROVE  BaseInv'
<1> USE DEF BaseInv
<1>0. /\ NoSlot \notin Slots /\ DOMAIN queue \subseteq Rows
      /\ beat \in [Slots -> BeatType] /\ acked \subseteq DOMAIN queue
      /\ inbox \subseteq DOMAIN queue /\ waiting \in Slots \cup {NoSlot}
      /\ Pending \subseteq DOMAIN queue /\ \A k \in DOMAIN queue : queue[k] \in Sendings
  BY SlotsAssumption, RowFacts DEF TypeOK, Handed
<1>1. ASSUME NEW c \in Sendings, NEW n \in 1..Tries[c], Reserve(c, n) PROVE BaseInv'
  <2>1. <<c, n>> \in Open
    BY <1>1, AttemptOf DEF Reserve, Open
  <2>2. /\ SetAttempt(<<c, n>>, "handling") /\ "handling" \in AttemptStates
        /\ reserved' \subseteq Keys /\ spent' \subseteq reserved'
        /\ UNCHANGED <<expired, acked, beat, agentVars, faults, doubts, sent, flawed, refused>>
        /\ UNCHANGED <<accepted, delivered, queue>>
    BY <1>1 DEF Reserve, TypeOK, Keys, AttemptStates, storeVars, seenVars
  <2>3. /\ queue' \in Seq(Sendings) /\ Len(queue') = Len(queue)
        /\ accepted' \in [Sendings -> Nat] /\ delivered' \in [Sendings -> Nat]
    BY <2>2 DEF TypeOK
  <2> QED BY <2>1, <2>2, <2>3, RequestType
<1>2. ASSUME NEW c \in Sendings, NEW n \in 1..Tries[c], Duplicate(c, n) PROVE BaseInv'
  <2>1. <<c, n>> \in Open
    BY <1>2, AttemptOf DEF Duplicate, Open
  <2>2. /\ SetAttempt(<<c, n>>, "accepted") /\ "accepted" \in AttemptStates
        /\ reserved' \subseteq Keys /\ spent' \subseteq reserved'
        /\ UNCHANGED <<expired, acked, beat, agentVars, faults, doubts, sent, flawed, refused>>
        /\ UNCHANGED <<accepted, delivered, queue>>
    BY <1>2 DEF Duplicate, TypeOK, AttemptStates, storeVars, seenVars, keyVars
  <2>3. /\ queue' \in Seq(Sendings) /\ Len(queue') = Len(queue)
        /\ accepted' \in [Sendings -> Nat] /\ delivered' \in [Sendings -> Nat]
    BY <2>2 DEF TypeOK
  <2> QED BY <2>1, <2>2, <2>3, RequestType
<1>3. ASSUME NEW c \in Sendings, NEW n \in 1..Tries[c], Refuse(c, n) PROVE BaseInv'
  <2>1. <<c, n>> \in Open
    BY <1>3, AttemptOf DEF Refuse, Open
  <2>2. PICK s \in {"unclaimed", "refused"} : SetAttempt(<<c, n>>, s) /\ s \in AttemptStates
    BY <1>3 DEF Refuse, AttemptStates
  <2>3. /\ reserved' \subseteq Keys /\ spent' \subseteq reserved'
        /\ UNCHANGED <<expired, acked, beat, agentVars, faults, doubts, sent, flawed, refused>>
        /\ UNCHANGED <<accepted, delivered, queue>>
    BY <1>3 DEF Refuse, TypeOK, storeVars, seenVars, keyVars
  <2>4. /\ queue' \in Seq(Sendings) /\ Len(queue') = Len(queue)
        /\ accepted' \in [Sendings -> Nat] /\ delivered' \in [Sendings -> Nat]
    BY <2>3 DEF TypeOK
  <2> QED BY <2>1, <2>2, <2>3, <2>4, RequestType
<1>4. ASSUME NEW c \in Sendings, NEW n \in 1..Tries[c], Forward(c, n) PROVE BaseInv'
  <2>1. <<c, n>> \in Open
    BY <1>4, AttemptOf DEF Forward, Open
  <2>2. /\ SetAttempt(<<c, n>>, "accepted") /\ "accepted" \in AttemptStates
        /\ UNCHANGED <<expired, acked, beat, agentVars, faults, doubts, sent, flawed, refused>>
        /\ UNCHANGED reserved
        /\ \/ queue' = Append(queue, c) /\ delivered' = delivered
           \/ queue' = queue /\ delivered' = [delivered EXCEPT ![c] = @ + 1]
        /\ accepted' = [accepted EXCEPT ![c] = @ + 1]
        /\ spent' = spent \cup ({c.key} \ {NoKey})
    BY <1>4 DEF Forward, AttemptStates, keyVars
  <2>3. reserved' \subseteq Keys /\ spent' \subseteq reserved'
    <3>1. c.key # NoKey => c.key \in reserved
      BY <1>4, AttemptOf DEF Forward, KeyOnce, Holds
    <3> QED BY <2>2, <3>1 DEF TypeOK
  <2>4. queue' \in Seq(Sendings) /\ Len(queue') \in {Len(queue), Len(queue) + 1}
    <3>1. queue \in Seq(Sendings) /\ c \in Sendings
      BY DEF TypeOK
    <3>2. queue' = Append(queue, c) \/ queue' = queue
      BY <2>2
    <3> QED BY ONLY <3>1, <3>2, RowMore
  <2>5. accepted' \in [Sendings -> Nat]
    BY <2>2, OneMore DEF TypeOK
  <2>6. delivered' \in [Sendings -> Nat]
    <3>1. delivered' = delivered \/ delivered' = [delivered EXCEPT ![c] = @ + 1]
      BY <2>2
    <3>2. delivered \in [Sendings -> Nat] /\ c \in Sendings
      BY DEF TypeOK
    <3> QED BY ONLY <3>1, <3>2, OneMore
  <2>7. "accepted" \notin {"none", "handling"}
    OBVIOUS
  <2> QED BY <2>1, <2>2, <2>3, <2>4, <2>5, <2>6, <2>7, RequestType
<1>5. ASSUME NEW key \in Keys, Cleanup(key) PROVE BaseInv'
  <2>0. expired' \in 0..MaxExpired
    BY <1>5, RelayBounds DEF Cleanup, TypeOK
  <2>1. TypeOK'
    BY <1>5, <2>0 DEF Cleanup, TypeOK, storeVars, agentVars
  <2>2. RoomLeft' /\ Handed'
    BY <1>5 DEF Cleanup, RoomLeft, Open, Handed, storeVars, agentVars
  <2> QED BY <2>1, <2>2
<1>6. ASSUME NEW h \in Slots, Fetch(h) PROVE BaseInv'
  <2>1. /\ beat[h].at = "arrived" /\ beat' \in [Slots -> BeatType]
        /\ beat'[h].at = "acking" /\ beat'[h].batch = Pending /\ beat'[h].left = Pending
        /\ \A i \in Slots \ {h} : beat'[i] = beat[i]
        /\ UNCHANGED <<keyVars, attempt, storeVars, agentVars, faults, seenVars>>
    BY <1>6, FetchDoes
  <2>2. TypeOK' /\ RoomLeft'
    BY <1>0, <2>1, QuietType DEF TypeOK, storeVars, agentVars, seenVars
  <2>3. Handed'
    BY <1>0, <2>1 DEF Handed, storeVars, agentVars
  <2> QED BY <2>2, <2>3
<1>7. ASSUME NEW h \in Slots, Ack(h) PROVE BaseInv'
  <2>1. PICK k \in Oldest(beat[h].left) :
              /\ k \in beat[h].left
              /\ beat[h].at = "acking" /\ beat' \in [Slots -> BeatType]
              /\ beat'[h].at = "acking" /\ beat'[h].batch = beat[h].batch
              /\ beat'[h].left = beat[h].left \ {k}
              /\ \A i \in Slots \ {h} : beat'[i] = beat[i]
              /\ \/ acked' = acked \cup {k} /\ UNCHANGED <<faults, doubts, flawed>>
                 \/ waiting # h /\ UNCHANGED <<acked, faults, doubts, flawed>>
                 \/ /\ waiting = h /\ Fault
                    /\ flawed' = flawed \cup {k}
                    /\ doubts' = [doubts EXCEPT ![queue[k]] = @ + 1]
                    /\ UNCHANGED acked
              /\ UNCHANGED <<keyVars, attempt, queue, agentVars, accepted, spent, delivered,
                             sent, refused>>
    BY <1>7, AckDoes
  <2>2. k \in DOMAIN queue /\ queue[k] \in Sendings
    BY <1>0, <2>1 DEF Handed
  <2>3. /\ acked' \subseteq DOMAIN queue /\ flawed' \subseteq DOMAIN queue
        /\ faults' \in 0..MaxFaults
    BY <2>1, <2>2, FaultType DEF TypeOK
  <2>4. doubts' \in [Sendings -> Nat]
    <3>1. doubts \in [Sendings -> Nat]
      BY DEF TypeOK
    <3>2. doubts' = doubts \/ doubts' = [doubts EXCEPT ![queue[k]] = @ + 1]
      BY ONLY <2>1
    <3> QED BY ONLY <2>2, <3>1, <3>2, OneMore
  <2>5. TypeOK' /\ RoomLeft'
    <3>1. UNCHANGED <<keyVars, attempt, queue, accepted, spent>>
      BY <2>1
    <3>2. /\ agent' \in {"idle", "waiting", "relaying"} /\ waiting' \in Slots \cup {NoSlot}
          /\ inbox' \subseteq DOMAIN queue
      BY <1>0, <2>1 DEF TypeOK, Handed, agentVars
    <3>3. /\ delivered' \in [Sendings -> Nat] /\ sent' \in [Rows -> Nat]
          /\ refused' \subseteq DOMAIN queue
      BY <1>0, <2>1 DEF TypeOK
    <3>4. beat' \in [Slots -> BeatType]
      BY <2>1
    <3> QED BY ONLY BaseInv, <2>3, <2>4, <3>1, <3>2, <3>3, <3>4, QuietType
  <2>6. Handed'
    BY <1>0, <2>1 DEF Handed, agentVars
  <2> QED BY <2>5, <2>6
<1>8. ASSUME NEW h \in Slots, Answer(h) PROVE BaseInv'
  <2>1. /\ beat[h].at = "acking" /\ beat[h].left = {}
        /\ beat' \in [Slots -> BeatType]
        /\ beat'[h].at = "idle" /\ beat'[h].batch = {} /\ beat'[h].left = {}
        /\ \A i \in Slots \ {h} : beat'[i] = beat[i]
        /\ \/ /\ waiting = h /\ agent' = "relaying" /\ waiting' = NoSlot
              /\ inbox' = beat[h].batch
           \/ waiting # h /\ UNCHANGED agentVars
        /\ UNCHANGED <<keyVars, attempt, storeVars, faults, seenVars>>
    BY <1>8, AnswerDoes
  <2>2. /\ agent' \in {"idle", "waiting", "relaying"} /\ waiting' \in Slots \cup {NoSlot}
        /\ inbox' \subseteq DOMAIN queue
    BY <1>0, <2>1 DEF TypeOK, Handed, agentVars
  <2>3. TypeOK' /\ RoomLeft'
    BY <1>0, <2>1, <2>2, QuietType DEF TypeOK, storeVars, seenVars
  <2>4. Handed'
    BY <1>0, <2>1, <2>2 DEF Handed, TypeOK, storeVars, agentVars
  <2> QED BY <2>3, <2>4
<1>9. ASSUME NEW h \in Slots, Heartbeat(h) PROVE BaseInv'
  <2>1. /\ agent = "idle" /\ beat[h].at = "idle" /\ beat' \in [Slots -> BeatType]
        /\ beat'[h].at = "arrived" /\ beat'[h].batch = beat[h].batch
        /\ beat'[h].left = beat[h].left
        /\ \A i \in Slots \ {h} : beat'[i] = beat[i]
        /\ agent' = "waiting" /\ waiting' = h
        /\ UNCHANGED <<keyVars, attempt, storeVars, inbox, faults, seenVars>>
    BY <1>9, HeartbeatDoes
  <2>2. TypeOK' /\ RoomLeft'
    BY <1>0, <2>1, QuietType DEF TypeOK, storeVars, seenVars
  <2>3. Handed'
    BY <1>0, <2>1 DEF Handed, storeVars
  <2> QED BY <2>2, <2>3
<1>10. ASSUME Relay PROVE BaseInv'
  <2>1. PICK k \in inbox :
              /\ agent = "relaying" /\ inbox' = inbox \ {k}
              /\ \/ /\ delivered' = [delivered EXCEPT ![queue[k]] = @ + 1]
                    /\ sent' = [sent EXCEPT ![k] = @ + 1]
                    /\ UNCHANGED <<faults, refused>>
                 \/ Fault /\ UNCHANGED <<delivered, sent, refused>>
                 \/ refused' = refused \cup {k} /\ UNCHANGED <<faults, delivered, sent>>
              /\ UNCHANGED <<keyVars, attempt, storeVars, beat, agent, waiting, accepted,
                             doubts, spent, flawed>>
    BY <1>10, RelayDoes
  <2>2. k \in DOMAIN queue /\ queue[k] \in Sendings /\ k \in Rows
    BY <1>0, <2>1
  <2>3. faults' \in 0..MaxFaults /\ refused' \subseteq DOMAIN queue
    BY <2>1, <2>2, FaultType DEF TypeOK
  <2>4. delivered' \in [Sendings -> Nat]
    <3>1. \/ delivered' = [delivered EXCEPT ![queue[k]] = @ + 1]
          \/ delivered' = delivered
      BY <2>1
    <3>2. delivered \in [Sendings -> Nat]
      BY DEF TypeOK
    <3> QED BY ONLY <3>1, <3>2, <2>2, OneMore
  <2>4a. sent' \in [Rows -> Nat]
    <3>1. \/ sent' = [sent EXCEPT ![k] = @ + 1]
          \/ sent' = sent
      BY <2>1
    <3>2. sent \in [Rows -> Nat]
      BY DEF TypeOK
    <3> QED BY ONLY <3>1, <3>2, <2>2, OneMore
  <2>5. TypeOK' /\ RoomLeft'
    BY <1>0, <2>1, <2>3, <2>4, <2>4a, QuietType DEF TypeOK, storeVars
  <2>6. Handed'
    BY <1>0, <2>1 DEF Handed, storeVars
  <2> QED BY <2>5, <2>6
<1>11. ASSUME SyncDone \/ GiveUp \/ AgentCrash PROVE BaseInv'
  <2>1. /\ agent' = "idle" /\ (inbox' = inbox \/ inbox' = {}) /\ UNCHANGED <<queue, beat>>
        /\ faults' \in 0..MaxFaults /\ waiting' \in {waiting, NoSlot}
        /\ UNCHANGED <<keyVars, attempt, storeVars, seenVars>>
    BY <1>11, FaultType DEF SyncDone, GiveUp, AgentCrash, TypeOK, storeVars
  <2>2. TypeOK' /\ RoomLeft'
    BY <1>0, <2>1, QuietType DEF TypeOK, storeVars, seenVars
  <2>3. inbox' = {} /\ waiting' = NoSlot
    BY <1>11 DEF SyncDone, GiveUp, AgentCrash, Handed
  <2>4. Handed'
    BY <1>0, <2>1, <2>3 DEF Handed
  <2> QED BY <2>2, <2>4
<1>12. ASSUME Crash PROVE BaseInv'
  <2>1. /\ Fault
        /\ attempt' \in [Attempts -> AttemptStates]
        /\ \A a \in Attempts : attempt'[a] = IF attempt[a] = "handling" THEN "lost"
                                                                     ELSE attempt[a]
        /\ beat' \in [Slots -> BeatType]
        /\ \A h \in Slots : beat'[h].at = "idle" /\ beat'[h].batch = {} /\ beat'[h].left = {}
        /\ agent' = (IF agent = "waiting" THEN "idle" ELSE agent) /\ waiting' = NoSlot
        /\ \/ UNCHANGED <<reserved, spent, acked>>
           \/ reserved' = {} /\ spent' = {} /\ acked' = DOMAIN queue
        /\ UNCHANGED <<expired, queue, inbox, accepted, doubts, delivered, sent, flawed,
                       refused>>
    BY <1>12, CrashDoes
  <2>2. faults' \in 0..MaxFaults
    BY <2>1, FaultType
  <2>3. TypeOK'
    BY <2>1, <2>2 DEF TypeOK
  <2>4. Open' \subseteq Open /\ IsFiniteSet(Open)
    <3>1. Open' \subseteq Open
      BY <2>1 DEF Open
    <3>2. Open \subseteq Attempts
      BY DEF Open
    <3> QED BY <3>1, <3>2, AttemptsAssumption, FS_Subset
  <2>5. /\ Cardinality(Open') <= Cardinality(Open) /\ Cardinality(Open) \in Nat
        /\ Cardinality(Open') \in Nat
    BY <2>4, FS_Subset, FS_CardinalityType
  <2>6. Cardinality(Attempts) \in Nat /\ Len(queue) \in Nat
    BY RowFacts
  <2>7. RoomLeft'
    BY <2>1, <2>5, <2>6 DEF RoomLeft
  <2>8. Handed'
    BY <2>1, <1>0 DEF Handed, TypeOK
  <2> QED BY <2>3, <2>7, <2>8
<1>13. CASE UNCHANGED vars
  BY <1>13 DEF vars, keyVars, storeVars, agentVars, seenVars, TypeOK, RoomLeft, Open, Handed
<1> QED BY <1>1, <1>2, <1>3, <1>4, <1>5, <1>6, <1>7, <1>8, <1>9, <1>10, <1>11, <1>12, <1>13
       DEF Next, Api, Server, Agent, Failure

-----------------------------------------------------------------------------
(* Keys *)

(* A request is one of a command, which carries the key.                   *)
LEMMA AttemptParts ==
    ASSUME NEW a \in Attempts
    PROVE  a[1] \in Sendings /\ (a[1].key # NoKey => a[1].key \in Keys)
<1>1. a[1] \in Sendings
  BY DEF Attempts
<1> QED BY <1>1 DEF Keys

(* Steps of heartbeats, agent and answers that fail leave requests, keys   *)
(* and the numbers of accepted commands alone.                             *)
LEMMA KeysRest ==
    ASSUME \/ \E h \in Slots : Fetch(h) \/ Ack(h) \/ Answer(h) \/ Heartbeat(h)
           \/ Relay \/ SyncDone \/ GiveUp \/ AgentCrash \/ UNCHANGED vars
    PROVE  UNCHANGED <<reserved, attempt, spent, accepted, queue>>
  BY DEF Fetch, Ack, Answer, Heartbeat, Relay, SyncDone, GiveUp, AgentCrash, vars, keyVars,
         storeVars, seenVars

(* A request claims its key.                                               *)
LEMMA ReserveDoes ==
    ASSUME BaseInv, NEW c \in Sendings, NEW n \in 1..Tries[c], Reserve(c, n)
    PROVE  /\ attempt[<<c, n>>] = "none" /\ attempt'[<<c, n>>] = "handling"
           /\ \A b \in Attempts \ {<<c, n>>} : attempt'[b] = attempt[b]
           /\ c.key \notin reserved /\ reserved' = reserved \cup ({c.key} \ {NoKey})
           /\ spent' = spent /\ accepted' = accepted
  BY AttemptOf, AttemptSet DEF Reserve, seenVars, AttemptStates, BaseInv

(* A request ends without being forwarded.                                 *)
LEMMA EndDoes ==
    ASSUME BaseInv, NEW c \in Sendings, NEW n \in 1..Tries[c], Duplicate(c, n) \/ Refuse(c, n)
    PROVE  /\ \/ /\ attempt[<<c, n>>] = "none" /\ attempt'[<<c, n>>] = "accepted"
                 /\ c.key \in reserved
              \/ attempt[<<c, n>>] = "none" /\ attempt'[<<c, n>>] = "unclaimed"
              \/ attempt[<<c, n>>] = "handling" /\ attempt'[<<c, n>>] = "refused"
           /\ \A b \in Attempts \ {<<c, n>>} : attempt'[b] = attempt[b]
           /\ UNCHANGED <<reserved, spent, accepted>>
  BY AttemptOf, AttemptSet DEF Duplicate, Refuse, keyVars, seenVars, AttemptStates, BaseInv

(* A request is forwarded.                                                 *)
LEMMA ForwardDoes ==
    ASSUME BaseInv, NEW c \in Sendings, NEW n \in 1..Tries[c], Forward(c, n)
    PROVE  /\ attempt[<<c, n>>] = "handling" /\ attempt'[<<c, n>>] = "accepted"
           /\ \A b \in Attempts \ {<<c, n>>} : attempt'[b] = attempt[b]
           /\ reserved' = reserved /\ spent' = spent \cup ({c.key} \ {NoKey})
           /\ accepted[c] \in Nat /\ accepted'[c] = accepted[c] + 1
           /\ \A d \in Sendings \ {c} : accepted'[d] = accepted[d]
<1>1. <<c, n>> \in Attempts /\ accepted \in [Sendings -> Nat] /\ "accepted" \in AttemptStates
  BY AttemptOf DEF BaseInv, TypeOK, AttemptStates
<1>2. /\ attempt'[<<c, n>>] = "accepted"
      /\ \A b \in Attempts \ {<<c, n>>} : attempt'[b] = attempt[b]
  BY <1>1, AttemptSet DEF Forward, BaseInv
<1>3. accepted' = [accepted EXCEPT ![c] = @ + 1]
  BY DEF Forward
<1>4. /\ accepted[c] \in Nat /\ accepted'[c] = accepted[c] + 1
      /\ \A d \in Sendings \ {c} : accepted'[d] = accepted[d]
  BY <1>1, <1>3
<1> QED BY <1>2, <1>4 DEF Forward, keyVars

(* Every step keeps a key with the one request that is handled with it.    *)
LEMMA KeyOnceStep ==
    ASSUME BaseInv, KeyOnce, [Next]_vars
    PROVE  KeyOnce'
<1> DEFINE Once(a) == /\ a[1].key \in reserved' /\ a[1].key \notin spent'
                      /\ \A b \in Attempts : Holds(b)' /\ b[1].key = a[1].key => b = a
<1>0. SUFFICES ASSUME NEW a \in Attempts, Holds(a)'
               PROVE  Once(a)
  BY DEF KeyOnce
<1>t. spent \subseteq reserved
  BY DEF BaseInv, TypeOK
<1>k. /\ attempt'[a] = "handling" /\ a[1].key # NoKey
      /\ \A b \in Attempts : Holds(b)' <=> attempt'[b] = "handling" /\ b[1].key # NoKey
  BY <1>0 DEF Holds
<1>1. ASSUME NEW c \in Sendings, NEW n \in 1..Tries[c], Reserve(c, n)
      PROVE  Once(a)
  <2>1. /\ attempt'[<<c, n>>] = "handling"
        /\ \A b \in Attempts \ {<<c, n>>} : attempt'[b] = attempt[b]
        /\ c.key \notin reserved /\ reserved' = reserved \cup ({c.key} \ {NoKey})
        /\ spent' = spent /\ <<c, n>> \in Attempts /\ <<c, n>>[1] = c
    BY <1>1, ReserveDoes, AttemptOf
  <2>2. CASE a = <<c, n>>
    <3>1. a[1].key \in reserved' /\ a[1].key \notin spent'
      BY <1>t, <1>k, <2>1, <2>2
    <3>2. ASSUME NEW b \in Attempts, Holds(b)', b[1].key = c.key, b # a PROVE FALSE
      <4>1. Holds(b)
        BY <2>1, <2>2, <3>2, <1>k DEF Holds
      <4> QED BY <2>1, <3>2, <4>1 DEF KeyOnce
    <3> QED BY <2>1, <2>2, <3>1, <3>2
  <2>3. CASE a # <<c, n>>
    <3>1. Holds(a) /\ a[1].key \in reserved /\ a[1].key \notin spent
      BY <1>k, <2>1, <2>3 DEF Holds, KeyOnce
    <3>2. ASSUME NEW b \in Attempts, Holds(b)', b[1].key = a[1].key PROVE b = a
      <4>1. b # <<c, n>>
        BY <2>1, <3>1, <3>2
      <4>2. Holds(b)
        BY <2>1, <3>2, <4>1, <1>k DEF Holds
      <4> QED BY <3>1, <3>2, <4>2 DEF KeyOnce
    <3> QED BY <2>1, <3>1, <3>2
  <2> QED BY <2>2, <2>3
<1>2. ASSUME NEW c \in Sendings, NEW n \in 1..Tries[c], Duplicate(c, n) \/ Refuse(c, n)
      PROVE  Once(a)
  <2>1. /\ attempt'[<<c, n>>] # "handling" /\ reserved' = reserved /\ spent' = spent
        /\ \A b \in Attempts \ {<<c, n>>} : attempt'[b] = attempt[b]
    BY <1>2, EndDoes
  <2>2. \A b \in Attempts : Holds(b)' => Holds(b)
    BY <1>k, <2>1 DEF Holds
  <2> QED BY <1>0, <2>1, <2>2 DEF KeyOnce
<1>3. ASSUME NEW c \in Sendings, NEW n \in 1..Tries[c], Forward(c, n)
      PROVE  Once(a)
  <2>1. /\ attempt[<<c, n>>] = "handling" /\ attempt'[<<c, n>>] = "accepted"
        /\ \A b \in Attempts \ {<<c, n>>} : attempt'[b] = attempt[b]
        /\ reserved' = reserved /\ spent' = spent \cup ({c.key} \ {NoKey})
        /\ <<c, n>> \in Attempts /\ <<c, n>>[1] = c
    BY <1>3, ForwardDoes, AttemptOf
  <2>2. \A b \in Attempts : Holds(b)' => Holds(b)
    BY <1>k, <2>1 DEF Holds
  <2>3. c.key # a[1].key
    <3>1. a # <<c, n>> /\ Holds(a)
      BY <1>0, <1>k, <2>1, <2>2
    <3>2. c.key = a[1].key => Holds(<<c, n>>)
      BY <1>k, <2>1 DEF Holds
    <3> QED BY <2>1, <3>1, <3>2 DEF KeyOnce
  <2> QED BY <1>0, <2>1, <2>2, <2>3 DEF KeyOnce
<1>4. ASSUME NEW key \in Keys, Cleanup(key)
      PROVE  Once(a)
  <2>1. /\ attempt' = attempt /\ reserved' = reserved \ {key} /\ spent' = spent \ {key}
        /\ a[1].key # key
    BY <1>4, <1>k DEF Cleanup
  <2>2. \A b \in Attempts : Holds(b)' <=> Holds(b)
    BY <2>1 DEF Holds
  <2> QED BY <1>0, <2>1, <2>2 DEF KeyOnce
<1>5. ASSUME Crash
      PROVE  Once(a)
  BY <1>5, <1>k, CrashDoes DEF BaseInv
<1>6. ASSUME UNCHANGED <<reserved, attempt, spent>>
      PROVE  Once(a)
  <2>1. \A b \in Attempts : Holds(b)' <=> Holds(b)
    BY <1>6 DEF Holds
  <2> QED BY <1>0, <1>6, <2>1 DEF KeyOnce
<1> QED BY <1>1, <1>2, <1>3, <1>4, <1>5, <1>6, KeysRest DEF Next, Api, Server, Agent, Failure

(* What a request that has its key may become, and what may be accepted.   *)
LEMMA RequestsGoOn ==
    ASSUME BaseInv, [Next]_vars
    PROVE  /\ \A b \in Attempts :
                 \/ attempt'[b] = attempt[b] \/ attempt[b] = "none"
                 \/ attempt[b] = "handling" /\ attempt'[b] \in {"refused", "lost"}
                 \/ /\ attempt[b] = "handling" /\ attempt'[b] = "accepted"
                    /\ accepted'[b[1]] > 0
           /\ \A d \in Sendings : accepted[d] > 0 => accepted'[d] > 0
<1> DEFINE GoOn == /\ \A b \in Attempts :
                         \/ attempt'[b] = attempt[b] \/ attempt[b] = "none"
                         \/ attempt[b] = "handling" /\ attempt'[b] \in {"refused", "lost"}
                         \/ /\ attempt[b] = "handling" /\ attempt'[b] = "accepted"
                            /\ accepted'[b[1]] > 0
                   /\ \A d \in Sendings : accepted[d] > 0 => accepted'[d] > 0
<1>t. \A d \in Sendings : accepted[d] \in Nat
  BY DEF BaseInv, TypeOK
<1>1. ASSUME NEW c \in Sendings, NEW n \in 1..Tries[c], Reserve(c, n) PROVE GoOn
  <2>1. /\ attempt[<<c, n>>] = "none" /\ accepted' = accepted
        /\ \A b \in Attempts \ {<<c, n>>} : attempt'[b] = attempt[b]
    BY <1>1, ReserveDoes
  <2> QED BY <2>1
<1>2. ASSUME NEW c \in Sendings, NEW n \in 1..Tries[c], Duplicate(c, n) \/ Refuse(c, n)
      PROVE  GoOn
  <2>1. /\ \/ attempt[<<c, n>>] = "none"
           \/ attempt[<<c, n>>] = "handling" /\ attempt'[<<c, n>>] = "refused"
        /\ \A b \in Attempts \ {<<c, n>>} : attempt'[b] = attempt[b]
        /\ accepted' = accepted
    BY <1>2, EndDoes
  <2> QED BY <2>1
<1>3. ASSUME NEW c \in Sendings, NEW n \in 1..Tries[c], Forward(c, n) PROVE GoOn
  <2>1. /\ attempt[<<c, n>>] = "handling" /\ attempt'[<<c, n>>] = "accepted"
        /\ \A b \in Attempts \ {<<c, n>>} : attempt'[b] = attempt[b]
        /\ accepted[c] \in Nat /\ accepted'[c] = accepted[c] + 1
        /\ \A d \in Sendings \ {c} : accepted'[d] = accepted[d]
    BY <1>3, ForwardDoes
  <2>2. <<c, n>>[1] = c /\ accepted'[c] > 0
    BY <2>1
  <2>3. \A d \in Sendings : accepted[d] > 0 => accepted'[d] > 0
    BY <1>t, <2>1
  <2> QED BY <2>1, <2>2, <2>3
<1>4. ASSUME NEW key \in Keys, Cleanup(key) PROVE GoOn
  BY <1>4 DEF Cleanup
<1>5. ASSUME Crash PROVE GoOn
  BY <1>5, CrashDoes DEF BaseInv
<1>6. ASSUME UNCHANGED <<attempt, accepted>> PROVE GoOn
  BY <1>6
<1>7. GoOn
  BY <1>1, <1>2, <1>3, <1>4, <1>5, <1>6, KeysRest DEF Next, Api, Server, Agent, Failure
<1> QED BY <1>7

(* A rival stays one until the command itself is forwarded.                *)
LEMMA RivalsStay ==
    ASSUME BaseInv, [Next]_vars, NEW d \in Sendings, accepted'[d] = 0
    PROVE  accepted[d] = 0 /\ Rivals(d) \subseteq Rivals(d)'
<1>t. \A e \in Sendings : accepted[e] \in Nat
  BY DEF BaseInv, TypeOK
<1>1. /\ \A b \in Attempts :
            \/ attempt'[b] = attempt[b] \/ attempt[b] = "none"
            \/ attempt[b] = "handling" /\ attempt'[b] \in {"refused", "lost"}
            \/ /\ attempt[b] = "handling" /\ attempt'[b] = "accepted"
               /\ accepted'[b[1]] > 0
      /\ \A e \in Sendings : accepted[e] > 0 => accepted'[e] > 0
  BY RequestsGoOn
<1>2. accepted[d] = 0
  BY <1>t, <1>1
<1>3. ASSUME NEW b \in Rivals(d) PROVE b \in Rivals(d)'
  <2>1. /\ b \in Attempts /\ b[1].key = d.key /\ d.key # NoKey
        /\ \/ attempt[b] \in {"handling", "refused", "lost"}
           \/ b[1] # d /\ attempt[b] = "accepted" /\ accepted[b[1]] > 0
    BY DEF Rivals
  <2>2. b[1] \in Sendings
    BY <2>1, AttemptParts
  <2>3. \/ attempt'[b] \in {"handling", "refused", "lost"}
        \/ attempt'[b] = "accepted" /\ accepted'[b[1]] > 0
    <3>1. accepted[b[1]] > 0 => accepted'[b[1]] > 0
      BY <1>1, <2>2
    <3> QED BY <1>1, <2>1, <3>1
  <2>4. accepted'[b[1]] > 0 => b[1] # d
    OBVIOUS
  <2> QED BY <2>1, <2>3, <2>4 DEF Rivals
<1> QED BY <1>2, <1>3

(* Every step keeps a rival behind a key that was claimed for nothing.     *)
LEMMA ClaimedStep ==
    ASSUME BaseInv, Claimed, [Next]_vars
    PROVE  Claimed'
<1>1. ASSUME NEW d \in Sendings, d.key \in reserved', accepted'[d] = 0
      PROVE  Rivals(d)' # {}
  <2>1. CASE d.key \in reserved
    BY <1>1, <2>1, RivalsStay DEF Claimed
  <2>2. CASE d.key \notin reserved
    <3>1. ASSUME NEW c \in Sendings, NEW n \in 1..Tries[c], Reserve(c, n) PROVE Rivals(d)' # {}
      <4>1. attempt'[<<c, n>>] = "handling" /\ d.key = c.key /\ c.key # NoKey
        BY <1>1, <2>2, <3>1, ReserveDoes
      <4>2. <<c, n>> \in Rivals(d)'
        BY <4>1, AttemptOf DEF Rivals
      <4> QED BY <4>2
    <3>2. ASSUME \/ \E c \in Sendings : \E n \in 1..Tries[c] :
                       Duplicate(c, n) \/ Refuse(c, n) \/ Forward(c, n)
                 \/ \E key \in Keys : Cleanup(key)
                 \/ UNCHANGED <<reserved, attempt, spent, accepted, queue>>
          PROVE  FALSE
      <4>1. reserved' \subseteq reserved
        BY <3>2, EndDoes, ForwardDoes DEF Cleanup
      <4> QED BY <1>1, <2>2, <4>1
    <3>3. ASSUME Crash PROVE FALSE
      BY <1>1, <2>2, <3>3, CrashDoes DEF BaseInv
    <3> QED BY <3>1, <3>2, <3>3, KeysRest DEF Next, Api, Server, Agent, Failure
  <2> QED BY <2>1, <2>2
<1>2. ASSUME NEW a \in Attempts, attempt'[a] = "accepted", accepted'[a[1]] = 0
      PROVE  Rivals(a[1])' # {}
  <2>1. a[1] \in Sendings
    BY AttemptParts
  <2>2. accepted[a[1]] = 0 /\ Rivals(a[1]) \subseteq Rivals(a[1])'
    BY <1>2, <2>1, RivalsStay
  <2>3. CASE attempt[a] = "accepted"
    BY <2>2, <2>3 DEF Claimed, SilentOnlyBehindRival
  <2>4. CASE attempt[a] # "accepted"
    <3>1. ASSUME NEW c \in Sendings, NEW n \in 1..Tries[c], Duplicate(c, n) \/ Refuse(c, n)
          PROVE  Rivals(a[1])' # {}
      <4>1. a = <<c, n>> /\ c.key \in reserved
        BY <1>2, <2>4, <3>1, EndDoes
      <4> QED BY <2>1, <2>2, <4>1 DEF Claimed
    <3>2. ASSUME \/ \E c \in Sendings : \E n \in 1..Tries[c] : Reserve(c, n)
                 \/ \E key \in Keys : Cleanup(key)
                 \/ UNCHANGED <<reserved, attempt, spent, accepted, queue>>
          PROVE  FALSE
      <4>1. \A b \in Attempts : attempt'[b] \in {attempt[b], "handling"}
        BY <3>2, ReserveDoes DEF Cleanup
      <4> QED BY <1>2, <2>4, <4>1
    <3>3. ASSUME NEW c \in Sendings, NEW n \in 1..Tries[c], Forward(c, n) PROVE FALSE
      <4>1. a = <<c, n>> /\ accepted[c] \in Nat /\ accepted'[c] = accepted[c] + 1
        BY <1>2, <2>4, <3>3, ForwardDoes
      <4> QED BY <1>2, <4>1
    <3>4. ASSUME Crash PROVE FALSE
      BY <1>2, <2>4, <3>4, CrashDoes DEF BaseInv
    <3> QED BY <3>1, <3>2, <3>3, <3>4, KeysRest DEF Next, Api, Server, Agent, Failure
  <2> QED BY <2>3, <2>4
<1> QED BY <1>1, <1>2 DEF Claimed, SilentOnlyBehindRival

(* At the start there is nothing in the stores and no request.             *)
LEMMA InitKeys == Init => BaseInv /\ KeyOnce /\ Claimed
<1> SUFFICES ASSUME Init PROVE BaseInv /\ KeyOnce /\ Claimed
  OBVIOUS
<1>1. beat \in [Slots -> BeatType] /\ \A h \in Slots : beat[h] = Idle
  BY IdleBeat DEF Init
<1>2. Cardinality(Attempts) \in Nat /\ queue = <<>> /\ Len(queue) = 0
  BY AttemptsAssumption, FS_CardinalityType DEF Init
<1>3. TypeOK
  <2>1. reserved \subseteq Keys /\ expired \in 0..MaxExpired /\ faults \in 0..MaxFaults
    BY RelayBounds DEF Init
  <2>2. attempt \in [Attempts -> AttemptStates]
    BY DEF Init, AttemptStates
  <2>3. queue \in Seq(Sendings) /\ Len(queue) <= Cardinality(Attempts)
    BY <1>2
  <2>4. /\ accepted \in [Sendings -> Nat] /\ doubts \in [Sendings -> Nat]
        /\ delivered \in [Sendings -> Nat] /\ sent \in [Rows -> Nat]
    BY DEF Init
  <2> QED BY <1>1, <2>1, <2>2, <2>3, <2>4 DEF TypeOK, Init
<1>4. RoomLeft
  <2>1. Open = Attempts
    BY DEF Open, Init
  <2> QED BY <1>2, <2>1 DEF RoomLeft
<1>5. Handed
  BY <1>1, IdleBeat DEF Handed, Init
<1>6. \A a \in Attempts : attempt[a] = "none"
  BY DEF Init
<1>7. KeyOnce /\ Claimed
  BY <1>6 DEF KeyOnce, Holds, Claimed, SilentOnlyBehindRival, Init
<1> QED BY <1>3, <1>4, <1>5, <1>7 DEF BaseInv

(* A command sent with a key is in the key store while it is handled: the  *)
(* invariant the theorems below rest on.                                   *)
LEMMA KeysInvariant == Spec => [](BaseInv /\ KeyOnce /\ Claimed)
<1>1. BaseInv /\ KeyOnce /\ Claimed /\ [Next]_vars
         => (BaseInv /\ KeyOnce /\ Claimed)'
  BY BaseStep, KeyOnceStep, ClaimedStep
<1> QED BY InitKeys, <1>1, PTL DEF Spec

(* Keys, requests, the edge's queue, heartbeats and agent keep their types,*)
(* the queue has a row for each request at most, and a key is used only    *)
(* while it is claimed.                                                    *)
THEOREM TypeCorrect == Spec => []TypeOK
<1>1. BaseInv => TypeOK
  BY DEF BaseInv
<1> QED BY <1>1, KeysInvariant, PTL

(* A 202 for a command that was never forwarded is given only when another *)
(* request claimed its key and is still handled, was refused or lost, or   *)
(* had another command forwarded under it.                                 *)
THEOREM SilentOnlyBehindRivalHolds == Spec => []SilentOnlyBehindRival
<1>1. Claimed => SilentOnlyBehindRival
  BY DEF Claimed
<1> QED BY <1>1, KeysInvariant, PTL

-----------------------------------------------------------------------------
(* The rows that are out *)

(* The rows that are out are rows of the queue; those not dealt with by    *)
(* the handler are among them.                                             *)
LEMMA OutFacts ==
    ASSUME BaseInv
    PROVE  /\ waiting \in Slots \cup {NoSlot} /\ NoSlot \notin Slots
           /\ Out \subseteq DOMAIN queue /\ Unmarked \subseteq Out
           /\ Pending \subseteq DOMAIN queue /\ Again \subseteq DOMAIN queue
           /\ waiting # NoSlot => inbox = {}
<1>1. waiting \in Slots \cup {NoSlot} /\ NoSlot \notin Slots
  BY SlotsAssumption DEF BaseInv, TypeOK
<1>2. Out \subseteq DOMAIN queue /\ Unmarked \subseteq Out
  BY <1>1 DEF BaseInv, Handed, Out, Unmarked
<1>3. Pending \subseteq DOMAIN queue /\ Again \subseteq DOMAIN queue
  BY RowFacts DEF BaseInv, Again
<1>4. waiting # NoSlot => inbox = {}
  BY DEF BaseInv, Handed
<1> QED BY <1>1, <1>2, <1>3, <1>4

(* Fetch for the waiting agent puts all pending rows out.                  *)
LEMMA FetchOut ==
    ASSUME BaseInv, NEW h \in Slots, Fetch(h)
    PROVE  /\ \/ /\ waiting = h /\ Out = {} /\ Unmarked = {}
                 /\ Out' = Pending /\ Unmarked' = Pending
              \/ waiting # h /\ Out' = Out /\ Unmarked' = Unmarked
           /\ UNCHANGED <<storeVars, seenVars>> /\ Pending' = Pending
<1>1. /\ beat[h].at = "arrived"
      /\ beat'[h].batch = Pending /\ beat'[h].left = Pending
      /\ \A i \in Slots \ {h} : beat'[i] = beat[i]
      /\ UNCHANGED <<storeVars, agentVars, seenVars>>
  BY FetchDoes DEF BaseInv
<1>2. waiting \in Slots \cup {NoSlot} /\ NoSlot \notin Slots /\ Unmarked \subseteq Out
  BY OutFacts
<1>3. Pending' = Pending /\ waiting' = waiting /\ inbox' = inbox
  BY <1>1 DEF Pending, storeVars, agentVars
<1>4. CASE waiting = h
  BY <1>1, <1>2, <1>3, <1>4 DEF BaseInv, Handed, Out, Unmarked
<1>5. CASE waiting # h
  BY <1>1, <1>2, <1>3, <1>5 DEF Out, Unmarked
<1> QED BY <1>1, <1>3, <1>4, <1>5

(* A row leaves the list of those not dealt with; the same rows are out.   *)
LEMMA AckOut ==
    ASSUME BaseInv, NEW h \in Slots, Ack(h)
    PROVE  \E k \in DOMAIN queue :
              /\ Out' = Out
              /\ Unmarked' = IF waiting = h THEN Unmarked \ {k} ELSE Unmarked
              /\ waiting = h => k \in Unmarked
              /\ \/ acked' = acked \cup {k} /\ UNCHANGED <<doubts, flawed>>
                 \/ waiting # h /\ UNCHANGED <<acked, doubts, flawed>>
                 \/ /\ waiting = h
                    /\ flawed' = flawed \cup {k}
                    /\ doubts' = [doubts EXCEPT ![queue[k]] = @ + 1]
                    /\ UNCHANGED acked
              /\ UNCHANGED <<queue, accepted, spent, delivered, sent>>
<1>1. PICK k \in Oldest(beat[h].left) :
              /\ k \in beat[h].left
              /\ beat'[h].batch = beat[h].batch
              /\ beat'[h].left = beat[h].left \ {k}
              /\ \A i \in Slots \ {h} : beat'[i] = beat[i]
              /\ \/ acked' = acked \cup {k} /\ UNCHANGED <<faults, doubts, flawed>>
                 \/ waiting # h /\ UNCHANGED <<acked, faults, doubts, flawed>>
                 \/ /\ waiting = h /\ Fault
                    /\ flawed' = flawed \cup {k}
                    /\ doubts' = [doubts EXCEPT ![queue[k]] = @ + 1]
                    /\ UNCHANGED acked
              /\ UNCHANGED <<queue, agentVars, accepted, spent, delivered, sent>>
  BY AckDoes DEF BaseInv
<1>2. waiting \in Slots \cup {NoSlot} /\ NoSlot \notin Slots
  BY OutFacts
<1>3. k \in DOMAIN queue
  BY <1>1 DEF BaseInv, Handed
<1>4. waiting' = waiting /\ inbox' = inbox
  BY <1>1 DEF agentVars
<1>5. /\ Out' = Out
      /\ Unmarked' = IF waiting = h THEN Unmarked \ {k} ELSE Unmarked
      /\ waiting = h => k \in Unmarked
  BY <1>1, <1>2, <1>4 DEF Out, Unmarked
<1> QED BY <1>1, <1>3, <1>5

(* An answer, or a heartbeat that starts, changes nothing of it.           *)
LEMMA AnswerOut ==
    ASSUME BaseInv, NEW h \in Slots, Answer(h) \/ Heartbeat(h)
    PROVE  Out' = Out /\ Unmarked' = Unmarked /\ UNCHANGED <<storeVars, seenVars>>
<1>1. waiting \in Slots \cup {NoSlot} /\ NoSlot \notin Slots
  BY OutFacts
<1>2. CASE Answer(h)
  <2>1. /\ beat[h].left = {} /\ \A i \in Slots \ {h} : beat'[i] = beat[i]
        /\ \/ /\ waiting = h /\ waiting' = NoSlot /\ inbox' = beat[h].batch
           \/ waiting # h /\ UNCHANGED agentVars
        /\ UNCHANGED <<storeVars, seenVars>>
    BY <1>2, AnswerDoes DEF BaseInv
  <2> QED BY <1>1, <2>1 DEF Out, Unmarked, agentVars
<1>3. CASE Heartbeat(h)
  <2>1. /\ agent = "idle" /\ beat[h].at = "idle" /\ beat'[h].batch = beat[h].batch
        /\ beat'[h].left = beat[h].left /\ waiting' = h
        /\ UNCHANGED <<storeVars, seenVars>>
    BY <1>3, HeartbeatDoes DEF BaseInv
  <2>2. /\ waiting = NoSlot /\ inbox = {} /\ beat'[h].batch = {} /\ beat'[h].left = {}
    BY <2>1 DEF BaseInv, Handed
  <2> QED BY <1>1, <2>1, <2>2 DEF Out, Unmarked
<1> QED BY <1>2, <1>3

(* Relay takes the oldest of the rows that are out.                        *)
LEMMA RelayOut ==
    ASSUME BaseInv, Relay
    PROVE  \E k \in Out :
              /\ Out' = Out \ {k} /\ Unmarked = {} /\ Unmarked' = {}
              /\ \A j \in Out : k <= j
              /\ \/ /\ delivered' = [delivered EXCEPT ![queue[k]] = @ + 1]
                    /\ sent' = [sent EXCEPT ![k] = @ + 1]
                 \/ UNCHANGED <<delivered, sent>>
              /\ UNCHANGED <<storeVars, accepted, doubts, spent, flawed>>
<1>1. PICK k \in inbox :
              /\ agent = "relaying" /\ inbox' = inbox \ {k}
              /\ \A j \in inbox : k <= j
              /\ \/ /\ delivered' = [delivered EXCEPT ![queue[k]] = @ + 1]
                    /\ sent' = [sent EXCEPT ![k] = @ + 1]
                 \/ UNCHANGED <<delivered, sent>>
              /\ UNCHANGED <<storeVars, waiting, accepted, doubts, spent, flawed>>
  BY RelayDoes
<1>2. waiting = NoSlot /\ waiting' = NoSlot
  BY <1>1 DEF BaseInv, Handed
<1> QED BY <1>1, <1>2 DEF Out, Unmarked

(* When the agent is done, gives up or crashes, no row is out any more.    *)
LEMMA StopOut ==
    ASSUME BaseInv, SyncDone \/ GiveUp \/ AgentCrash
    PROVE  Out' = {} /\ Unmarked' = {} /\ UNCHANGED <<storeVars, seenVars>>
  BY DEF BaseInv, Handed, SyncDone, GiveUp, AgentCrash, Out, Unmarked

(* When the control plane crashes, the agent loses the answer it waits for *)
(* but not one it has.                                                     *)
LEMMA CrashOut ==
    ASSUME BaseInv, Crash
    PROVE  /\ Unmarked' = {}
           /\ \/ Out' = Out /\ Unmarked = {}
              \/ Out' = {}
           /\ acked \subseteq acked'
           /\ UNCHANGED <<queue, accepted, doubts, delivered, sent, flawed>>
<1>1. /\ waiting' = NoSlot
      /\ \/ UNCHANGED acked
         \/ acked' = DOMAIN queue
      /\ UNCHANGED <<queue, inbox, accepted, doubts, delivered, sent, flawed>>
  BY CrashDoes DEF BaseInv
<1>2. acked \subseteq DOMAIN queue /\ (waiting # NoSlot => inbox = {})
  BY OutFacts DEF BaseInv, TypeOK
<1> QED BY <1>1, <1>2 DEF Out, Unmarked

(* sendCommand and Cleanup do not touch it.                                *)
LEMMA ApiOut ==
    ASSUME \/ \E key \in Keys : Cleanup(key)
           \/ \E c \in Sendings : \E n \in 1..Tries[c] :
                 Reserve(c, n) \/ Duplicate(c, n) \/ Refuse(c, n) \/ Forward(c, n)
    PROVE  Out' = Out /\ Unmarked' = Unmarked /\ UNCHANGED <<acked, doubts, sent, flawed>>
<1>1. UNCHANGED <<beat, waiting, inbox, acked, doubts, sent, flawed>>
  BY DEF Cleanup, Reserve, Duplicate, Refuse, Forward, agentVars, storeVars, seenVars
<1> QED BY <1>1 DEF Out, Unmarked

-----------------------------------------------------------------------------
(* The order at the edge *)

(* Nothing is published and no row comes out: the rows that leave the list *)
(* of those not dealt with are marked or flawed.                           *)
LEMMA OrderKept ==
    ASSUME OrderInv, acked \subseteq acked', flawed \subseteq flawed', sent' = sent,
           \/ Out' = {}
           \/ Out' = Out /\ Unmarked \subseteq Unmarked' \cup acked' \cup flawed'
    PROVE  OrderInv'
<1>1. SentSettled'
  BY DEF OrderInv, SentSettled
<1>2. OutSettled' /\ OutFresh'
  BY DEF OrderInv, OutSettled, OutFresh
<1> QED BY <1>1, <1>2 DEF OrderInv

(* Every step keeps the order of marking and publishing.                   *)
LEMMA OrderStep ==
    ASSUME BaseInv, OrderInv, [Next]_vars
    PROVE  OrderInv'
<1>1. ASSUME NEW h \in Slots, Fetch(h) PROVE OrderInv'
  <2>1. UNCHANGED <<acked, flawed, sent, queue>>
    BY <1>1, FetchOut DEF storeVars, seenVars
  <2>2. CASE waiting = h
    <3>1. Out' = Pending /\ Unmarked' = Pending
      BY <1>1, <2>2, FetchOut
    <3>2. /\ DOMAIN queue \subseteq Rows /\ DOMAIN queue = 1..Len(queue) /\ Len(queue) \in Nat
          /\ Pending = DOMAIN queue \ acked
      BY RowFacts DEF BaseInv
    <3>3. SentSettled'
      BY <2>1 DEF OrderInv, SentSettled
    <3>4. OutSettled'
      <4>1. ASSUME NEW k \in Pending, NEW i \in 1..k PROVE i \in acked \cup Pending
        BY <3>2
      <4> QED BY <2>1, <3>1, <4>1 DEF OutSettled
    <3>5. OutFresh'
      <4>1. ASSUME NEW k \in Pending, NEW j \in Rows, j >= k, sent[j] # 0
            PROVE  k \in flawed
        <5>1. sent[j] > 0
          BY <4>1 DEF BaseInv, TypeOK
        <5>2. k \in 1..j /\ k \notin acked
          BY <3>2, <4>1 DEF Rows
        <5> QED BY <5>1, <5>2 DEF OrderInv, SentSettled
      <4> QED BY <2>1, <3>1, <4>1 DEF OutFresh
    <3> QED BY <3>3, <3>4, <3>5 DEF OrderInv
  <2>3. CASE waiting # h
    BY <1>1, <2>1, <2>3, FetchOut, OrderKept
  <2> QED BY <2>2, <2>3
<1>2. ASSUME NEW h \in Slots, Ack(h) PROVE OrderInv'
  <2>1. PICK k \in DOMAIN queue :
              /\ Out' = Out
              /\ Unmarked' = IF waiting = h THEN Unmarked \ {k} ELSE Unmarked
              /\ \/ acked' = acked \cup {k} /\ UNCHANGED flawed
                 \/ waiting # h /\ UNCHANGED <<acked, flawed>>
                 \/ flawed' = flawed \cup {k} /\ UNCHANGED acked
              /\ UNCHANGED sent
    BY <1>2, AckOut
  <2> QED BY <2>1, OrderKept
<1>3. ASSUME NEW h \in Slots, Answer(h) \/ Heartbeat(h) PROVE OrderInv'
  BY <1>3, AnswerOut, OrderKept DEF storeVars, seenVars
<1>4. ASSUME Relay PROVE OrderInv'
  <2>1. PICK k \in Out :
              /\ Out' = Out \ {k} /\ Unmarked = {} /\ Unmarked' = {}
              /\ \A j \in Out : k <= j
              /\ sent' = [sent EXCEPT ![k] = @ + 1] \/ sent' = sent
              /\ acked' = acked /\ flawed' = flawed
    BY <1>4, RelayOut DEF storeVars
  <2>2. k \in Rows /\ Out \subseteq Rows /\ Rows \subseteq Nat
    BY OutFacts, RowFacts DEF BaseInv, Rows
  <2>3. sent' \in [Rows -> Nat] /\ \A j \in Rows \ {k} : sent'[j] = sent[j]
    <3>1. sent \in [Rows -> Nat]
      BY DEF BaseInv, TypeOK
    <3> QED BY ONLY <2>1, <2>2, <3>1, OneMore
  <2>4. SentSettled'
    <3>1. ASSUME NEW j \in Rows, sent'[j] > 0, NEW i \in 1..j PROVE i \in acked \cup flawed
      <4>1. CASE j = k
        BY <2>1, <4>1 DEF OrderInv, OutSettled
      <4>2. CASE j # k
        BY <2>3, <3>1, <4>2 DEF OrderInv, SentSettled
      <4> QED BY <4>1, <4>2
    <3> QED BY <2>1, <3>1 DEF SentSettled
  <2>5. OutSettled'
    BY <2>1 DEF OrderInv, OutSettled
  <2>6. OutFresh'
    <3>1. ASSUME NEW l \in Out \ {k}, l \notin flawed, NEW j \in Rows, j >= l
          PROVE  sent'[j] = 0
      <4>1. j # k
        BY <2>1, <2>2, <3>1
      <4>2. sent[j] = 0
        BY <3>1 DEF OrderInv, OutFresh
      <4> QED BY <2>3, <4>1, <4>2
    <3> QED BY <2>1, <3>1 DEF OutFresh
  <2> QED BY <2>4, <2>5, <2>6 DEF OrderInv
<1>5. ASSUME SyncDone \/ GiveUp \/ AgentCrash PROVE OrderInv'
  BY <1>5, StopOut, OrderKept DEF storeVars, seenVars
<1>6. ASSUME Crash PROVE OrderInv'
  BY <1>6, CrashOut, OrderKept
<1>7. ASSUME \/ \E key \in Keys : Cleanup(key)
             \/ \E c \in Sendings : \E n \in 1..Tries[c] :
                   Reserve(c, n) \/ Duplicate(c, n) \/ Refuse(c, n) \/ Forward(c, n)
      PROVE  OrderInv'
  <2>1. Out' = Out /\ Unmarked' = Unmarked /\ UNCHANGED <<acked, sent, flawed>>
    BY <1>7, ApiOut
  <2> QED BY <2>1, OrderKept
<1>8. CASE UNCHANGED vars
  <2>1. Out' = Out /\ Unmarked' = Unmarked /\ UNCHANGED <<acked, sent, flawed>>
    BY <1>8 DEF vars, storeVars, agentVars, seenVars, Out, Unmarked
  <2> QED BY <2>1, OrderKept
<1> QED BY <1>1, <1>2, <1>3, <1>4, <1>5, <1>6, <1>7, <1>8 DEF Next, Api, Server, Agent, Failure

(* Only Relay publishes at the edge, and what it publishes was out.        *)
LEMMA SentOnlyOut ==
    ASSUME BaseInv, OrderInv, [Next]_vars, NEW k \in Rows, sent'[k] > sent[k]
    PROVE  k \in flawed \/ \A j \in Rows : j >= k => sent[j] = 0
<1>1. CASE sent' = sent
  BY <1>1 DEF BaseInv, TypeOK
<1>2. CASE Relay
  <2>1. PICK l \in Out : sent' = [sent EXCEPT ![l] = @ + 1] \/ sent' = sent
    BY <1>2, RelayOut
  <2>2. k = l
    BY <2>1, <1>1 DEF BaseInv, TypeOK
  <2> QED BY <2>1, <2>2 DEF OrderInv, OutFresh
<1>3. sent' = sent \/ Relay
  BY DEF Next, Api, Server, Agent, Failure, Cleanup, Reserve, Duplicate, Refuse, Forward, Fetch,
         Ack, Answer, Heartbeat, SyncDone, GiveUp, AgentCrash, Crash, vars, seenVars
<1> QED BY <1>1, <1>2, <1>3

(* At the edge no command is published twice or after a newer one, unless  *)
(* the database failed to mark its row, however heartbeats overlap, time   *)
(* out, lose their answers, and whichever side crashes.                    *)
THEOREM EdgeOrderHolds == Spec => EdgeOrder
<1>1. Init => OrderInv
  BY DEF Init, OrderInv, SentSettled, OutSettled, OutFresh, Out
<1>2. BaseInv /\ OrderInv /\ [Next]_vars => OrderInv'
  BY OrderStep
<1>3. BaseInv /\ OrderInv /\ [Next]_vars
         => [\A k \in Rows : sent'[k] > sent[k] =>
                k \in flawed \/ \A j \in Rows : j >= k => sent[j] = 0]_vars
  BY SentOnlyOut
<1> QED BY <1>1, <1>2, <1>3, KeysInvariant, PTL DEF Spec, EdgeOrder

-----------------------------------------------------------------------------
(* How often a command can still be published *)

(* Counting: a part of two sets together has no more than both.            *)
LEMMA CountUnion ==
    ASSUME NEW D, IsFiniteSet(D), NEW S, NEW T \in SUBSET D, NEW U \in SUBSET D,
           S \subseteq T \cup U
    PROVE  /\ Cardinality(S) \in Nat /\ Cardinality(T) \in Nat /\ Cardinality(U) \in Nat
           /\ Cardinality(S) <= Cardinality(T) + Cardinality(U)
<1>1. IsFiniteSet(T) /\ IsFiniteSet(U) /\ IsFiniteSet(T \cap U)
  BY FS_Subset
<1>2. /\ IsFiniteSet(T \cup U)
      /\ Cardinality(T \cup U) = Cardinality(T) + Cardinality(U) - Cardinality(T \cap U)
  BY <1>1, FS_Union
<1>3. IsFiniteSet(S) /\ Cardinality(S) <= Cardinality(T \cup U)
  BY <1>2, FS_Subset
<1>4. /\ Cardinality(S) \in Nat /\ Cardinality(T) \in Nat /\ Cardinality(U) \in Nat
      /\ Cardinality(T \cap U) \in Nat
  BY <1>1, <1>3, FS_CardinalityType
<1> QED BY <1>2, <1>3, <1>4

(* Counting: one element more, one element less.                           *)
LEMMA CountOne ==
    ASSUME NEW D, IsFiniteSet(D), NEW S \in SUBSET D, NEW x
    PROVE  /\ Cardinality(S) \in Nat
           /\ Cardinality(S \cup {x}) \in Nat /\ Cardinality(S \cup {x}) <= Cardinality(S) + 1
           /\ Cardinality(S \ {x}) \in Nat /\ Cardinality(S \ {x}) <= Cardinality(S)
           /\ x \in S => Cardinality(S) = Cardinality(S \ {x}) + 1
<1>1. IsFiniteSet(S) /\ Cardinality(S) \in Nat
  BY FS_Subset, FS_CardinalityType
<1>2. /\ IsFiniteSet(S \cup {x})
      /\ Cardinality(S \cup {x}) = IF x \in S THEN Cardinality(S) ELSE Cardinality(S) + 1
  BY <1>1, FS_AddElement
<1>3. /\ IsFiniteSet(S \ {x})
      /\ Cardinality(S \ {x}) = IF x \in S THEN Cardinality(S) - 1 ELSE Cardinality(S)
  BY <1>1, FS_RemoveElement
<1>4. Cardinality(S \cup {x}) \in Nat /\ Cardinality(S \ {x}) \in Nat
  BY <1>2, <1>3, FS_CardinalityType
<1> QED BY <1>1, <1>2, <1>3, <1>4

(* The rows of one command among the rows that are out or to come.         *)
LEMMA OfFacts ==
    ASSUME BaseInv, NEW c
    PROVE  /\ IsFiniteSet(DOMAIN queue)
           /\ Of(Out, c) \subseteq DOMAIN queue /\ Of(Again, c) \subseteq DOMAIN queue
           /\ Cardinality(Of(Out, c)) \in Nat /\ Cardinality(Of(Again, c)) \in Nat
<1>1. IsFiniteSet(DOMAIN queue)
  BY RowFacts DEF BaseInv
<1>2. Of(Out, c) \subseteq DOMAIN queue /\ Of(Again, c) \subseteq DOMAIN queue
  BY OutFacts DEF Of
<1> QED BY <1>1, <1>2, FS_Subset, FS_CardinalityType

(* No command is delivered or accepted and no row is new: what is out or   *)
(* to come afterwards was so before.                                       *)
LEMMA BudgetKept ==
    ASSUME BaseInv, Budget, UNCHANGED <<queue, delivered, accepted, doubts>>,
           \/ Out' = Out /\ Again' \subseteq Again
           \/ Out' = {} /\ Again' \subseteq Again \cup Out
           \/ Out = {} /\ Out' = Again /\ Again' = {}
           \/ Out' \subseteq Out /\ Again' = Again
    PROVE  Budget'
<1> SUFFICES ASSUME NEW c \in Sendings
             PROVE  delivered[c] + Cardinality({k \in Out' : queue[k] = c})
                       + Cardinality({k \in Again' : queue[k] = c}) <= accepted[c] + doubts[c]
  BY DEF Budget, Of
<1> DEFINE A == {k \in Again' : queue[k] = c}
           O == {k \in Out' : queue[k] = c}
<1>1. /\ delivered[c] \in Nat /\ accepted[c] \in Nat /\ doubts[c] \in Nat
      /\ delivered[c] + Cardinality(Of(Out, c)) + Cardinality(Of(Again, c))
            <= accepted[c] + doubts[c]
  BY DEF BaseInv, TypeOK, Budget
<1>2. /\ IsFiniteSet(DOMAIN queue)
      /\ Of(Out, c) \subseteq DOMAIN queue /\ Of(Again, c) \subseteq DOMAIN queue
      /\ Cardinality(Of(Out, c)) \in Nat /\ Cardinality(Of(Again, c)) \in Nat
  BY OfFacts
<1>3. Cardinality({}) = 0
  BY FS_EmptySet
<1>4. \/ O = Of(Out, c) /\ A \subseteq Of(Again, c) \cup {}
      \/ O = {} /\ A \subseteq Of(Again, c) \cup Of(Out, c)
      \/ Of(Out, c) = {} /\ O = Of(Again, c) /\ A = {}
      \/ O \subseteq Of(Out, c) \cup {} /\ A = Of(Again, c)
  BY DEF Of
<1> HIDE DEF A, O
<1>5. delivered[c] + Cardinality(O) + Cardinality(A) <= accepted[c] + doubts[c]
  <2>1. CASE O = Of(Out, c) /\ A \subseteq Of(Again, c) \cup {}
    <3>1. Cardinality(A) \in Nat /\ Cardinality(A) <= Cardinality(Of(Again, c)) + 0
      BY <1>2, <1>3, <2>1, CountUnion
    <3> QED BY <1>1, <1>2, <2>1, <3>1
  <2>2. CASE O = {} /\ A \subseteq Of(Again, c) \cup Of(Out, c)
    <3>1. /\ Cardinality(A) \in Nat
          /\ Cardinality(A) <= Cardinality(Of(Again, c)) + Cardinality(Of(Out, c))
      BY <1>2, <2>2, CountUnion
    <3> QED BY <1>1, <1>2, <1>3, <2>2, <3>1
  <2>3. CASE Of(Out, c) = {} /\ O = Of(Again, c) /\ A = {}
    BY <1>1, <1>2, <1>3, <2>3
  <2>4. CASE O \subseteq Of(Out, c) \cup {} /\ A = Of(Again, c)
    <3>1. Cardinality(O) \in Nat /\ Cardinality(O) <= Cardinality(Of(Out, c)) + 0
      BY <1>2, <1>3, <2>4, CountUnion
    <3> QED BY <1>1, <1>2, <2>4, <3>1
  <2> QED BY <1>4, <2>1, <2>2, <2>3, <2>4
<1> QED BY <1>5 DEF A, O

(* A row that is queued is one more to come, for a command accepted once   *)
(* more; on the bus the command is delivered as it is accepted.            *)
LEMMA BudgetForward ==
    ASSUME BaseInv, Budget, QueuedAccepted, NEW c \in Sendings, NEW n \in 1..Tries[c],
           Forward(c, n)
    PROVE  Budget' /\ QueuedAccepted'
<1>1. /\ \/ queue' = Append(queue, c) /\ delivered' = delivered
         \/ queue' = queue /\ delivered' = [delivered EXCEPT ![c] = @ + 1]
      /\ accepted' = [accepted EXCEPT ![c] = @ + 1]
      /\ acked' = acked /\ doubts' = doubts
  BY DEF Forward
<1>2. Out' = Out /\ Unmarked' = Unmarked
  BY ApiOut
<1>3. /\ accepted \in [Sendings -> Nat] /\ doubts \in [Sendings -> Nat]
      /\ delivered \in [Sendings -> Nat] /\ queue \in Seq(Sendings) /\ acked \subseteq DOMAIN queue
  BY DEF BaseInv, TypeOK
<1>4. /\ accepted'[c] = accepted[c] + 1
      /\ \A d \in Sendings \ {c} : accepted'[d] = accepted[d]
  BY <1>1, <1>3
<1>4a. \A d \in Sendings : accepted[d] > 0 => accepted'[d] > 0
  <2>1. \A d \in Sendings : accepted[d] \in Nat
    BY <1>3
  <2> QED BY ONLY <1>4, <2>1
<1>5. /\ Out \subseteq DOMAIN queue /\ Unmarked \subseteq Out /\ DOMAIN queue = 1..Len(queue)
      /\ Again \subseteq DOMAIN queue /\ Pending = DOMAIN queue \ acked /\ Len(queue) \in Nat
      /\ \A k \in DOMAIN queue : queue[k] \in Sendings
  BY OutFacts, RowFacts DEF BaseInv
<1>6. CASE queue' = Append(queue, c) /\ delivered' = delivered
  <2> DEFINE L == Len(queue) + 1
  <2>1. /\ queue'[L] = c /\ \A k \in DOMAIN queue : queue'[k] = queue[k]
        /\ DOMAIN queue' = DOMAIN queue \cup {L} /\ L \notin DOMAIN queue
        /\ DOMAIN queue' = 1..Len(queue')
    <3>1. /\ queue'[L] = c /\ \A k \in 1..Len(queue) : queue'[k] = queue[k]
          /\ DOMAIN queue' = DOMAIN queue \cup {L}
          /\ queue' \in Seq(Sendings)
      BY <1>3, <1>6, RowMore
    <3>2. L \notin DOMAIN queue
      BY <1>5
    <3>3. DOMAIN queue' = 1..Len(queue')
      BY ONLY <3>1
    <3> QED BY ONLY <1>5, <3>1, <3>2, <3>3
  <2> HIDE DEF L
  <2>2. Pending' = DOMAIN queue' \ acked'
    BY <2>1 DEF Pending
  <2>3. Again' = Again \cup {L} /\ L \notin Again /\ L \notin Out
    <3>1. L \notin acked /\ L \notin Unmarked /\ L \notin Out
      BY <1>3, <1>5, <2>1
    <3>2. Again' = (DOMAIN queue' \ acked) \ Unmarked
      BY <1>1, <1>2, <2>2 DEF Again
    <3>3. Again = (DOMAIN queue \ acked) \ Unmarked
      BY <1>5 DEF Again
    <3> QED BY <1>5, <2>1, <3>1, <3>2, <3>3
  <2>4. QueuedAccepted'
    <3>1. ASSUME NEW k \in DOMAIN queue' PROVE accepted'[queue'[k]] > 0
      <4>1. CASE k = L
        BY <1>3, <1>4, <2>1, <4>1
      <4>2. CASE k \in DOMAIN queue
        <5>1. accepted[queue[k]] > 0 /\ queue[k] \in Sendings /\ queue'[k] = queue[k]
          BY <1>5, <2>1, <4>2 DEF QueuedAccepted
        <5> QED BY <1>4a, <5>1
      <4> QED BY <2>1, <4>1, <4>2
    <3> QED BY <3>1 DEF QueuedAccepted
  <2>5. ASSUME NEW d \in Sendings
        PROVE  delivered'[d] + Cardinality(Of(Out, d)') + Cardinality(Of(Again, d)')
                  <= accepted'[d] + doubts'[d]
    <3>1. /\ IsFiniteSet(DOMAIN queue)
          /\ Of(Out, d) \subseteq DOMAIN queue /\ Of(Again, d) \subseteq DOMAIN queue
          /\ Cardinality(Of(Out, d)) \in Nat /\ Cardinality(Of(Again, d)) \in Nat
      BY OfFacts
    <3>2. Of(Out, d)' = Of(Out, d)
      BY <1>2, <1>5, <2>1 DEF Of
    <3>3. Of(Again, d)' = IF d = c THEN Of(Again, d) \cup {L} ELSE Of(Again, d)
      BY <1>5, <2>1, <2>3 DEF Of
    <3>4. delivered[d] + Cardinality(Of(Out, d)) + Cardinality(Of(Again, d))
             <= accepted[d] + doubts[d]
      BY DEF Budget
    <3>5. delivered[d] \in Nat /\ accepted[d] \in Nat /\ doubts[d] \in Nat
      BY <1>3
    <3>6. CASE d = c
      <4>1. /\ Cardinality(Of(Again, d) \cup {L}) \in Nat
            /\ Cardinality(Of(Again, d) \cup {L}) <= Cardinality(Of(Again, d)) + 1
        BY <3>1, CountOne
      <4>2. Of(Again, d)' = Of(Again, d) \cup {L}
        BY ONLY <3>3, <3>6
      <4>3. /\ delivered'[d] = delivered[d] /\ doubts'[d] = doubts[d]
            /\ accepted'[d] = accepted[d] + 1
        BY ONLY <1>1, <1>4, <1>6, <3>6
      <4> QED BY ONLY <3>1, <3>2, <3>4, <3>5, <4>1, <4>2, <4>3
    <3>7. CASE d # c
      BY <1>1, <1>4, <1>6, <3>2, <3>3, <3>4, <3>7
    <3> QED BY <3>6, <3>7
  <2> QED BY <2>4, <2>5 DEF Budget
<1>7. CASE queue' = queue /\ delivered' = [delivered EXCEPT ![c] = @ + 1]
  <2>1. Again' = Again
    BY <1>1, <1>2, <1>7 DEF Again, Pending
  <2>2. QueuedAccepted'
    <3>1. ASSUME NEW k \in DOMAIN queue PROVE accepted'[queue[k]] > 0
      <4>1. accepted[queue[k]] > 0 /\ queue[k] \in Sendings
        BY <1>5 DEF QueuedAccepted
      <4> QED BY <1>4a, <4>1
    <3> QED BY <1>7, <3>1 DEF QueuedAccepted
  <2>3. ASSUME NEW d \in Sendings
        PROVE  delivered'[d] + Cardinality(Of(Out, d)') + Cardinality(Of(Again, d)')
                  <= accepted'[d] + doubts'[d]
    <3>1. Of(Out, d)' = Of(Out, d) /\ Of(Again, d)' = Of(Again, d)
      BY <1>2, <1>7, <2>1 DEF Of
    <3>2. Cardinality(Of(Out, d)) \in Nat /\ Cardinality(Of(Again, d)) \in Nat
      BY OfFacts
    <3>3. /\ delivered[d] + Cardinality(Of(Out, d)) + Cardinality(Of(Again, d))
                <= accepted[d] + doubts[d]
          /\ delivered[d] \in Nat /\ accepted[d] \in Nat /\ doubts[d] \in Nat
      BY <1>3 DEF Budget
    <3>4. \/ d = c /\ delivered'[d] = delivered[d] + 1 /\ accepted'[d] = accepted[d] + 1
          \/ delivered'[d] = delivered[d] /\ accepted'[d] = accepted[d]
      BY <1>3, <1>4, <1>7
    <3>5. doubts'[d] = doubts[d]
      BY <1>1
    <3> QED BY ONLY <3>1, <3>2, <3>3, <3>4, <3>5
  <2> QED BY <2>2, <2>3 DEF Budget
<1> QED BY <1>1, <1>6, <1>7

(* A row marked is not handed out again; one that could not be marked is,  *)
(* and that is one doubt more about its command.                           *)
LEMMA BudgetAck ==
    ASSUME BaseInv, Budget, NEW h \in Slots, Ack(h)
    PROVE  Budget'
<1>1. PICK k \in DOMAIN queue :
              /\ Out' = Out
              /\ Unmarked' = IF waiting = h THEN Unmarked \ {k} ELSE Unmarked
              /\ \/ acked' = acked \cup {k} /\ UNCHANGED <<doubts, flawed>>
                 \/ waiting # h /\ UNCHANGED <<acked, doubts, flawed>>
                 \/ /\ waiting = h
                    /\ flawed' = flawed \cup {k}
                    /\ doubts' = [doubts EXCEPT ![queue[k]] = @ + 1]
                    /\ UNCHANGED acked
              /\ UNCHANGED <<queue, accepted, delivered>>
  BY AckOut
<1>2. CASE doubts' = doubts
             /\ (acked' = acked \cup {k} \/ (waiting # h /\ acked' = acked))
  <2>1. Again' \subseteq Again
    BY <1>1, <1>2 DEF Again, Pending
  <2> QED BY <1>1, <1>2, <2>1, BudgetKept
<1>3. CASE /\ waiting = h /\ acked' = acked
           /\ doubts' = [doubts EXCEPT ![queue[k]] = @ + 1]
  <2>1. Again' \subseteq Again \cup {k}
    BY <1>1, <1>3 DEF Again, Pending
  <2>2. /\ accepted \in [Sendings -> Nat] /\ doubts \in [Sendings -> Nat]
        /\ delivered \in [Sendings -> Nat] /\ queue[k] \in Sendings
    BY RowFacts DEF BaseInv, TypeOK
  <2>3. ASSUME NEW d \in Sendings
        PROVE  delivered'[d] + Cardinality(Of(Out, d)') + Cardinality(Of(Again, d)')
                  <= accepted'[d] + doubts'[d]
    <3>1. /\ IsFiniteSet(DOMAIN queue)
          /\ Of(Out, d) \subseteq DOMAIN queue /\ Of(Again, d) \subseteq DOMAIN queue
          /\ Cardinality(Of(Out, d)) \in Nat /\ Cardinality(Of(Again, d)) \in Nat
      BY OfFacts
    <3>2. Of(Out, d)' = Of(Out, d)
      BY <1>1 DEF Of
    <3>3. /\ delivered[d] + Cardinality(Of(Out, d)) + Cardinality(Of(Again, d))
                <= accepted[d] + doubts[d]
          /\ delivered[d] \in Nat /\ accepted[d] \in Nat /\ doubts[d] \in Nat
          /\ delivered'[d] = delivered[d] /\ accepted'[d] = accepted[d]
      BY <1>1, <2>2 DEF Budget
    <3>4. CASE queue[k] = d
      <4>1. Of(Again, d)' \subseteq Of(Again, d) \cup {k} /\ doubts'[d] = doubts[d] + 1
        BY <1>1, <1>3, <2>1, <2>2, <3>4 DEF Of
      <4>2. Cardinality({k}) = 1 /\ {k} \subseteq DOMAIN queue
        BY FS_Singleton
      <4>3. /\ Cardinality(Of(Again, d)') \in Nat
            /\ Cardinality(Of(Again, d)') <= Cardinality(Of(Again, d)) + 1
        BY <3>1, <4>1, <4>2, CountUnion
      <4> QED BY ONLY <3>1, <3>2, <3>3, <4>1, <4>3
    <3>5. CASE queue[k] # d
      <4>1. Of(Again, d)' \subseteq Of(Again, d) \cup {} /\ doubts'[d] = doubts[d]
        BY <1>1, <1>3, <2>1, <2>2, <3>5 DEF Of
      <4>2. Cardinality({}) = 0
        BY FS_EmptySet
      <4>3. /\ Cardinality(Of(Again, d)') \in Nat
            /\ Cardinality(Of(Again, d)') <= Cardinality(Of(Again, d)) + 0
        BY <3>1, <4>1, <4>2, CountUnion
      <4> QED BY ONLY <3>1, <3>2, <3>3, <4>1, <4>3
    <3> QED BY <3>4, <3>5
  <2> QED BY <2>3 DEF Budget
<1> QED BY <1>1, <1>2, <1>3

(* What the agent publishes was out.                                       *)
LEMMA BudgetRelay ==
    ASSUME BaseInv, Budget, Relay
    PROVE  Budget'
<1>1. PICK k \in Out :
              /\ Out' = Out \ {k} /\ Unmarked = {} /\ Unmarked' = {}
              /\ \/ delivered' = [delivered EXCEPT ![queue[k]] = @ + 1]
                 \/ UNCHANGED delivered
              /\ UNCHANGED <<storeVars, accepted, doubts>>
  BY RelayOut
<1>2. Again' = Again /\ UNCHANGED <<queue, accepted, doubts>>
  BY <1>1 DEF Again, Pending, storeVars
<1>3. CASE UNCHANGED delivered
  <2>1. Out' \subseteq Out /\ UNCHANGED <<queue, delivered, accepted, doubts>>
    BY <1>1, <1>2, <1>3
  <2> QED BY <1>2, <2>1, BudgetKept
<1>4. CASE delivered' = [delivered EXCEPT ![queue[k]] = @ + 1]
  <2>1. /\ accepted \in [Sendings -> Nat] /\ doubts \in [Sendings -> Nat]
        /\ delivered \in [Sendings -> Nat] /\ queue[k] \in Sendings
    BY OutFacts, RowFacts DEF BaseInv, TypeOK
  <2>2. ASSUME NEW d \in Sendings
        PROVE  delivered'[d] + Cardinality(Of(Out, d)') + Cardinality(Of(Again, d)')
                  <= accepted'[d] + doubts'[d]
    <3>1. /\ IsFiniteSet(DOMAIN queue) /\ Of(Out, d) \subseteq DOMAIN queue
          /\ Cardinality(Of(Out, d)) \in Nat /\ Cardinality(Of(Again, d)) \in Nat
      BY OfFacts
    <3>2. Of(Again, d)' = Of(Again, d) /\ Of(Out, d)' = Of(Out, d) \ {k}
      BY <1>1, <1>2 DEF Of
    <3>3. /\ delivered[d] + Cardinality(Of(Out, d)) + Cardinality(Of(Again, d))
                <= accepted[d] + doubts[d]
          /\ delivered[d] \in Nat /\ accepted[d] \in Nat /\ doubts[d] \in Nat
          /\ doubts'[d] = doubts[d] /\ accepted'[d] = accepted[d]
      BY <1>2, <2>1 DEF Budget
    <3>4. /\ Cardinality(Of(Out, d) \ {k}) \in Nat
          /\ Cardinality(Of(Out, d) \ {k}) <= Cardinality(Of(Out, d))
          /\ k \in Of(Out, d) => Cardinality(Of(Out, d)) = Cardinality(Of(Out, d) \ {k}) + 1
      BY <3>1, CountOne
    <3>5. CASE queue[k] = d
      <4>1. k \in Of(Out, d) /\ delivered'[d] = delivered[d] + 1
        BY <1>1, <1>4, <2>1, <3>5 DEF Of
      <4> QED BY ONLY <3>1, <3>2, <3>3, <3>4, <4>1
    <3>6. CASE queue[k] # d
      <4>1. delivered'[d] = delivered[d]
        BY <1>4, <2>1, <3>6
      <4> QED BY ONLY <3>1, <3>2, <3>3, <3>4, <4>1
    <3> QED BY <3>5, <3>6
  <2> QED BY <2>2 DEF Budget
<1> QED BY <1>1, <1>3, <1>4

(* Every step keeps the budget.                                            *)
LEMMA BudgetStep ==
    ASSUME BaseInv, Budget, QueuedAccepted, [Next]_vars
    PROVE  Budget' /\ QueuedAccepted'
<1>0. ASSUME UNCHANGED <<queue, accepted>> PROVE QueuedAccepted'
  BY <1>0 DEF QueuedAccepted
<1>1. ASSUME NEW c \in Sendings, NEW n \in 1..Tries[c], Forward(c, n)
      PROVE  Budget' /\ QueuedAccepted'
  BY <1>1, BudgetForward
<1>2. ASSUME \/ \E key \in Keys : Cleanup(key)
             \/ \E c \in Sendings : \E n \in 1..Tries[c] :
                   Reserve(c, n) \/ Duplicate(c, n) \/ Refuse(c, n)
      PROVE  Budget' /\ QueuedAccepted'
  <2>1. Out' = Out /\ Unmarked' = Unmarked /\ acked' = acked
    BY <1>2, ApiOut
  <2>2. UNCHANGED <<queue, delivered, accepted, doubts>>
    BY <1>2 DEF Cleanup, Reserve, Duplicate, Refuse, storeVars, seenVars
  <2>3. Again' = Again
    BY <2>1, <2>2 DEF Again, Pending
  <2> QED BY <1>0, <2>1, <2>2, <2>3, BudgetKept
<1>3. ASSUME NEW h \in Slots, Fetch(h) PROVE Budget' /\ QueuedAccepted'
  <2>1. /\ \/ /\ waiting = h /\ Out = {} /\ Unmarked = {}
              /\ Out' = Pending /\ Unmarked' = Pending
           \/ waiting # h /\ Out' = Out /\ Unmarked' = Unmarked
        /\ UNCHANGED <<queue, delivered, accepted, doubts>> /\ Pending' = Pending
    BY <1>3, FetchOut DEF storeVars, seenVars
  <2>2. \/ Out = {} /\ Out' = Again /\ Again' = {}
        \/ Out' = Out /\ Again' = Again
    BY <2>1 DEF Again
  <2> QED BY <1>0, <2>1, <2>2, BudgetKept
<1>4. ASSUME NEW h \in Slots, Ack(h) PROVE Budget' /\ QueuedAccepted'
  <2>1. UNCHANGED <<queue, accepted>>
    BY <1>4 DEF Ack
  <2> QED BY <1>0, <1>4, <2>1, BudgetAck
<1>5. ASSUME NEW h \in Slots, Answer(h) \/ Heartbeat(h) PROVE Budget' /\ QueuedAccepted'
  <2>1. Out' = Out /\ Again' = Again /\ UNCHANGED <<queue, delivered, accepted, doubts>>
    BY <1>5, AnswerOut DEF Again, Pending, storeVars, seenVars
  <2> QED BY <1>0, <2>1, BudgetKept
<1>6. ASSUME Relay PROVE Budget' /\ QueuedAccepted'
  <2>1. UNCHANGED <<queue, accepted>>
    BY <1>6 DEF Relay, storeVars
  <2> QED BY <1>0, <1>6, <2>1, BudgetRelay
<1>7. ASSUME SyncDone \/ GiveUp \/ AgentCrash PROVE Budget' /\ QueuedAccepted'
  <2>1. Out' = {} /\ Unmarked' = {} /\ UNCHANGED <<queue, acked, delivered, accepted, doubts>>
    BY <1>7, StopOut DEF storeVars, seenVars
  <2>2. Again' \subseteq Again \cup Out
    BY <2>1, OutFacts DEF Again, Pending
  <2> QED BY <1>0, <2>1, <2>2, BudgetKept
<1>8. ASSUME Crash PROVE Budget' /\ QueuedAccepted'
  <2>1. /\ Unmarked' = {} /\ acked \subseteq acked'
        /\ \/ Out' = Out /\ Unmarked = {}
           \/ Out' = {}
        /\ UNCHANGED <<queue, delivered, accepted, doubts>>
    BY <1>8, CrashOut
  <2>2. \/ Out' = Out /\ Again' \subseteq Again
        \/ Out' = {} /\ Again' \subseteq Again \cup Out
    BY <2>1, OutFacts DEF Again, Pending
  <2> QED BY <1>0, <2>1, <2>2, BudgetKept
<1>9. CASE UNCHANGED vars
  <2>1. Out' = Out /\ Again' = Again /\ UNCHANGED <<queue, delivered, accepted, doubts>>
    BY <1>9 DEF vars, storeVars, agentVars, seenVars, Out, Unmarked, Again, Pending
  <2> QED BY <1>0, <2>1, BudgetKept
<1> QED BY <1>1, <1>2, <1>3, <1>4, <1>5, <1>6, <1>7, <1>8, <1>9
       DEF Next, Api, Server, Agent, Failure

-----------------------------------------------------------------------------
(* The refinement *)

(* A forwarded command is one CommandDelivery may accept.                  *)
LEMMA ForwardAccepts ==
    ASSUME BaseInv, KeyOnce, NEW c \in Sendings, NEW n \in 1..Tries[c], Forward(c, n)
    PROVE  Delivery!Accept(c)
<1>1. c.key \notin spent
  <2>1. CASE c.key = NoKey
    BY <2>1 DEF BaseInv, TypeOK, Keys
  <2>2. CASE c.key # NoKey
    BY <2>2, AttemptOf DEF Forward, KeyOnce, Holds
  <2> QED BY <2>1, <2>2
<1> QED BY <1>1 DEF Forward, Delivery!Accept

(* An acknowledgement that fails is a doubt about an accepted command.     *)
LEMMA AckDoubts ==
    ASSUME BaseInv, QueuedAccepted, NEW h \in Slots, Ack(h)
    PROVE  \/ UNCHANGED <<accepted, doubts, delivered, spent>>
           \/ \E c \in Sendings : Delivery!Doubt(c)
<1>1. PICK k \in DOMAIN queue :
              /\ \/ UNCHANGED doubts
                 \/ doubts' = [doubts EXCEPT ![queue[k]] = @ + 1]
              /\ UNCHANGED <<accepted, spent, delivered>>
  BY AckOut
<1>2. queue[k] \in Sendings /\ accepted[queue[k]] > 0
  BY RowFacts DEF BaseInv, QueuedAccepted
<1> QED BY <1>1, <1>2 DEF Delivery!Doubt

(* What the agent publishes, CommandDelivery may deliver.                  *)
LEMMA RelayDelivers ==
    ASSUME BaseInv, Budget, Relay
    PROVE  \/ UNCHANGED <<accepted, doubts, delivered, spent>>
           \/ \E c \in Sendings : Delivery!Deliver(c)
<1>1. PICK k \in Out :
              /\ \/ delivered' = [delivered EXCEPT ![queue[k]] = @ + 1]
                 \/ UNCHANGED delivered
              /\ UNCHANGED <<accepted, doubts, spent>>
  BY RelayOut
<1>2. k \in DOMAIN queue /\ queue[k] \in Sendings
  BY OutFacts, RowFacts DEF BaseInv
<1> DEFINE c == queue[k]
<1>3. /\ Cardinality(Of(Out, c)) \in Nat /\ Cardinality(Of(Again, c)) \in Nat
      /\ IsFiniteSet(DOMAIN queue) /\ Of(Out, c) \in SUBSET DOMAIN queue
  BY OfFacts
<1>4. Cardinality(Of(Out, c)) >= 1
  <2>1. k \in Of(Out, c)
    BY <1>1 DEF Of
  <2>2. /\ Cardinality(Of(Out, c) \ {k}) \in Nat
        /\ Cardinality(Of(Out, c)) = Cardinality(Of(Out, c) \ {k}) + 1
    BY <1>3, <2>1, CountOne
  <2> QED BY <2>2
<1>5. /\ delivered[c] + Cardinality(Of(Out, c)) + Cardinality(Of(Again, c))
            <= accepted[c] + doubts[c]
      /\ delivered[c] \in Nat /\ accepted[c] \in Nat /\ doubts[c] \in Nat
  BY <1>2 DEF Budget, BaseInv, TypeOK
<1>6. delivered[c] < accepted[c] + doubts[c]
  BY ONLY <1>3, <1>4, <1>5
<1> QED BY <1>1, <1>2, <1>6 DEF Delivery!Deliver

(* Every step of the relay is a step of CommandDelivery or changes nothing *)
(* that it speaks of.                                                      *)
LEMMA DeliveryStep ==
    ASSUME BaseInv, KeyOnce, Budget, QueuedAccepted, [Next]_vars
    PROVE  [Delivery!Next]_(Delivery!channel)
<1> DEFINE Quiet == UNCHANGED <<accepted, doubts, delivered, spent>>
<1>1. ASSUME NEW c \in Sendings, NEW n \in 1..Tries[c], Forward(c, n) PROVE Delivery!Next
  BY <1>1, ForwardAccepts DEF Delivery!Next
<1>2. ASSUME NEW key \in Keys, Cleanup(key) PROVE Delivery!Next
  <2>1. Delivery!Expire
    BY <1>2 DEF Cleanup, Delivery!Expire
  <2> QED BY <2>1 DEF Delivery!Next
<1>3. ASSUME NEW h \in Slots, Ack(h) PROVE Delivery!Next \/ Quiet
  BY <1>3, AckDoubts DEF Delivery!Next
<1>4. ASSUME Relay PROVE Delivery!Next \/ Quiet
  BY <1>4, RelayDelivers DEF Delivery!Next
<1>5. ASSUME Crash PROVE Delivery!Next \/ Quiet
  <2>1. UNCHANGED <<accepted, doubts, delivered>> /\ spent' \in {spent, {}}
    BY <1>5, CrashDoes DEF BaseInv
  <2>2. Delivery!Expire
    BY <2>1 DEF Delivery!Expire
  <2> QED BY <2>2 DEF Delivery!Next
<1>6. ASSUME \/ \E c \in Sendings : \E n \in 1..Tries[c] :
                   Reserve(c, n) \/ Duplicate(c, n) \/ Refuse(c, n)
             \/ \E h \in Slots : Fetch(h) \/ Answer(h) \/ Heartbeat(h)
             \/ SyncDone \/ GiveUp \/ AgentCrash \/ UNCHANGED vars
      PROVE  Quiet
  BY <1>6 DEF Reserve, Duplicate, Refuse, Fetch, Answer, Heartbeat, SyncDone, GiveUp,
              AgentCrash, vars, seenVars
<1>7. Delivery!Next \/ Quiet
  BY <1>1, <1>2, <1>3, <1>4, <1>5, <1>6 DEF Next, Api, Server, Agent, Failure
<1> QED BY <1>7 DEF Delivery!channel

(* The whole way of a command, from the request to the robot, does what    *)
(* CommandDelivery promises: a key admits one command while it lasts, and  *)
(* no command reaches its robot more often than it was accepted and its    *)
(* acknowledgement failed, whatever is retried, lost, late or crashes.     *)
THEOREM Refinement == Spec => RefinesDelivery
<1>1. Init => Delivery!Init
  BY DEF Init, Delivery!Init
<1>2. Init => Budget /\ QueuedAccepted
  <2> SUFFICES ASSUME Init PROVE Budget /\ QueuedAccepted
    OBVIOUS
  <2>1. queue = <<>> /\ DOMAIN queue = {} /\ Out = {}
    BY DEF Init, Out
  <2>2. Again = {}
    BY InitKeys, OutFacts, <2>1
  <2>3. \A c : Of(Out, c) = {} /\ Of(Again, c) = {}
    BY <2>1, <2>2 DEF Of
  <2>4. Cardinality({}) = 0
    BY FS_EmptySet
  <2>5. Budget
    <3>1. \A c \in Sendings : delivered[c] = 0 /\ accepted[c] = 0 /\ doubts[c] = 0
      BY DEF Init
    <3>2. \A c \in Sendings : Cardinality(Of(Out, c)) = 0 /\ Cardinality(Of(Again, c)) = 0
      BY <2>3, <2>4
    <3> QED BY ONLY <3>1, <3>2 DEF Budget
  <2> QED BY <2>1, <2>5 DEF QueuedAccepted
<1>3. BaseInv /\ Budget /\ QueuedAccepted /\ [Next]_vars => (Budget /\ QueuedAccepted)'
  BY BudgetStep
<1>4. BaseInv /\ KeyOnce /\ Budget /\ QueuedAccepted /\ [Next]_vars
         => [Delivery!Next]_(Delivery!channel)
  BY DeliveryStep
<1> QED BY <1>1, <1>2, <1>3, <1>4, KeysInvariant, PTL DEF Spec, RefinesDelivery, Delivery!Spec

==============================================================================
