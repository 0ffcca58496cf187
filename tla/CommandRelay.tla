---------------------------- MODULE CommandRelay -----------------------------
(***************************************************************************)
(* The way of an operator's command to a robot: sendCommand in the API,    *)
(* which claims the idempotency key, checks the command and publishes it   *)
(* on the bus or, for a robot behind an edge, queues it in the edge store; *)
(* the heartbeat handler, which hands queued commands out and marks them;  *)
(* and the edge agent (pkg/edge), which checks them again and publishes    *)
(* them at the robot's site.  Clients retry, requests end early, answers   *)
(* get lost, database writes fail, processes crash.                        *)
(***************************************************************************)
EXTENDS Naturals, Sequences, FiniteSets, ScenarioCatalog

CONSTANTS
    Sendings,   \* the commands operators send
    Tries,      \* bound: Tries[c] requests are made for the command c
    MaxFaults,  \* bound: faults of network, database and processes
    MaxExpired, \* bound: times a key expires
    Slots,      \* bound: heartbeat requests in the server at the same time
    Persistent  \* TRUE: SQL stores, FALSE: in-memory stores

NoKey == ""  \* no Idempotency-Key header

(* A command for a robot, and the key its requests carry.  Nothing keeps   *)
(* a client from sending other commands, to other robots, under that key.  *)
SendingType == [id : STRING, name : STRING, payloadOk : BOOLEAN, key : STRING,
                atEdge : BOOLEAN]

ASSUME SendingsAssumption == Sendings \subseteq SendingType
ASSUME RelayBounds == Tries \in [Sendings -> Nat] /\ {MaxFaults, MaxExpired} \subseteq Nat
ASSUME PersistentAssumption == Persistent \in BOOLEAN

Attempts == UNION {{c} \X (1..Tries[c]) : c \in Sendings}
Keys == {c.key : c \in Sendings} \ {NoKey}
ASSUME AttemptsAssumption == IsFiniteSet(Attempts)

NoSlot == "none"
ASSUME SlotsAssumption == NoSlot \notin Slots

VARIABLES
    \* sendCommand
    reserved,  \* the idempotency keys in the key store
    attempt,   \* attempt[a]: how far the request a has got
    \* the edge store
    queue,     \* edge_commands in the order they were inserted
    acked,     \* its rows with acked_at set
    \* edgeHeartbeat
    beat,      \* beat[h]: the heartbeat request in slot h
    \* the edge agent
    agent,     \* "idle", "waiting" for an answer or "relaying"
    waiting,   \* the heartbeat it waits for
    inbox,     \* rows of the answer it has not dealt with yet
    \* what happened
    faults,    \* faults so far
    expired,   \* expirations so far
    accepted,  \* accepted[c]: times c was forwarded
    doubts,    \* doubts[c]: times its acknowledgement failed
    spent,     \* keys in the store under which a command was forwarded
    delivered, \* delivered[c]: times c was published to its robot
    sent,      \* sent[k]: times row k was published by the agent
    flawed,    \* rows handed out whose acknowledgement failed
    refused    \* rows the edge's own safety filter refused

keyVars   == <<reserved, expired>>
storeVars == <<queue, acked>>
agentVars == <<agent, waiting, inbox>>
seenVars  == <<accepted, doubts, spent, delivered, sent, flawed, refused>>
vars == <<keyVars, attempt, storeVars, beat, agentVars, faults, seenVars>>

Rows == 1..Cardinality(Attempts)
Idle == [at |-> "idle", batch |-> {}, left |-> {}]

Fault == faults < MaxFaults /\ faults' = faults + 1

-----------------------------------------------------------------------------
(* sendCommand *)

SetAttempt(a, s) == attempt' = [attempt EXCEPT ![a] = s]

First(c, n) == \A m \in 1..(n - 1) : attempt[<<c, m>>] # "none"

(* A request arrives for a registered robot and claims its key, which the  *)
(* store does in one statement; the store knows the key alone, whatever    *)
(* robot and command it came with.  There may be no key at all.            *)
Reserve(c, n) ==
    /\ attempt[<<c, n>>] = "none" /\ First(c, n)
    /\ c.key \notin reserved
    /\ reserved' = reserved \cup ({c.key} \ {NoKey})
    /\ SetAttempt(<<c, n>>, "handling")
    /\ UNCHANGED <<expired, storeVars, beat, agentVars, faults, seenVars>>

(* Faulty variant: a duplicate is handled like a first request.            *)
DuplicateHandled(c, n) ==
    /\ attempt[<<c, n>>] = "none" /\ First(c, n)
    /\ c.key \in reserved
    /\ SetAttempt(<<c, n>>, "handling")
    /\ UNCHANGED <<keyVars, storeVars, beat, agentVars, faults, seenVars>>

(* The key is taken: 202 without a look at what became of the first one.   *)
Duplicate(c, n) ==
    /\ attempt[<<c, n>>] = "none" /\ First(c, n)
    /\ c.key \in reserved
    /\ SetAttempt(<<c, n>>, "accepted")
    /\ UNCHANGED <<keyVars, storeVars, beat, agentVars, faults, seenVars>>

(* The request ends with an error: the key could not be stored (500); or   *)
(* the body did not decode (400), the safety filter refused (403), or the  *)
(* edge store or the bus failed (500), and the key stays claimed.          *)
Refuse(c, n) ==
    /\ \/ /\ attempt[<<c, n>>] = "none" /\ First(c, n) /\ c.key # NoKey
          /\ SetAttempt(<<c, n>>, "unclaimed")
       \/ attempt[<<c, n>>] = "handling" /\ SetAttempt(<<c, n>>, "refused")
    /\ UNCHANGED <<keyVars, storeVars, beat, agentVars, faults, seenVars>>

(* Faulty variant: the edge store's error is dropped and 202 answered.     *)
ForwardIgnoresError(c, n) ==
    /\ attempt[<<c, n>>] = "handling"
    /\ SafetyAllow(c.name, c.payloadOk)
    /\ c.atEdge
    /\ SetAttempt(<<c, n>>, "accepted")
    /\ UNCHANGED <<keyVars, storeVars, beat, agentVars, faults, seenVars>>

(* The command passes SafetyAllow and goes to the edge's queue             *)
(* (EnqueueCommand) or to the bus (PublishCommand); then 202.              *)
Forward(c, n) ==
    /\ attempt[<<c, n>>] = "handling"
    /\ SafetyAllow(c.name, c.payloadOk)
    /\ IF c.atEdge
       THEN queue' = Append(queue, c) /\ UNCHANGED delivered
       ELSE delivered' = [delivered EXCEPT ![c] = @ + 1] /\ UNCHANGED queue
    /\ accepted' = [accepted EXCEPT ![c] = @ + 1]
    /\ spent' = spent \cup ({c.key} \ {NoKey})
    /\ SetAttempt(<<c, n>>, "accepted")
    /\ UNCHANGED <<keyVars, acked, beat, agentVars, faults, doubts, sent, flawed, refused>>

(* The hourly Cleanup removes a key after 24 hours; no request lasts that  *)
(* long.                                                                   *)
Cleanup(key) ==
    /\ key \in reserved /\ expired < MaxExpired
    /\ \A a \in Attempts : a[1].key = key => attempt[a] # "handling"
    /\ reserved' = reserved \ {key}
    /\ spent' = spent \ {key}
    /\ expired' = expired + 1
    /\ UNCHANGED <<attempt, storeVars, beat, agentVars, faults, accepted, doubts, delivered,
                   sent, flawed, refused>>

-----------------------------------------------------------------------------
(* edgeHeartbeat *)

(* Rows of the edge with acked_at still null.                              *)
Pending == {k \in 1..Len(queue) : k \notin acked}

(* Faulty variant: newest first.                                           *)
Newest(S) == {k \in S : \A j \in S : j <= k}

(* Rows are read, marked and answered in the order of their creation.      *)
Oldest(S) == {k \in S : \A j \in S : k <= j}

(* The SELECT of FetchAndAckPendingCommands (after UpsertEdge).            *)
Fetch(h) ==
    /\ beat[h].at = "arrived"
    /\ beat' = [beat EXCEPT ![h] = [at |-> "acking", batch |-> Pending, left |-> Pending]]
    /\ UNCHANGED <<keyVars, attempt, storeVars, agentVars, faults, seenVars>>

(* UPDATE of one row, its error dropped.  When the agent has given up, the *)
(* request's context is cancelled and the statement fails by itself.       *)
Ack(h) ==
    /\ beat[h].at = "acking"
    /\ \E k \in Oldest(beat[h].left) :
          /\ beat' = [beat EXCEPT ![h].left = @ \ {k}]
          /\ \/ acked' = acked \cup {k} /\ UNCHANGED <<faults, doubts, flawed>>
             \/ waiting # h /\ UNCHANGED <<acked, faults, doubts, flawed>>
             \/ /\ waiting = h /\ Fault
                /\ flawed' = flawed \cup {k}
                /\ doubts' = [doubts EXCEPT ![queue[k]] = @ + 1]
                /\ UNCHANGED acked
    /\ UNCHANGED <<keyVars, attempt, queue, agentVars, accepted, spent, delivered, sent, refused>>

(* Faulty variant: the rows are read again after they were marked.         *)
AnswerEmpty(h) ==
    /\ beat[h].at = "acking" /\ beat[h].left = {}
    /\ beat' = [beat EXCEPT ![h] = Idle]
    /\ IF waiting = h
       THEN agent' = "relaying" /\ waiting' = NoSlot /\ inbox' = Pending
       ELSE UNCHANGED agentVars
    /\ UNCHANGED <<keyVars, attempt, storeVars, faults, seenVars>>

(* The answer reaches the agent if it still waits for it.                  *)
Answer(h) ==
    /\ beat[h].at = "acking" /\ beat[h].left = {}
    /\ beat' = [beat EXCEPT ![h] = Idle]
    /\ IF waiting = h
       THEN agent' = "relaying" /\ waiting' = NoSlot /\ inbox' = beat[h].batch
       ELSE UNCHANGED agentVars
    /\ UNCHANGED <<keyVars, attempt, storeVars, faults, seenVars>>

-----------------------------------------------------------------------------
(* The edge agent *)

(* A tick of Run: Sync posts a heartbeat (in any free slot).               *)
Heartbeat(h) ==
    /\ agent = "idle" /\ beat[h].at = "idle"
    /\ h = CHOOSE g \in Slots : beat[g].at = "idle"
    /\ beat' = [beat EXCEPT ![h].at = "arrived"]
    /\ agent' = "waiting" /\ waiting' = h
    /\ UNCHANGED <<keyVars, attempt, storeVars, inbox, faults, seenVars>>

(* The heartbeat fails at the agent: timeout, broken connection, a status  *)
(* other than 200.  The handler may go on.                                 *)
GiveUp ==
    /\ agent = "waiting" /\ Fault
    /\ agent' = "idle" /\ waiting' = NoSlot
    /\ UNCHANGED <<keyVars, attempt, storeVars, beat, inbox, seenVars>>

(* The edge's copy of SafetyAllow has no case for navigate_to.             *)
EdgeAllows(c) == c.name # "navigate_to" /\ SafetyAllow(c.name, c.payloadOk)

(* One round of the loop over PendingCommands: refused, not published      *)
(* because the local bus failed, or published.                             *)
Relay ==
    /\ agent = "relaying"
    /\ \E k \in Oldest(inbox) :
          LET c == queue[k] IN
          /\ inbox' = inbox \ {k}
          /\ \/ /\ EdgeAllows(c)
                /\ delivered' = [delivered EXCEPT ![c] = @ + 1]
                /\ sent' = [sent EXCEPT ![k] = @ + 1]
                /\ UNCHANGED <<faults, refused>>
             \/ EdgeAllows(c) /\ Fault /\ UNCHANGED <<delivered, sent, refused>>
             \/ ~EdgeAllows(c) /\ refused' = refused \cup {k} /\ UNCHANGED <<faults, delivered, sent>>
    /\ UNCHANGED <<keyVars, attempt, storeVars, beat, agent, waiting, accepted, doubts, spent,
                   flawed>>

SyncDone ==
    /\ agent = "relaying" /\ inbox = {}
    /\ agent' = "idle"
    /\ UNCHANGED <<keyVars, attempt, storeVars, beat, waiting, inbox, faults, seenVars>>

(* The agent's process ends and starts again; it keeps nothing.            *)
AgentCrash ==
    /\ agent # "idle" /\ Fault
    /\ agent' = "idle" /\ waiting' = NoSlot /\ inbox' = {}
    /\ UNCHANGED <<keyVars, attempt, storeVars, beat, seenVars>>

(* The control plane ends and starts again.  Requests in flight are gone,  *)
(* and with in-memory stores the keys and the queue.                       *)
Crash ==
    /\ Fault
    /\ attempt' = [a \in Attempts |-> IF attempt[a] = "handling" THEN "lost" ELSE attempt[a]]
    /\ beat' = [h \in Slots |-> Idle]
    /\ agent' = (IF agent = "waiting" THEN "idle" ELSE agent) /\ waiting' = NoSlot
    /\ IF Persistent
       THEN UNCHANGED <<reserved, spent, acked>>
       ELSE reserved' = {} /\ spent' = {} /\ acked' = DOMAIN queue
    /\ UNCHANGED <<expired, queue, inbox, accepted, doubts, delivered, sent, flawed, refused>>

-----------------------------------------------------------------------------
Init ==
    /\ reserved = {} /\ expired = 0
    /\ attempt = [a \in Attempts |-> "none"]
    /\ queue = <<>> /\ acked = {}
    /\ beat = [h \in Slots |-> Idle]
    /\ agent = "idle" /\ waiting = NoSlot /\ inbox = {}
    /\ faults = 0
    /\ accepted = [c \in Sendings |-> 0]
    /\ doubts = [c \in Sendings |-> 0]
    /\ delivered = [c \in Sendings |-> 0]
    /\ sent = [k \in Rows |-> 0]
    /\ spent = {} /\ flawed = {} /\ refused = {}

Api ==
    \/ \E c \in Sendings : \E n \in 1..Tries[c] :
          Reserve(c, n) \/ Duplicate(c, n) \/ Refuse(c, n) \/ Forward(c, n)
    \/ \E key \in Keys : Cleanup(key)

Server(h) == Fetch(h) \/ Ack(h) \/ Answer(h)
Agent == (\E h \in Slots : Heartbeat(h)) \/ Relay \/ SyncDone
Failure == GiveUp \/ AgentCrash \/ Crash

Next == Api \/ (\E h \in Slots : Server(h)) \/ Agent \/ Failure

Spec == Init /\ [][Next]_vars

(* The agent's loop and the server's request goroutines keep running.      *)
FairSpec == Spec /\ WF_vars(Agent) /\ \A h \in Slots : WF_vars(Server(h))
-----------------------------------------------------------------------------
(* Properties *)

AttemptStates == {"none", "unclaimed", "handling", "accepted", "refused", "lost"}
BeatType == [at : {"idle", "arrived", "acking"}, batch : SUBSET Rows, left : SUBSET Rows]

TypeOK ==
    /\ reserved \subseteq Keys /\ expired \in 0..MaxExpired
    /\ attempt \in [Attempts -> AttemptStates]
    /\ queue \in Seq(Sendings) /\ Len(queue) <= Cardinality(Attempts)
    /\ acked \subseteq DOMAIN queue
    /\ beat \in [Slots -> BeatType]
    /\ agent \in {"idle", "waiting", "relaying"}
    /\ waiting \in Slots \cup {NoSlot}
    /\ inbox \subseteq Rows
    /\ faults \in 0..MaxFaults
    /\ accepted \in [Sendings -> Nat] /\ doubts \in [Sendings -> Nat]
    /\ delivered \in [Sendings -> Nat]
    /\ sent \in [Rows -> Nat]
    /\ spent \subseteq reserved
    /\ flawed \subseteq DOMAIN queue /\ refused \subseteq DOMAIN queue

(* The relay keeps what CommandDelivery promises: a key admits one command *)
(* while it is valid, however often and with whatever it is sent, and a    *)
(* command reaches its robot no more often than it was accepted, plus once *)
(* per failed acknowledgement.                                             *)
Delivery == INSTANCE CommandDelivery WITH CommandSet <- Sendings,
                                          KeyOf <- [c \in Sendings |-> c.key],
                                          Absent <- NoKey, taken <- spent
RefinesDelivery == Delivery!Spec

(* At the edge a command is published neither twice nor after a newer one, *)
(* so a safe_stop is not followed by the motion it was to end, unless the  *)
(* database failed to mark the older row: heartbeats that time out while   *)
(* their handler goes on, lost answers and crashes do not reorder.         *)
EdgeOrder ==
    [][\A k \in Rows : sent'[k] > sent[k] =>
          k \in flawed \/ \A j \in Rows : j >= k => sent[j] = 0]_vars

(* The requests that claimed the key of c and so keep c from being         *)
(* forwarded: they are still handled, failed, or carried another command,  *)
(* perhaps for another robot, which was forwarded instead.                 *)
Rivals(c) ==
    {a \in Attempts : /\ a[1].key = c.key /\ c.key # NoKey
                      /\ \/ attempt[a] \in {"handling", "refused", "lost"}
                         \/ a[1] # c /\ attempt[a] = "accepted" /\ accepted[a[1]] > 0}

(* A command that was answered 202 was forwarded, unless such a request    *)
(* had its key: the 202 of a duplicate says nothing about the command it   *)
(* is given for, only that the key is taken, and nothing else is silent.   *)
SilentOnlyBehindRival ==
    \A a \in Attempts :
        attempt[a] = "accepted" /\ accepted[a[1]] = 0 => Rivals(a[1]) # {}

(* The relay catches up again and again: no row stays queued, whatever the *)
(* faults, and without a fault every queued command that the edge lets     *)
(* through has been published.                                             *)
EdgeDelivers ==
    []<>(/\ DOMAIN queue \subseteq acked
         /\ \A k \in DOMAIN queue : faults = 0 /\ EdgeAllows(queue[k]) => sent[k] > 0)

-----------------------------------------------------------------------------
(* What the code says of itself and does not do *)

(* pkg/edge/safety.go: the edge's filter mirrors the control plane's.  So  *)
(* what the API accepted is not refused at the edge; navigate_to is.       *)
EdgeMirrors == refused = {}
==============================================================================
