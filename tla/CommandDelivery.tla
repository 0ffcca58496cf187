--------------------------- MODULE CommandDelivery ---------------------------
(***************************************************************************)
(* What clients of POST /v1/robots/{id}/command may rely on: every command *)
(* that reaches a robot was accepted, one command is accepted under an     *)
(* idempotency key while that is valid, and a command reaches its robot at *)
(* most as often as it was accepted, or once more each time the store      *)
(* failed to record that it was handed out.  Nothing says that a command   *)
(* must be accepted or must arrive.                                        *)
(* CommandRelay implements this.                                           *)
(***************************************************************************)
EXTENDS Naturals

CONSTANTS
    CommandSet,  \* the commands operators may send
    KeyOf,       \* KeyOf[c]: the Idempotency-Key c is sent with
    Absent       \* that of a command sent without one

VARIABLES
    accepted,  \* accepted[c]: how often c was accepted
    doubts,    \* doubts[c]: how often it is unknown whether c was handed out
    delivered, \* delivered[c]: how often c reached its robot
    taken      \* valid keys under which a command was accepted

channel == <<accepted, doubts, delivered, taken>>

Init ==
    /\ accepted = [c \in CommandSet |-> 0]
    /\ doubts = [c \in CommandSet |-> 0]
    /\ delivered = [c \in CommandSet |-> 0]
    /\ taken = {}

(* On the bus a command is delivered as it is accepted.                    *)
Accept(c) ==
    /\ KeyOf[c] \notin taken
    /\ accepted' = [accepted EXCEPT ![c] = @ + 1]
    /\ delivered' \in {delivered, [delivered EXCEPT ![c] = @ + 1]}
    /\ taken' = taken \cup ({KeyOf[c]} \ {Absent})
    /\ UNCHANGED doubts

Deliver(c) ==
    /\ delivered[c] < accepted[c] + doubts[c]
    /\ delivered' = [delivered EXCEPT ![c] = @ + 1]
    /\ UNCHANGED <<accepted, doubts, taken>>

(* The store could not record that a command was handed out, so it will be *)
(* handed out again.                                                       *)
Doubt(c) ==
    /\ accepted[c] > 0
    /\ doubts' = [doubts EXCEPT ![c] = @ + 1]
    /\ UNCHANGED <<accepted, delivered, taken>>

(* Keys expire.                                                            *)
Expire ==
    /\ taken' \in SUBSET taken
    /\ UNCHANGED <<accepted, doubts, delivered>>

Next ==
    \/ \E c \in CommandSet : Accept(c) \/ Deliver(c) \/ Doubt(c)
    \/ Expire

Spec == Init /\ [][Next]_channel
==============================================================================
