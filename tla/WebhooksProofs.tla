--------------------------- MODULE WebhooksProofs ----------------------------
(***************************************************************************)
(* Proofs that webhook delivery keeps its promises for every number of     *)
(* webhooks, endpoints and events, every retry limit and every failure     *)
(* threshold.  The inductive invariant adds to the properties what each    *)
(* stage of sendWithRetry has done so far.                                 *)
(***************************************************************************)
EXTENDS Webhooks, TLAPS

(* What a delivery r has behind it at each stage; dead says whether it is  *)
(* in the dead-letter store.                                               *)
Stage(r, dead) ==
    /\ r.pc \in {"none", "gate", "send"} => r.sent = r.attempt
    /\ r.pc \in {"ok", "error"} => r.sent = r.attempt + 1
    /\ r.sent <= r.attempt + 1
    /\ r.accepted <=> r.pc \in {"ok", "delivered"}
    /\ dead <=> r.pc = "dead"

Stages == \A d \in Deliveries : Stage(delivery[d], d \in deadLetters)

(* Dispatch starts goroutines only for an event that has none.             *)
Fresh == \A d \in Deliveries : d[1] \notin dispatched => delivery[d].pc = "none"

(* A circuit that is open and has not cooled down.                         *)
Blocked(u) == breakers[u].state = "open" /\ ~breakers[u].cooled

(* A delivery that met a circuit that was not closed found no other since: *)
(* its failure blocked the circuit, and what unblocks it clears the count. *)
Probed(d) ==
    probes[d] = 0 \/ (/\ probes[d] = 1
                      /\ delivery[d].pc \notin {"none", "send"}
                      /\ breakers[delivery[d].url].state # "closed"
                      /\ delivery[d].pc = "gate" => Blocked(delivery[d].url))

Probes == \A d \in Deliveries : Probed(d)

(* A breaker has counted no failure that did not happen.                   *)
FailuresReal == \A u \in Urls : breakers[u].failures <= failed[u]

(* Why a delivery was given up.                                            *)
Cause(d) ==
    GivenUp(d) => delivery[d].sent = Retries + 1 \/ failed[delivery[d].url] >= Threshold

Causes == \A d \in Deliveries : Cause(d)

Counts == Probes /\ FailuresReal /\ Causes

IndInv == TypeOK /\ BreakersConsistent /\ Stages /\ Fresh /\ Counts

-----------------------------------------------------------------------------
(* The circuit breaker's methods, one at a time. *)

(* A new circuit breaker is closed and consistent.                         *)
LEMMA NewBreaker == NewCircuitBreaker \in Breaker /\ Consistent(NewCircuitBreaker)
BY ThresholdAssumption DEF NewCircuitBreaker, Breaker, Consistent

(* Each method of the circuit breaker, and the passing of its timeout,     *)
(* keeps a breaker consistent.                                             *)
LEMMA BreakerSteps ==
  ASSUME NEW b \in Breaker, Consistent(b)
  PROVE  /\ Allow(b) \in Breaker /\ Consistent(Allow(b))
         /\ RecordSuccess(b) \in Breaker /\ Consistent(RecordSuccess(b))
         /\ RecordFailure(b) \in Breaker /\ Consistent(RecordFailure(b))
         /\ Cool(b) \in Breaker /\ Consistent(Cool(b))
<1>1. Allow(b) \in Breaker /\ Consistent(Allow(b))
  BY ThresholdAssumption DEF Breaker, Consistent, Allow
<1>2. RecordSuccess(b) \in Breaker /\ Consistent(RecordSuccess(b))
  BY ThresholdAssumption DEF Breaker, Consistent, RecordSuccess
<1>3. RecordFailure(b) \in Breaker /\ Consistent(RecordFailure(b))
  BY ThresholdAssumption DEF Breaker, Consistent, RecordFailure
<1>4. Cool(b) \in Breaker /\ Consistent(Cool(b))
  BY ThresholdAssumption DEF Breaker, Consistent, Cool
<1> QED BY <1>1, <1>2, <1>3, <1>4

-----------------------------------------------------------------------------
(* At first nothing was dispatched and every breaker is new.               *)
LEMMA InitInv ==
  ASSUME Init PROVE IndInv
<1>1. Idle \in Delivery
  BY RetriesAssumption, UrlsAssumption DEF Idle, Delivery, PC
<1>2. TypeOK
  BY <1>1, NewBreaker, RetriesAssumption DEF Init, TypeOK
<1>3. BreakersConsistent
  BY NewBreaker DEF Init, BreakersConsistent
<1>4. Stages
  BY DEF Init, Stages, Stage, Idle
<1>5. Fresh
  BY DEF Init, Fresh, Idle
<1>6. Counts
  BY DEF Init, Counts, Probes, Probed, FailuresReal, NewCircuitBreaker, Causes, Cause, GivenUp,
         Idle
<1> QED BY <1>2, <1>3, <1>4, <1>5, <1>6 DEF IndInv

(* Creating a webhook starts no delivery.                                  *)
LEMMA CreateWebhookInv ==
  ASSUME IndInv, NEW h \in Hooks, NEW w \in Hook, CreateWebhook(h, w)
  PROVE  IndInv'
<1>1. TypeOK'
  BY RetriesAssumption DEF IndInv, TypeOK, CreateWebhook, sendVars, observed, Hook
<1>2. BreakersConsistent' /\ Stages' /\ Fresh' /\ Counts'
  BY DEF IndInv, BreakersConsistent, Stages, Fresh, Counts, Probes, Probed,
     Blocked, FailuresReal, Causes, Cause, GivenUp, CreateWebhook, sendVars, observed
<1> QED BY <1>1, <1>2 DEF IndInv

(* The read of an update changes nothing deliveries depend on.             *)
LEMMA UpdateWebhookReadInv ==
  ASSUME IndInv, NEW h \in Hooks, NEW w \in Hook, UpdateWebhookRead(h, w)
  PROVE  IndInv'
<1>1. TypeOK'
  BY RetriesAssumption DEF IndInv, TypeOK, UpdateWebhookRead, sendVars, observed, Hook
<1>2. BreakersConsistent' /\ Stages' /\ Fresh' /\ Counts'
  BY DEF IndInv, BreakersConsistent, Stages, Fresh, Counts, Probes, Probed,
     Blocked, FailuresReal, Causes, Cause, GivenUp, UpdateWebhookRead, sendVars, observed
<1> QED BY <1>1, <1>2 DEF IndInv

(* Neither does its write: a delivery has its own copy of the webhook.     *)
LEMMA UpdateWebhookWriteInv ==
  ASSUME IndInv, NEW e, UpdateWebhookWrite(e)
  PROVE  IndInv'
<1>1. TypeOK'
  BY RetriesAssumption DEF IndInv, TypeOK, UpdateWebhookWrite, sendVars, observed, Hook
<1>2. BreakersConsistent' /\ Stages' /\ Fresh' /\ Counts'
  BY DEF IndInv, BreakersConsistent, Stages, Fresh, Counts, Probes, Probed,
     Blocked, FailuresReal, Causes, Cause, GivenUp, UpdateWebhookWrite, sendVars, observed
<1> QED BY <1>1, <1>2 DEF IndInv

(* Nor does deleting a webhook with deliveries under way.                  *)
LEMMA DeleteWebhookInv ==
  ASSUME IndInv, NEW h \in Hooks, DeleteWebhook(h)
  PROVE  IndInv'
<1>1. TypeOK'
  BY RetriesAssumption DEF IndInv, TypeOK, DeleteWebhook, sendVars, observed, Hook
<1>2. BreakersConsistent' /\ Stages' /\ Fresh' /\ Counts'
  BY DEF IndInv, BreakersConsistent, Stages, Fresh, Counts, Probes, Probed,
     Blocked, FailuresReal, Causes, Cause, GivenUp, DeleteWebhook, sendVars, observed
<1> QED BY <1>1, <1>2 DEF IndInv

(* Dispatch starts one fresh delivery for each webhook that asks for the   *)
(* event.                                                                  *)
LEMMA DispatchInv ==
  ASSUME IndInv, NEW e \in Events, NEW c \in {"background", "request"}, Dispatch(e, c)
  PROVE  IndInv'
<1> DEFINE new(h) == [pc |-> "gate", url |-> hooks[h].url, attempt |-> 0, sent |-> 0,
                      accepted |-> FALSE, ctx |-> c]
<1>1. ASSUME NEW h \in ListByEvent PROVE new(h) \in Delivery
  <2>1. hooks[h] \in Hook
    BY <1>1 DEF IndInv, TypeOK, ListByEvent, Exists
  <2> QED BY <2>1, RetriesAssumption DEF Delivery, PC, Hook
<1>2. ASSUME NEW d \in Deliveries
      PROVE  \/ delivery'[d] = delivery[d] /\ delivery[d].pc = delivery'[d].pc
             \/ /\ d[1] = e /\ d[2] \in ListByEvent
                /\ delivery'[d] = new(d[2]) /\ delivery[d].pc = "none"
  BY DEF Dispatch, IndInv, Fresh
<1>3. delivery' \in [Deliveries -> Delivery]
  <2>1. ASSUME NEW d \in Deliveries PROVE delivery'[d] \in Delivery
    BY <1>1, <1>2 DEF IndInv, TypeOK
  <2> QED BY <2>1 DEF Dispatch, IndInv, TypeOK
<1>4. TypeOK'
  BY <1>3 DEF IndInv, TypeOK, Dispatch, storeVars, observed
<1>5. BreakersConsistent'
  BY DEF IndInv, BreakersConsistent, Dispatch
<1>6. Stages'
  BY <1>2 DEF IndInv, Stages, Stage, Dispatch
<1>7. Fresh'
  BY <1>2 DEF IndInv, Fresh, Dispatch
<1>8. Counts'
  <2>1. ASSUME NEW d \in Deliveries PROVE Probed(d)' /\ Cause(d)'
    <3>1. CASE delivery'[d] = delivery[d]
      BY <3>1 DEF IndInv, Counts, Probes, Probed, Blocked, Causes, Cause, GivenUp, Dispatch,
                  observed
    <3>2. CASE delivery[d].pc = "none" /\ delivery'[d] = new(d[2])
      BY <3>2 DEF IndInv, Counts, Probes, Probed, Cause, GivenUp, Dispatch, observed
    <3> QED BY <1>2, <3>1, <3>2
  <2>2. FailuresReal'
    BY DEF IndInv, Counts, FailuresReal, Dispatch, observed
  <2> QED BY <2>1, <2>2 DEF Counts, Probes, Causes
<1> QED BY <1>4, <1>5, <1>6, <1>7, <1>8 DEF IndInv

(* The end of the request that dispatched an event only marks its          *)
(* deliveries.                                                             *)
LEMMA RequestEndsInv ==
  ASSUME IndInv, NEW e \in Events, RequestEnds(e)
  PROVE  IndInv'
<1>1. ASSUME NEW d \in Deliveries
      PROVE  \/ delivery'[d] = delivery[d]
             \/ delivery'[d] = [delivery[d] EXCEPT !.ctx = "over"]
  BY DEF RequestEnds
<1>2. delivery' \in [Deliveries -> Delivery]
  BY DEF RequestEnds, IndInv, TypeOK, Delivery
<1>3. TypeOK'
  BY <1>2 DEF IndInv, TypeOK, RequestEnds, storeVars, observed
<1>4. BreakersConsistent'
  BY DEF IndInv, BreakersConsistent, RequestEnds
<1>5. Stages' /\ Fresh'
  BY <1>1 DEF IndInv, TypeOK, Delivery, Stages, Stage, Fresh, RequestEnds
<1>6. Counts'
  <2>1. ASSUME NEW d \in Deliveries
        PROVE  /\ delivery'[d].pc = delivery[d].pc /\ delivery'[d].url = delivery[d].url
               /\ delivery'[d].sent = delivery[d].sent
    <3>1. delivery[d] \in Delivery
      BY DEF IndInv, TypeOK
    <3>2. CASE delivery'[d] = [delivery[d] EXCEPT !.ctx = "over"]
      BY <3>1, <3>2 DEF Delivery
    <3> QED BY <1>1, <3>2
  <2> QED BY <2>1 DEF IndInv, Counts, Probes, Probed, Blocked, FailuresReal, Causes, Cause,
                      GivenUp, RequestEnds, observed
<1> QED BY <1>3, <1>4, <1>5, <1>6 DEF IndInv

(* A delivery asks the breaker of its URL; an open one ends it.            *)
LEMMA GateInv ==
  ASSUME IndInv, NEW d \in Deliveries, Gate(d)
  PROVE  IndInv'
<1>1. TypeOK'
  BY BreakerSteps, RetriesAssumption DEF IndInv, TypeOK, BreakersConsistent, Gate, Becomes,
     Delivery, PC, storeVars, observed, BreakerOf
<1>2. BreakersConsistent'
  BY BreakerSteps, RetriesAssumption DEF IndInv, TypeOK, BreakersConsistent, Gate, Delivery,
     BreakerOf
<1>3. Stages'
  BY RetriesAssumption DEF IndInv, TypeOK, Stages, Stage, Gate, Becomes, Delivery, PC
<1>4. Fresh'
  BY DEF IndInv, TypeOK, Fresh, Gate, Becomes, Delivery
<1>5. Counts'
  <2>1. CASE Allows(BreakerOf(d))
    <3>1. probes[d] = 0
      BY <2>1 DEF IndInv, Counts, Probes, Probed, Blocked, Gate, Allows, BreakerOf
    <3>2. ASSUME NEW c \in Deliveries PROVE Probed(c)'
      BY <2>1, <3>1
         DEF IndInv, TypeOK, Delivery, Breaker, Counts, Probes, Probed, Blocked, Gate, Becomes,
             Allows, Allow, BreakerOf, observed
    <3>3. FailuresReal'
      BY <2>1 DEF IndInv, TypeOK, Delivery, Breaker, Counts, FailuresReal, Gate, Allow, observed
    <3>4. Causes'
      BY <2>1 DEF IndInv, TypeOK, Delivery, Counts, Causes, Cause, GivenUp, Gate, Becomes,
                  observed
    <3> QED BY <3>2, <3>3, <3>4 DEF Counts, Probes
  <2>2. CASE ~Allows(BreakerOf(d))
    <3>1. ASSUME NEW c \in Deliveries PROVE Probed(c)'
      BY <2>2 DEF IndInv, TypeOK, Delivery, Counts, Probes, Probed, Blocked, Gate, Becomes,
                  observed
    <3>2. FailuresReal'
      BY <2>2 DEF IndInv, Counts, FailuresReal, Gate, observed
    <3>3. failed[delivery[d].url] >= Threshold
      BY <2>2, ThresholdAssumption
         DEF IndInv, TypeOK, Delivery, Breaker, BreakersConsistent, Consistent, Counts,
             FailuresReal, Allows, BreakerOf
    <3>4. Causes'
      BY <2>2, <3>3 DEF IndInv, TypeOK, Delivery, Counts, Causes, Cause, GivenUp, Gate, Becomes,
                        observed
    <3> QED BY <3>1, <3>2, <3>4 DEF Counts, Probes
  <2> QED BY <2>1, <2>2
<1> QED BY <1>1, <1>2, <1>3, <1>4, <1>5 DEF IndInv

(* An attempt is made.                                                     *)
LEMMA SendInv ==
  ASSUME IndInv, NEW d \in Deliveries, NEW answer \in {"ok", "error"}, Send(d, answer)
  PROVE  IndInv'
<1>1. TypeOK'
  BY RetriesAssumption DEF IndInv, TypeOK, BreakersConsistent, Send, Becomes, Delivery, PC,
     storeVars
<1>2. BreakersConsistent'
  BY RetriesAssumption DEF IndInv, TypeOK, BreakersConsistent, Send, Delivery
<1>3. Stages'
  BY RetriesAssumption DEF IndInv, TypeOK, Stages, Stage, Send, Becomes, Delivery, PC
<1>4. Fresh'
  BY DEF IndInv, TypeOK, Fresh, Send, Becomes, Delivery
<1>5. Counts'
  <2>1. probes[d] = 0
    BY DEF IndInv, Counts, Probes, Probed, Send
  <2>2. ASSUME NEW c \in Deliveries PROVE Probed(c)'
    BY <2>1 DEF IndInv, TypeOK, Delivery, Counts, Probes, Probed, Blocked, Send, BreakerOf
  <2>3. FailuresReal'
    BY DEF IndInv, Counts, FailuresReal, Send
  <2>4. Causes'
    BY DEF IndInv, TypeOK, Delivery, Counts, Causes, Cause, GivenUp, Send
  <2> QED BY <2>2, <2>3, <2>4 DEF Counts, Probes
<1> QED BY <1>1, <1>2, <1>3, <1>4, <1>5 DEF IndInv

(* An attempt that succeeds ends the delivery and is recorded in the       *)
(* breaker.                                                                *)
LEMMA SucceedInv ==
  ASSUME IndInv, NEW d \in Deliveries, Succeed(d)
  PROVE  IndInv'
<1>1. TypeOK'
  BY BreakerSteps, RetriesAssumption DEF IndInv, TypeOK, BreakersConsistent, Succeed, Becomes,
     Delivery, PC, storeVars, ForgetProbes
<1>2. BreakersConsistent'
  BY BreakerSteps, RetriesAssumption DEF IndInv, TypeOK, BreakersConsistent, Succeed, Delivery
<1>3. Stages'
  BY RetriesAssumption DEF IndInv, TypeOK, Stages, Stage, Succeed, Becomes, Delivery, PC
<1>4. Fresh'
  BY DEF IndInv, TypeOK, Fresh, Succeed, Becomes, Delivery
<1>5. Counts'
  <2>1. ASSUME NEW c \in Deliveries PROVE Probed(c)'
    BY DEF IndInv, TypeOK, Delivery, Counts, Probes, Probed, Blocked, Succeed, Becomes,
           ForgetProbes
  <2>2. FailuresReal'
    BY DEF IndInv, TypeOK, Delivery, Breaker, Counts, FailuresReal, Succeed, RecordSuccess
  <2>3. Causes'
    BY DEF IndInv, TypeOK, Delivery, Counts, Causes, Cause, GivenUp, Succeed, Becomes
  <2> QED BY <2>1, <2>2, <2>3 DEF Counts, Probes
<1> QED BY <1>1, <1>2, <1>3, <1>4, <1>5 DEF IndInv

(* An attempt that fails leads to the next one or to the last failure.     *)
LEMMA FailInv ==
  ASSUME IndInv, NEW d \in Deliveries, Fail(d)
  PROVE  IndInv'
<1>1. TypeOK'
  BY BreakerSteps, RetriesAssumption DEF IndInv, TypeOK, BreakersConsistent, Fail, Becomes,
     FailureCounted, Delivery, PC, storeVars
<1>2. BreakersConsistent'
  BY BreakerSteps, RetriesAssumption DEF IndInv, TypeOK, BreakersConsistent, Fail,
     FailureCounted, Delivery
<1>3. Stages'
  BY RetriesAssumption DEF IndInv, TypeOK, Stages, Stage, Fail, Becomes, Delivery, PC
<1>4. Fresh'
  BY DEF IndInv, TypeOK, Fresh, Fail, Becomes, Delivery
<1>5. Counts'
  <2> DEFINE b == breakers[delivery[d].url]
  <2>0. b \in Breaker
    BY DEF IndInv, TypeOK, Delivery
  <2>1. b.state # "closed" => RecordFailure(b).state = "open"
    BY <2>0, ThresholdAssumption
       DEF IndInv, TypeOK, Delivery, Breaker, BreakersConsistent, Consistent, RecordFailure
  <2>2. ASSUME NEW c \in Deliveries PROVE Probed(c)'
    <3>1. CASE delivery[c].url = delivery[d].url
      <4>1. breakers'[delivery[c].url] = RecordFailure(b)
        BY <3>1 DEF IndInv, TypeOK, Delivery, Fail, FailureCounted
      <4>2. ~RecordFailure(b).cooled
        BY DEF RecordFailure
      <4> QED BY <2>1, <3>1, <4>1, <4>2
              DEF IndInv, TypeOK, Delivery, Counts, Probes, Probed, Blocked, Fail, Becomes
    <3>2. CASE delivery[c].url # delivery[d].url
      BY <3>2 DEF IndInv, TypeOK, Delivery, Counts, Probes, Probed, Blocked, Fail,
                  FailureCounted, Becomes
    <3> QED BY <3>1, <3>2
  <2>3. FailuresReal'
    BY DEF IndInv, TypeOK, Delivery, Breaker, Counts, FailuresReal, Fail, FailureCounted,
           RecordFailure
  <2>4. Causes'
    <3>1. ASSUME NEW c \in Deliveries, c # d PROVE Cause(c)'
      BY <3>1, ThresholdAssumption
         DEF IndInv, TypeOK, Delivery, Counts, Causes, Cause, GivenUp, Fail, FailureCounted,
             Becomes
    <3>2. Cause(d)'
      BY RetriesAssumption
         DEF IndInv, TypeOK, Delivery, Stages, Stage, Cause, GivenUp, Fail, Becomes
    <3> QED BY <3>1, <3>2 DEF Causes
  <2> QED BY <2>2, <2>3, <2>4 DEF Counts, Probes
<1> QED BY <1>1, <1>2, <1>3, <1>4, <1>5 DEF IndInv

(* The last failure becomes a dead letter.                                 *)
LEMMA RecordInv ==
  ASSUME IndInv, NEW d \in Deliveries, Record(d)
  PROVE  IndInv'
<1>1. TypeOK'
  BY RetriesAssumption DEF IndInv, TypeOK, BreakersConsistent, Record, Becomes, Delivery, PC,
     storeVars, observed
<1>2. BreakersConsistent'
  BY RetriesAssumption DEF IndInv, TypeOK, BreakersConsistent, Record, Delivery
<1>3. Stages'
  BY RetriesAssumption DEF IndInv, TypeOK, Stages, Stage, Record, Becomes, Delivery, PC
<1>4. Fresh'
  BY DEF IndInv, TypeOK, Fresh, Record, Becomes, Delivery
<1>5. Counts'
  <2>1. ASSUME NEW c \in Deliveries PROVE Probed(c)' /\ Cause(c)'
    BY DEF IndInv, TypeOK, Delivery, Counts, Probes, Probed, Blocked, Causes, Cause, GivenUp,
           Record, Becomes, observed
  <2>2. FailuresReal'
    BY DEF IndInv, Counts, FailuresReal, Record, observed
  <2> QED BY <2>1, <2>2 DEF Counts, Probes, Causes
<1> QED BY <1>1, <1>2, <1>3, <1>4, <1>5 DEF IndInv

(* A breaker's timeout passes.                                             *)
LEMMA CoolDownInv ==
  ASSUME IndInv, NEW u \in Urls, CoolDown(u)
  PROVE  IndInv'
<1>1. TypeOK' /\ BreakersConsistent'
  BY BreakerSteps DEF IndInv, TypeOK, BreakersConsistent, CoolDown, storeVars, ForgetProbes
<1>2. Stages' /\ Fresh'
  BY DEF IndInv, Stages, Fresh, CoolDown
<1>3. Counts'
  <2>1. ASSUME NEW c \in Deliveries PROVE Probed(c)' /\ Cause(c)'
    BY DEF IndInv, TypeOK, Delivery, Counts, Probes, Probed, Blocked, Causes, Cause, GivenUp,
           CoolDown, ForgetProbes
  <2>2. FailuresReal'
    BY DEF IndInv, TypeOK, Breaker, Counts, FailuresReal, CoolDown, Cool
  <2> QED BY <2>1, <2>2 DEF Counts, Probes, Causes
<1> QED BY <1>1, <1>2, <1>3 DEF IndInv

(* Stuttering changes nothing.                                             *)
LEMMA StutterInv ==
  ASSUME IndInv, UNCHANGED vars PROVE IndInv'
BY DEF IndInv, TypeOK, BreakersConsistent, Stages, Fresh, Counts, Probes, Probed, Blocked,
       FailuresReal, Causes, Cause, GivenUp, vars, storeVars, sendVars, observed

(* Every step keeps the invariant.                                         *)
LEMMA NextInv ==
  ASSUME IndInv, [Next]_vars PROVE IndInv'
<1>1. CASE Api
  BY <1>1, CreateWebhookInv, UpdateWebhookReadInv, UpdateWebhookWriteInv, DeleteWebhookInv
     DEF Api
<1>2. CASE \E e \in Events, c \in {"background", "request"} : Dispatch(e, c)
  BY <1>2, DispatchInv
<1>3. CASE \E e \in Events : RequestEnds(e)
  BY <1>3, RequestEndsInv
<1>4. CASE \E d \in Deliveries : DeliveryStep(d)
  BY <1>4, GateInv, SendInv, SucceedInv, FailInv, RecordInv DEF DeliveryStep
<1>5. CASE \E u \in Urls : CoolDown(u)
  BY <1>5, CoolDownInv
<1>6. CASE UNCHANGED vars
  BY <1>6, StutterInv
<1> QED BY <1>1, <1>2, <1>3, <1>4, <1>5, <1>6 DEF Next

(* The invariant holds in every reachable state.                           *)
THEOREM Inductive == Spec => []IndInv
<1>1. Init => IndInv
  BY InitInv
<1>2. IndInv /\ [Next]_vars => IndInv'
  BY NextInv
<1> QED BY <1>1, <1>2, PTL DEF Spec

(* Every variable keeps its type: in particular the attempt counter of     *)
(* sendWithRetry never passes the retry limit.                             *)
THEOREM TypeCorrect == Spec => []TypeOK
<1>1. IndInv => TypeOK
  BY DEF IndInv
<1> QED BY <1>1, Inductive, PTL

(* A circuit is closed exactly while its failure count is below the        *)
(* threshold, however the results of concurrent deliveries interleave.     *)
THEOREM Breakers == Spec => []BreakersConsistent
<1>1. IndInv => BreakersConsistent
  BY DEF IndInv
<1> QED BY <1>1, Inductive, PTL

(* No endpoint sees an event more than Retries + 1 times, or again after   *)
(* it accepted it.                                                         *)
THEOREM Attempts == Spec => []AttemptsBounded
<1>1. IndInv => AttemptsBounded
  BY RetriesAssumption
     DEF IndInv, AttemptsBounded, TypeOK, Delivery, Stages, Stage
<1> QED BY <1>1, Inductive, PTL

(* A delivery meets a circuit that is not closed at most once until the    *)
(* circuit cools down or closes, however many deliveries share it.         *)
THEOREM OpenCircuits == Spec => []OneProbeEach
<1>1. IndInv => OneProbeEach
  BY DEF IndInv, Counts, Probes, Probed, OneProbeEach
<1> QED BY <1>1, Inductive, PTL

(* A delivery is given up only after its last attempt or after Threshold   *)
(* failures of its endpoint, and never one that was accepted.              *)
THEOREM GivenUpForCauseHolds == Spec => []GivenUpForCause
<1>1. IndInv => GivenUpForCause
  BY DEF IndInv, GivenUpForCause, GivenUp, Counts, Causes, Cause, Stages, Stage
<1> QED BY <1>1, Inductive, PTL

(* A deleted webhook is never stored again and gets no new delivery.       *)
THEOREM Deletion == Spec => DeletedIsSilent
<1> DEFINE Silent(h) ==
      hooks[h] = Deleted =>
        /\ hooks'[h] = Deleted
        /\ \A e \in Events : delivery[<<e, h>>].pc = "none"
                              => delivery'[<<e, h>>].pc = "none"
<1>1. ASSUME IndInv, [Next]_vars, NEW h \in Hooks PROVE Silent(h)
  <2> SUFFICES ASSUME hooks[h] = Deleted
               PROVE  /\ hooks'[h] = Deleted
                      /\ \A e \in Events : delivery[<<e, h>>].pc = "none"
                                            => delivery'[<<e, h>>].pc = "none"
    OBVIOUS
  <2>0. /\ hooks \in [Hooks -> Hook \cup {NoHook, Deleted}]
        /\ delivery \in [Deliveries -> Delivery]
        /\ \A e \in Events : <<e, h>> \in Deliveries
    BY <1>1 DEF IndInv, TypeOK, Deliveries
  <2>1. CASE Api
    BY <2>0, <2>1, NoHookAssumption
       DEF Api, CreateWebhook, UpdateWebhookRead, UpdateWebhookWrite, DeleteWebhook, Exists,
           sendVars
  <2>2. CASE \E d \in Deliveries : DeliveryStep(d)
    BY <2>0, <2>2
       DEF DeliveryStep, Gate, Send, Succeed, Fail, Record, Becomes, storeVars, Delivery
  <2>3. CASE \E e \in Events, c \in {"background", "request"} : Dispatch(e, c)
    BY <2>0, <2>3 DEF Dispatch, ListByEvent, Exists, storeVars
  <2>4. CASE \E e \in Events : RequestEnds(e)
    BY <2>0, <2>4 DEF RequestEnds, storeVars, Delivery
  <2>5. CASE (\E u \in Urls : CoolDown(u)) \/ UNCHANGED vars
    BY <2>5 DEF CoolDown, vars, storeVars, sendVars
  <2> QED BY <1>1, <2>1, <2>2, <2>3, <2>4, <2>5 DEF Next
<1>2. IndInv /\ [Next]_vars => [\A h \in Hooks : Silent(h)]_vars
  BY <1>1
<1>3. Spec => [][\A h \in Hooks : Silent(h)]_vars
  BY <1>2, Inductive, PTL DEF Spec
<1> QED BY <1>3 DEF DeletedIsSilent
==============================================================================
