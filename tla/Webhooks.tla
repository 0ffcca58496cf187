------------------------------ MODULE Webhooks -------------------------------
(***************************************************************************)
(* Webhook delivery: the webhook store and its API handlers, Dispatch,     *)
(* which starts one goroutine per subscribed webhook, sendWithRetry with   *)
(* its circuit breaker per URL, and the dead-letter store.                 *)
(*                                                                         *)
(* A delivery is named by its event and its webhook.  It works on the copy *)
(* of the webhook that ListByEvent returned, so later changes to the       *)
(* webhook do not reach it.                                                *)
(***************************************************************************)
EXTENDS CircuitBreaker

CONSTANTS
    Hooks,       \* webhook identifiers
    Urls,        \* endpoint URLs
    NoHook,      \* no webhook under this identifier yet
    Deleted,     \* no webhook any more: Create makes a fresh identifier
    Events,      \* bound: the Dispatch calls of one behaviour
    Retries,     \* Dispatcher.retries
    MaxEdits,    \* bound: webhooks created, updated and deleted
    SqlStore     \* TRUE: SQLDeadLetterStore, FALSE: MemoryDeadLetterStore

ASSUME RetriesAssumption == Retries \in Nat /\ MaxEdits \in Nat
ASSUME SqlStoreAssumption == SqlStore \in BOOLEAN
ASSUME UrlsAssumption == Urls # {}  \* every webhook has a URL

Hook == [url : Urls, enabled : BOOLEAN]

ASSUME NoHookAssumption ==
    NoHook \notin Hook /\ Deleted \notin Hook /\ NoHook # Deleted

Deliveries == Events \X Hooks

(* Where sendWithRetry is: before Allow, between Allow and the response    *)
(* (the backoff included), after a 2xx/3xx response, after an error, about *)
(* to record a failure; and how it ended: delivered, recorded, or failed   *)
(* without a record.                                                       *)
PC == {"none", "gate", "send", "ok", "error", "record", "delivered", "dead", "lost"}

Ended == {"delivered", "dead", "lost"}

(* ctx is the context Dispatch was called with: the background context, or *)
(* that of the safe_stop request, which ends with the request.  accepted   *)
(* remembers that the endpoint answered without an error.                  *)
Delivery == [pc : PC, url : Urls, attempt : 0..Retries, sent : Nat, accepted : BOOLEAN,
             ctx : {"background", "request", "over"}]

VARIABLES
    hooks,       \* the webhook store
    edits,       \* updateWebhook calls between their read and their write
    edited,      \* changes made to the store so far
    breakers,    \* circuitBreakers, by URL
    delivery,    \* the goroutines
    dispatched,  \* events dispatched so far
    deadLetters, \* deliveries in the dead-letter store
    \* what an observer of the endpoints counts
    failed,      \* failed[u]: attempts at u that came back as failures
    probes       \* probes[d]: attempts of d that met a circuit that was not
                 \* closed, since that circuit last cooled down or closed

storeVars == <<hooks, edits, edited>>
sendVars  == <<breakers, delivery, deadLetters>>
observed  == <<failed, probes>>
vars == <<storeVars, sendVars, dispatched, observed>>

-----------------------------------------------------------------------------
(* The API handlers *)

Exists(h) == hooks[h] \notin {NoHook, Deleted}

CreateWebhook(h, w) ==
    /\ hooks[h] = NoHook /\ edited < MaxEdits
    /\ hooks' = [hooks EXCEPT ![h] = w]
    /\ edited' = edited + 1
    /\ UNCHANGED <<edits, sendVars, dispatched, observed>>

(* updateWebhook reads the webhook, overwrites the fields the request      *)
(* names, and writes the whole of it back.                                 *)
UpdateWebhookRead(h, w) ==
    /\ Exists(h) /\ edited < MaxEdits
    /\ w.url = hooks[h].url \/ w.enabled = hooks[h].enabled
    /\ edits' = edits \cup {[hook |-> h, to |-> w]}
    /\ edited' = edited + 1
    /\ UNCHANGED <<hooks, sendVars, dispatched, observed>>

(* Faulty variant: Update inserts a webhook it does not find.              *)
UpdateWebhookUpsert(e) ==
    /\ e \in edits
    /\ edits' = edits \ {e}
    /\ hooks' = [hooks EXCEPT ![e.hook] = e.to]
    /\ UNCHANGED <<edited, sendVars, dispatched, observed>>

UpdateWebhookWrite(e) ==
    /\ e \in edits
    /\ edits' = edits \ {e}
    /\ hooks' = IF Exists(e.hook) THEN [hooks EXCEPT ![e.hook] = e.to] ELSE hooks
    /\ UNCHANGED <<edited, sendVars, dispatched, observed>>

DeleteWebhook(h) ==
    /\ Exists(h) /\ edited < MaxEdits
    /\ hooks' = [hooks EXCEPT ![h] = Deleted]
    /\ edited' = edited + 1
    /\ UNCHANGED <<edits, sendVars, dispatched, observed>>

-----------------------------------------------------------------------------
(* Dispatch *)

ListByEvent == {h \in Hooks : Exists(h) /\ hooks[h].enabled}

(* If the store cannot list the webhooks, the event goes to nobody.        *)
Dispatch(e, c) ==
    /\ e \notin dispatched
    /\ dispatched' = dispatched \cup {e}
    /\ \/ delivery' =
            [d \in Deliveries |->
               IF d[1] = e /\ d[2] \in ListByEvent
               THEN [pc |-> "gate", url |-> hooks[d[2]].url, attempt |-> 0, sent |-> 0,
                     accepted |-> FALSE, ctx |-> c]
               ELSE delivery[d]]
       \/ SqlStore /\ UNCHANGED delivery
    /\ UNCHANGED <<storeVars, breakers, deadLetters, observed>>

(* The request that called Dispatch is answered and its context cancelled, *)
(* while there is still a delivery to notice.                              *)
RequestEnds(e) ==
    /\ \E h \in Hooks : /\ delivery[<<e, h>>].ctx = "request"
                        /\ delivery[<<e, h>>].pc \notin Ended
    /\ delivery' =
         [d \in Deliveries |->
            IF d[1] = e THEN [delivery[d] EXCEPT !.ctx = "over"] ELSE delivery[d]]
    /\ UNCHANGED <<storeVars, breakers, deadLetters, dispatched, observed>>

-----------------------------------------------------------------------------
(* sendWithRetry *)

BreakerOf(d) == breakers[delivery[d].url]

Becomes(d, l) == delivery' = [delivery EXCEPT ![d].pc = l]

(* Faulty variant: a delivery waits for the circuit instead of giving up.  *)
GateWaits(d) ==
    /\ delivery[d].pc = "gate" /\ Allows(BreakerOf(d))
    /\ breakers' = [breakers EXCEPT ![delivery[d].url] = Allow(@)]
    /\ Becomes(d, "send")
    /\ UNCHANGED <<storeVars, deadLetters, dispatched, observed>>

(* Allow, once per attempt.  An open circuit ends the delivery.            *)
Gate(d) ==
    /\ delivery[d].pc = "gate"
    /\ IF Allows(BreakerOf(d))
       THEN /\ breakers' = [breakers EXCEPT ![delivery[d].url] = Allow(@)]
            /\ Becomes(d, "send")
       ELSE Becomes(d, "record") /\ UNCHANGED breakers
    /\ UNCHANGED <<storeVars, deadLetters, dispatched, observed>>

(* After the backoff the request goes out, whatever the circuit is now.    *)
Send(d, answer) ==
    /\ delivery[d].pc = "send"
    /\ delivery' = [delivery EXCEPT ![d].pc = answer, ![d].sent = @ + 1,
                                    ![d].accepted = answer = "ok"]
    /\ probes' = IF BreakerOf(d).state = "closed" THEN probes
                  ELSE [probes EXCEPT ![d] = @ + 1]
    /\ UNCHANGED <<storeVars, breakers, deadLetters, dispatched, failed>>

(* The count of probes begins anew for every delivery to u.                *)
ForgetProbes(u) ==
    probes' = [d \in Deliveries |-> IF delivery[d].url = u THEN 0 ELSE probes[d]]

Succeed(d) ==
    /\ delivery[d].pc = "ok"
    /\ breakers' = [breakers EXCEPT ![delivery[d].url] = RecordSuccess(@)]
    /\ Becomes(d, "delivered")
    /\ ForgetProbes(delivery[d].url)
    /\ UNCHANGED <<storeVars, deadLetters, dispatched, failed>>

FailureCounted(d) ==
    /\ breakers' = [breakers EXCEPT ![delivery[d].url] = RecordFailure(@)]
    /\ failed' = [failed EXCEPT ![delivery[d].url] = @ + 1]

(* Faulty variant: the loop runs once too often.                           *)
FailOnceMore(d) ==
    /\ delivery[d].pc = "error"
    /\ FailureCounted(d)
    /\ IF delivery[d].attempt <= Retries
       THEN delivery' = [delivery EXCEPT ![d].pc = "gate", ![d].attempt = @ + 1]
       ELSE Becomes(d, "record")
    /\ UNCHANGED <<storeVars, deadLetters, dispatched, probes>>

(* Faulty variant: Allow is asked before the loop, for the first attempt.  *)
FailUngated(d) ==
    /\ delivery[d].pc = "error"
    /\ FailureCounted(d)
    /\ IF delivery[d].attempt < Retries
       THEN delivery' = [delivery EXCEPT ![d].pc = "send", ![d].attempt = @ + 1]
       ELSE Becomes(d, "record")
    /\ UNCHANGED <<storeVars, deadLetters, dispatched, probes>>

Fail(d) ==
    /\ delivery[d].pc = "error"
    /\ FailureCounted(d)
    /\ IF delivery[d].attempt < Retries
       THEN delivery' = [delivery EXCEPT ![d].pc = "gate", ![d].attempt = @ + 1]
       ELSE Becomes(d, "record")
    /\ UNCHANGED <<storeVars, deadLetters, dispatched, probes>>

(* DeadLetterStore.Record.  The SQL insert runs under the delivery's       *)
(* context: it fails when that is over and may fail otherwise, and the     *)
(* dispatcher drops the error.                                             *)
Record(d) ==
    /\ delivery[d].pc = "record"
    /\ \/ SqlStore /\ Becomes(d, "lost") /\ UNCHANGED deadLetters
       \/ /\ SqlStore => delivery[d].ctx # "over"
          /\ Becomes(d, "dead")
          /\ deadLetters' = deadLetters \cup {d}
    /\ UNCHANGED <<storeVars, breakers, dispatched, observed>>

CoolDown(u) ==
    /\ breakers[u].state = "open" /\ ~breakers[u].cooled
    /\ breakers' = [breakers EXCEPT ![u] = Cool(@)]
    /\ ForgetProbes(u)
    /\ UNCHANGED <<storeVars, delivery, deadLetters, dispatched, failed>>

-----------------------------------------------------------------------------
Idle == [pc |-> "none", url |-> CHOOSE u \in Urls : TRUE, attempt |-> 0, sent |-> 0,
         accepted |-> FALSE, ctx |-> "background"]

Init ==
    /\ hooks \in [Hooks -> Hook \cup {NoHook}]
    /\ edits = {} /\ edited = 0
    /\ breakers = [u \in Urls |-> NewCircuitBreaker]
    /\ delivery = [d \in Deliveries |-> Idle]
    /\ dispatched = {}
    /\ deadLetters = {}
    /\ failed = [u \in Urls |-> 0] /\ probes = [d \in Deliveries |-> 0]

Api ==
    \/ \E h \in Hooks, w \in Hook : CreateWebhook(h, w) \/ UpdateWebhookRead(h, w)
    \/ \E e \in edits : UpdateWebhookWrite(e)
    \/ \E h \in Hooks : DeleteWebhook(h)

DeliveryStep(d) ==
    \/ Gate(d) \/ Send(d, "ok") \/ Send(d, "error")
    \/ Succeed(d) \/ Fail(d) \/ Record(d)

Next ==
    \/ Api
    \/ \E e \in Events, c \in {"background", "request"} : Dispatch(e, c)
    \/ \E e \in Events : RequestEnds(e)
    \/ \E d \in Deliveries : DeliveryStep(d)
    \/ \E u \in Urls : CoolDown(u)

Spec == Init /\ [][Next]_vars

(* Every goroutine is scheduled; the HTTP client answers within its        *)
(* timeout.  Time passing is not needed for a delivery to end.             *)
FairSpec == Spec /\ \A d \in Deliveries : WF_vars(DeliveryStep(d))
-----------------------------------------------------------------------------
(* Properties *)

TypeOK ==
    /\ hooks \in [Hooks -> Hook \cup {NoHook, Deleted}]
    /\ edits \subseteq [hook : Hooks, to : Hook]
    /\ edited \in 0..MaxEdits
    /\ breakers \in [Urls -> Breaker]
    /\ delivery \in [Deliveries -> Delivery]
    /\ dispatched \subseteq Events
    /\ deadLetters \subseteq Deliveries
    /\ failed \in [Urls -> Nat] /\ probes \in [Deliveries -> Nat]

(* Every circuit agrees with its failure count, whatever the order in      *)
(* which concurrent deliveries to the URL record their results.            *)
BreakersConsistent == \A u \in Urls : Consistent(breakers[u])

(* An event reaches a webhook's endpoint at most Retries + 1 times, and    *)
(* never again after the endpoint accepted it: every attempt but the last  *)
(* had failed.                                                             *)
AttemptsBounded ==
    \A d \in Deliveries :
        /\ delivery[d].sent <= Retries + 1
        /\ delivery[d].accepted => delivery[d].pc \in {"ok", "delivered"}

(* A delivery meets a circuit that is not closed at most once before it    *)
(* cools down or a success closes it: with the verdict it got before the   *)
(* backoff, when the circuit opened meanwhile, or as one of the crowd that *)
(* a half-open circuit admits until the first result is in.  So a broken   *)
(* endpoint gets no more requests in 60 seconds than it has deliveries.    *)
OneProbeEach == \A d \in Deliveries : probes[d] <= 1

GivenUp(d) == delivery[d].pc \in {"record", "dead", "lost"}

(* A delivery is given up for a cause: its endpoint never accepted it, and *)
(* it made all its attempts or Threshold attempts at the endpoint, its own *)
(* and those of other deliveries, had come back as failures.  So nothing   *)
(* is in the dead-letter store that a replay would deliver a second time.  *)
GivenUpForCause ==
    \A d \in Deliveries :
        GivenUp(d) \/ d \in deadLetters =>
            /\ ~delivery[d].accepted
            /\ \/ delivery[d].sent = Retries + 1
               \/ failed[delivery[d].url] >= Threshold

(* A deleted webhook stays deleted, also when an updateWebhook that read   *)
(* it before the deletion writes it after, and no later event starts a     *)
(* delivery to it.                                                         *)
DeletedIsSilent ==
    [][\A h \in Hooks : hooks[h] = Deleted =>
         /\ hooks'[h] = Deleted
         /\ \A e \in Events : delivery[<<e, h>>].pc = "none"
                               => delivery'[<<e, h>>].pc = "none"]_vars

(* Every delivery started by Dispatch ends, with the endpoint failing and  *)
(* the circuit opening and closing as they like.                           *)
DeliveriesEnd ==
    \A d \in Deliveries : delivery[d].pc = "gate" ~> delivery[d].pc \in Ended

-----------------------------------------------------------------------------
(* What the documentation says and the code does not do *)

(* webhooks.md: failed deliveries after all retries are recorded.  Those   *)
(* of safe_stop events are recorded under the context of a request that    *)
(* has long been answered, and the error of an insert that fails, for that *)
(* or any other reason, is dropped.                                        *)
FailuresRecorded ==
    \A d \in Deliveries : delivery[d].pc = "lost" => delivery[d].sent <= Retries
==============================================================================
