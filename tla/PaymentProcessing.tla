------------------------- MODULE PaymentProcessing -------------------------
(***************************************************************************)
(* The consumer's event handler (PaymentEventProcessor.process), the claim *)
(* recovery loop (ClaimRecoveryService) and the rows of the payments table *)
(* they share.  Every `await` on the database is one atomic step; between  *)
(* two of them a handler may be overtaken, fail, or lose its claim.        *)
(*                                                                         *)
(* Events reach the handlers through the outbox, the relay and RabbitMQ.   *)
(* Here that whole path is an unordered pool in which any event ever       *)
(* issued may turn up again, which is all the handlers may assume about    *)
(* it.  PaymentService puts the relay and the broker in its place.         *)
(*                                                                         *)
(* A claim timestamp is compared in two ways only: with the timestamp the  *)
(* claiming handler remembers, and with the cutoff `now - timeout`.  So a  *)
(* claim is the handler that made it plus membership in a set of claims    *)
(* older than the cutoff.  A handler makes at most one claim per column    *)
(* and run, and a new run of the same worker remembers no earlier claim,   *)
(* so equal owners means equal timestamps.                                 *)
(***************************************************************************)
EXTENDS WebhookAnswers, Naturals, FiniteSets

CONSTANTS
  Payments,             \* the payments clients may submit
  Workers,              \* concurrent runs of handle_payment_created
  MaxDeliveryAttempts,  \* WEBHOOK_MAX_DELIVERY_ATTEMPTS
  RecoveryBatchSize,    \* CLAIM_RECOVERY_BATCH_SIZE
  None                  \* SQL NULL, and "no event" for an idle worker

Attempts == 0..MaxDeliveryAttempts

\* PaymentCreatedEvent: the fields the handler acts on.
Events == [payment : Payments, attempt : Attempts]

\* Settings.validate_max_delivery_attempts and validate_retry_settings.
ASSUME ConfigAssumption ==
  /\ MaxDeliveryAttempts \in Nat \ {0}
  /\ RecoveryBatchSize \in Nat \ {0}
  /\ None \notin Workers
  /\ None \notin Events

VARIABLES
  status,          \* payments.status, "absent" before the row exists
  attempts,        \* payments.webhook_attempts
  delivered,       \* the payments with webhook_delivered_at set
  gatewayClaim,    \* the worker behind payments.gateway_claimed_at, or None
  webhookClaim,    \* the worker behind payments.webhook_claimed_at, or None
  gatewayExpired,  \* payments whose gateway claim is older than the cutoff
  webhookExpired,  \* payments whose webhook claim is older than the cutoff
  pendingEvents,   \* events in outbox rows and queues, on their way to a handler
  deadLetters,     \* events routed to payments.dlq
  pc,              \* where each worker is in process()
  event,           \* the unacknowledged event each worker is handling
  note,            \* the status in the notification a worker has built
  outcome,         \* how the worker's last send ended
  received         \* history: the notifications that reached a receiver

row     == <<status, attempts, delivered>>
claims  == <<gatewayClaim, webhookClaim, gatewayExpired, webhookExpired>>
mailbox == <<pendingEvents, deadLetters>>
local   == <<event, note, outcome>>
vars    == <<row, claims, mailbox, pc, local, received>>

FinalStatuses == {"succeeded", "failed"}
Statuses      == {"absent", "pending"} \cup FinalStatuses
Outcomes      == {"ok", "retryable", "rejected"}
SendingLabels == {"build", "send", "record"}
Labels        == {"idle", "fetch", "claim_gateway", "gateway", "refetch",
                  "claim_webhook"} \cup SendingLabels

\* What the receiver was told and whether it answered 2xx.
Notifications == [payment : Payments, status : FinalStatuses, accepted : BOOLEAN]

Init ==
  /\ status         = [p \in Payments |-> "absent"]
  /\ attempts       = [p \in Payments |-> 0]
  /\ delivered      = {}
  /\ gatewayClaim   = [p \in Payments |-> None]
  /\ webhookClaim   = [p \in Payments |-> None]
  /\ gatewayExpired = {}
  /\ webhookExpired = {}
  /\ pendingEvents  = {}
  /\ deadLetters    = {}
  /\ pc             = [w \in Workers |-> "idle"]
  /\ event          = [w \in Workers |-> None]
  /\ note           = [w \in Workers |-> None]
  /\ outcome        = [w \in Workers |-> None]
  /\ received       = {}

-----------------------------------------------------------------------------
(* Helpers *)

\* processed_at and a final status are written by the same UPDATE.
Processed(p) == status[p] \in FinalStatuses

\* The payment of the event worker w is handling.
Target(w) == event[w].payment

Goto(w, label) == pc' = [pc EXCEPT ![w] = label]

\* process() returns: the event is acknowledged and the run forgotten.
Return(w) ==
  /\ pc'      = [pc EXCEPT ![w] = "idle"]
  /\ event'   = [event EXCEPT ![w] = None]
  /\ note'    = [note EXCEPT ![w] = None]
  /\ outcome' = [outcome EXCEPT ![w] = None]

DeadLettered(p) == \E d \in deadLetters : d.payment = p

Finished(p) == p \in delivered \/ DeadLettered(p)

\* Events leave for the handlers with these transactions, or for payments.dlq.
Emit(events)       == pendingEvents' = pendingEvents \cup events
EmitToDlq(letters) == deadLetters' = deadLetters \cup letters

-----------------------------------------------------------------------------
(* Arrival of payments and events *)

\* The row part of an action is a definition of its own where the action also
\* issues an event.
InsertPayment(p) ==
  /\ status[p] = "absent"
  /\ status' = [status EXCEPT ![p] = "pending"]
  /\ UNCHANGED <<attempts, delivered, claims, pc, local, received>>

FirstEvent(p) == [payment |-> p, attempt |-> 0]

\* create_payment commits the payment row and its first event together.
CreatePayment(p) ==
  InsertPayment(p) /\ Emit({FirstEvent(p)}) /\ UNCHANGED deadLetters

Take(w, e) ==
  /\ pc[w] = "idle" /\ Goto(w, "fetch")
  /\ event' = [event EXCEPT ![w] = e]
  /\ UNCHANGED <<row, claims, note, outcome, received>>

\* A worker is handed an event, which stays unacknowledged while it works.
\* An equal event may be left: a duplicate, or one that recovery issued.
Receive(w, e) ==
  /\ e \in pendingEvents
  /\ Take(w, e)
  /\ pendingEvents' \in {pendingEvents, pendingEvents \ {e}}
  /\ UNCHANGED deadLetters

\* The events some transaction has written to the outbox for the handlers.
Issued ==
  {e \in Events :
     /\ status[e.payment] # "absent"
     /\ e.attempt <= attempts[e.payment]
     /\ Finished(e.payment) => e.attempt < attempts[e.payment]}

\* An event turns up once more, however long ago it was issued: a relay whose
\* lease ran out published its row twice, or the broker takes the event for
\* lost with its connection while the handler is still at work on it.
Republish(e) ==
  /\ e \in Issued
  /\ Emit({e})
  /\ UNCHANGED <<row, claims, deadLetters, pc, local, received>>

-----------------------------------------------------------------------------
(* The gateway half of process() *)

\* Nothing is left to do for a payment still pending or already delivered.
CheckDelivery(w) ==
  \/ /\ Processed(Target(w)) /\ Target(w) \notin delivered
     /\ Goto(w, "claim_webhook")
     /\ UNCHANGED local
  \/ /\ ~(Processed(Target(w)) /\ Target(w) \notin delivered)
     /\ Return(w)

\* First read of the row.
FetchPayment(w) ==
  /\ pc[w] = "fetch"
  /\ \/ /\ status[Target(w)] = "pending"
        /\ Goto(w, "claim_gateway")
        /\ UNCHANGED local
     \/ /\ status[Target(w)] # "pending"
        /\ CheckDelivery(w)
  /\ UNCHANGED <<row, claims, mailbox, received>>

\* Mutant: the claim is not conditional on the claim column.
GatewayAlwaysClaimable(p) == status[p] = "pending"

GatewayClaimable(p) ==
  /\ status[p] = "pending"
  /\ gatewayClaim[p] = None \/ p \in gatewayExpired

\* One conditional UPDATE; the loser reads the row again.
ClaimGateway(w) ==
  LET p == Target(w) IN
  /\ pc[w] = "claim_gateway"
  /\ \/ /\ GatewayClaimable(p)
        /\ Goto(w, "gateway")
        /\ gatewayClaim' = [gatewayClaim EXCEPT ![p] = w]
        /\ gatewayExpired' = gatewayExpired \ {p}
     \/ /\ ~GatewayClaimable(p)
        /\ Goto(w, "refetch")
        /\ UNCHANGED <<gatewayClaim, gatewayExpired>>
  /\ UNCHANGED <<row, webhookClaim, webhookExpired, mailbox, local, received>>

\* Mutant: the result of a gateway call is written to whatever row is there.
AnyoneFinalizes(w) == status[Target(w)] # "absent"

\* The WHERE clause shared by the two ways a gateway call may end.
HoldsGatewayClaim(w) ==
  /\ status[Target(w)] = "pending"
  /\ gatewayClaim[Target(w)] = w

ReleaseGatewayClaim(p) ==
  /\ gatewayClaim' = [gatewayClaim EXCEPT ![p] = None]
  /\ gatewayExpired' = gatewayExpired \ {p}

\* The gateway answered; a stale answer is ignored.
FinalizeGateway(w, result) ==
  /\ pc[w] = "gateway" /\ Goto(w, "refetch")
  /\ \/ /\ HoldsGatewayClaim(w)
        /\ status' = [status EXCEPT ![Target(w)] = result]
        /\ ReleaseGatewayClaim(Target(w))
     \/ /\ ~HoldsGatewayClaim(w)
        /\ UNCHANGED <<status, gatewayClaim, gatewayExpired>>
  /\ UNCHANGED <<attempts, delivered, webhookClaim, webhookExpired, mailbox,
                 local, received>>

GiveUpGatewayCall(w) ==
  /\ pc[w] = "gateway"
  /\ \/ HoldsGatewayClaim(w) /\ ReleaseGatewayClaim(Target(w))
     \/ ~HoldsGatewayClaim(w) /\ UNCHANGED <<gatewayClaim, gatewayExpired>>
  /\ Return(w)
  /\ UNCHANGED <<row, webhookClaim, webhookExpired, received>>

GatewayRetry(w) == IF HoldsGatewayClaim(w) THEN {event[w]} ELSE {}

\* The gateway raised: release and schedule a retry, unless it is stale.
RecordGatewayFailure(w) ==
  GiveUpGatewayCall(w) /\ Emit(GatewayRetry(w)) /\ UNCHANGED deadLetters

\* Second read of the row, after the gateway half.
RefetchPayment(w) ==
  /\ pc[w] = "refetch"
  /\ CheckDelivery(w)
  /\ UNCHANGED <<row, claims, mailbox, received>>

-----------------------------------------------------------------------------
(* The webhook half of process() *)

\* Mutant: the claim is not conditional on the claim column.
WebhookAlwaysClaimable(w) ==
  LET p == Target(w) IN
  Processed(p) /\ p \notin delivered /\ attempts[p] = event[w].attempt

\* Only the event that carries the current attempt number may claim.
WebhookClaimable(w) ==
  LET p == Target(w) IN
  /\ Processed(p)
  /\ p \notin delivered
  /\ attempts[p] = event[w].attempt
  /\ webhookClaim[p] = None \/ p \in webhookExpired

ClaimWebhook(w) ==
  /\ pc[w] = "claim_webhook"
  /\ \/ /\ WebhookClaimable(w)
        /\ Goto(w, "build")
        /\ webhookClaim' = [webhookClaim EXCEPT ![Target(w)] = w]
        /\ webhookExpired' = webhookExpired \ {Target(w)}
        /\ UNCHANGED local
     \/ /\ ~WebhookClaimable(w)
        /\ Return(w)
        /\ UNCHANGED <<webhookClaim, webhookExpired>>
  /\ UNCHANGED <<row, gatewayClaim, gatewayExpired, mailbox, received>>

\* The row is read once more and its status copied into the notification.
BuildNotification(w) ==
  /\ pc[w] = "build" /\ Goto(w, "send")
  /\ note' = [note EXCEPT ![w] = status[Target(w)]]
  /\ UNCHANGED <<row, claims, mailbox, event, outcome, received>>

\* What the receiver got to see of an attempt that met this response.
Seen(w, response) ==
  IF ReachesReceiver(response)
    THEN {[payment |-> Target(w), status |-> note[w], accepted |-> response = "2xx"]}
    ELSE {}

\* One call of the sender, as WebhookDelivery has it; WebhookSender refines it.
SendWebhook(w, response) ==
  /\ pc[w] = "send" /\ Goto(w, "record")
  /\ outcome' = [outcome EXCEPT ![w] = SendResult(response)]
  /\ received' = received \cup Seen(w, response)
  /\ UNCHANGED <<row, claims, mailbox, event, note>>

\* Mutant: a send is recorded in whatever row is there.
AnyoneRecords(w) == Target(w) \notin delivered

\* The WHERE clause shared by the two ways a send may be recorded.
HoldsWebhookClaim(w) ==
  LET p == Target(w) IN
  /\ attempts[p] = event[w].attempt
  /\ p \notin delivered
  /\ webhookClaim[p] = w

\* Mutant: webhook_claimed_at is not reset with the attempt.
KeepWebhookClaim(p) == UNCHANGED <<webhookClaim, webhookExpired>>

ReleaseWebhookClaim(p) ==
  /\ webhookClaim' = [webhookClaim EXCEPT ![p] = None]
  /\ webhookExpired' = webhookExpired \ {p}

\* Mutant: the attempt is not counted.
SameAttemptNumber(w) == event[w].attempt

\* attempt_number = event.webhook_attempt + 1.
AttemptNumber(w) == event[w].attempt + 1

RecordWebhookSuccess(w) ==
  /\ pc[w] = "record" /\ outcome[w] = "ok"
  /\ \/ /\ HoldsWebhookClaim(w)
        /\ attempts' = [attempts EXCEPT ![Target(w)] = AttemptNumber(w)]
        /\ delivered' = delivered \cup {Target(w)}
        /\ ReleaseWebhookClaim(Target(w))
     \/ /\ ~HoldsWebhookClaim(w)
        /\ UNCHANGED <<attempts, delivered, webhookClaim, webhookExpired>>
  /\ Return(w)
  /\ UNCHANGED <<status, gatewayClaim, gatewayExpired, mailbox, received>>

\* Mutant: one retry more than there are attempts.
RoutingOffByOne(retryable, attemptNumber) ==
  IF retryable /\ attemptNumber <= MaxDeliveryAttempts THEN "retry" ELSE "dlq"

\* _next_routing: another attempt, or the dead letter queue.
NextRouting(retryable, attemptNumber) ==
  IF retryable /\ attemptNumber < MaxDeliveryAttempts THEN "retry" ELSE "dlq"

CountFailedSend(w) ==
  /\ pc[w] = "record" /\ outcome[w] # "ok"
  /\ \/ /\ HoldsWebhookClaim(w)
        /\ attempts' = [attempts EXCEPT ![Target(w)] = AttemptNumber(w)]
        /\ ReleaseWebhookClaim(Target(w))
     \/ /\ ~HoldsWebhookClaim(w)
        /\ UNCHANGED <<attempts, webhookClaim, webhookExpired>>
  /\ Return(w)
  /\ UNCHANGED <<status, delivered, gatewayClaim, gatewayExpired, received>>

\* The follow-up event, if it takes this route, carries the new attempt number.
FollowUp(w, routing) ==
  IF /\ HoldsWebhookClaim(w)
     /\ routing = NextRouting(outcome[w] = "retryable", AttemptNumber(w))
  THEN {[payment |-> Target(w), attempt |-> AttemptNumber(w)]}
  ELSE {}

\* The attempt is counted and followed up in one transaction.
RecordWebhookFailure(w) ==
  CountFailedSend(w) /\ Emit(FollowUp(w, "retry")) /\ EmitToDlq(FollowUp(w, "dlq"))

-----------------------------------------------------------------------------
(* Failure, time and recovery *)

\* The run is over; its claims stay in the database.
Abandon(w) == pc[w] # "idle" /\ Return(w) /\ UNCHANGED <<row, claims, received>>

\* The handler raises or its process dies: the broker redelivers the event
\* (nack, or a connection lost with the event unacknowledged).  A handler whose
\* connection is gone and whose event was redelivered before it failed gives
\* nothing back; such orphans are in PaymentService only (FailUnnoticed).
Nack(w) == Abandon(w) /\ Emit({event[w]}) /\ UNCHANGED deadLetters

\* Enough time passes for a claim to be older than its timeout.
ExpireGatewayClaim(p) ==
  /\ gatewayClaim[p] # None /\ p \notin gatewayExpired
  /\ gatewayExpired' = gatewayExpired \cup {p}
  /\ UNCHANGED <<row, gatewayClaim, webhookClaim, webhookExpired, mailbox, pc,
                 local, received>>

ExpireWebhookClaim(p) ==
  /\ webhookClaim[p] # None /\ p \notin webhookExpired
  /\ webhookExpired' = webhookExpired \cup {p}
  /\ UNCHANGED <<row, gatewayClaim, webhookClaim, gatewayExpired, mailbox, pc,
                 local, received>>

\* The rows the recovery query selects.
Recoverable ==
  {p \in Payments :
     \/ status[p] = "pending" /\ gatewayClaim[p] # None /\ p \in gatewayExpired
     \/ /\ Processed(p) /\ p \notin delivered
        /\ webhookClaim[p] # None /\ p \in webhookExpired}

\* Mutant: claims are released and nothing is scheduled.
NoResumeEvents(batch) == {}

\* Mutant: one event for the whole batch.
OneResumeEvent(batch) ==
  {[payment |-> p, attempt |-> attempts[p]] : p \in {CHOOSE q \in batch : TRUE}}

\* Mutant: the resume event carries the number of the next attempt.
ResumeNextAttempt(batch) == {[payment |-> p, attempt |-> attempts[p] + 1] : p \in batch}

\* A resume event carries the attempt number of the row.
ResumeEvents(batch) == {[payment |-> p, attempt |-> attempts[p]] : p \in batch}

\* SKIP LOCKED makes the batch any of the rows.
ReleaseStaleClaims(batch) ==
  LET stuck == {p \in batch : status[p] = "pending"}
      idle  == batch \ stuck
  IN
  /\ batch # {} /\ batch \subseteq Recoverable
  /\ Cardinality(batch) <= RecoveryBatchSize
  /\ gatewayClaim' = [p \in Payments |-> IF p \in stuck THEN None ELSE gatewayClaim[p]]
  /\ gatewayExpired' = gatewayExpired \ stuck
  /\ webhookClaim' = [p \in Payments |-> IF p \in idle THEN None ELSE webhookClaim[p]]
  /\ webhookExpired' = webhookExpired \ idle
  /\ UNCHANGED <<row, pc, local, received>>

\* One transaction releases a batch of expired claims and writes the events
\* that resume the work.
RecoverStaleClaims(batch) ==
  ReleaseStaleClaims(batch) /\ Emit(ResumeEvents(batch)) /\ UNCHANGED deadLetters

-----------------------------------------------------------------------------
(* Specification *)

\* One database or network step of a handler that is not failing.
Step(w) ==
  \/ FetchPayment(w)
  \/ ClaimGateway(w)
  \/ \E result \in FinalStatuses : FinalizeGateway(w, result)
  \/ RecordGatewayFailure(w)
  \/ RefetchPayment(w)
  \/ ClaimWebhook(w)
  \/ BuildNotification(w)
  \/ \E response \in Responses : SendWebhook(w, response)
  \/ RecordWebhookSuccess(w)
  \/ RecordWebhookFailure(w)

Next ==
  \/ \E p \in Payments : \/ CreatePayment(p)
                         \/ ExpireGatewayClaim(p)
                         \/ ExpireWebhookClaim(p)
  \/ \E w \in Workers : \/ Step(w)
                        \/ Nack(w)
                        \/ \E e \in pendingEvents : Receive(w, e)
  \/ \E e \in Issued : Republish(e)
  \/ \E batch \in SUBSET Payments : RecoverStaleClaims(batch)

Spec == Init /\ [][Next]_vars

\* The holder of p's claim is still at the work the claim is for.
GatewayBusy(p) == \E w \in Workers :
  pc[w] = "gateway" /\ Target(w) = p /\ gatewayClaim[p] = w
WebhookBusy(p) == \E w \in Workers :
  pc[w] \in SendingLabels /\ Target(w) = p /\ webhookClaim[p] = w

\* Settings.validate_retry_settings makes each claim timeout exceed the work
\* it covers; in a punctual step that is enough, and no claim expires while
\* its holder works.
Punctual == \A p \in Payments :
  /\ GatewayBusy(p) => p \notin gatewayExpired'
  /\ WebhookBusy(p) => p \notin webhookExpired'

PunctualSpec == Init /\ [][Next /\ Punctual]_vars

-----------------------------------------------------------------------------
(* Properties *)

OptionOf(S) == S \cup {None}

\* Type correctness: every column and local variable stays in its domain; in
\* particular webhook_attempts never exceeds the configured maximum.
TypeOK ==
  /\ status \in [Payments -> Statuses]
  /\ attempts \in [Payments -> Attempts]
  /\ delivered \subseteq Payments
  /\ gatewayClaim \in [Payments -> OptionOf(Workers)]
  /\ webhookClaim \in [Payments -> OptionOf(Workers)]
  /\ gatewayExpired \subseteq Payments
  /\ webhookExpired \subseteq Payments
  /\ pendingEvents \subseteq Events
  /\ deadLetters \subseteq Events
  /\ pc \in [Workers -> Labels]
  /\ event \in [Workers -> OptionOf(Events)]
  /\ note \in [Workers -> OptionOf(FinalStatuses)]
  /\ outcome \in [Workers -> OptionOf(Outcomes)]
  /\ received \subseteq Notifications

\* Receivers are never told two different outcomes of one payment, nor an
\* outcome other than the recorded one: the notification is built from a row
\* read before the send, and a late gateway answer may arrive at any time.
NotificationsAgree ==
  \A n \in received : status[n.payment] = n.status

\* A payment is marked delivered only if a receiver answered 2xx to a
\* notification that carried its recorded status.
DeliveredWasAccepted ==
  \A p \in delivered :
    [payment |-> p, status |-> status[p], accepted |-> TRUE] \in received

\* A dead letter is the end of its payment: no redelivered, duplicated or
\* recovered event can revive it, deliver it or write a second dead letter.
DeadLetterIsFinal ==
  \A d \in deadLetters :
    /\ d.payment \notin delivered
    /\ Processed(d.payment)
    /\ webhookClaim[d.payment] = None
    /\ attempts[d.payment] = d.attempt
    /\ \A e \in pendingEvents : e.payment = d.payment => e.attempt < d.attempt
    /\ \A w \in Workers : event[w] # None /\ Target(w) = d.payment
                           => event[w].attempt < d.attempt

\* An event that a handler will act on when its turn comes.
Carried(p, labels) ==
  LET e == [payment |-> p, attempt |-> attempts[p]] IN
  \/ e \in pendingEvents
  \/ \E w \in Workers : pc[w] \in labels /\ event[w] = e

\* Something will still move p: a claim that recovery will find, or an event
\* on its way to one.
Anchored(p) ==
  /\ status[p] = "pending" =>
       gatewayClaim[p] # None \/ Carried(p, {"fetch", "claim_gateway"})
  /\ Processed(p) /\ ~Finished(p) =>
       \/ webhookClaim[p] # None
       \/ Carried(p, {"fetch", "claim_gateway", "refetch", "claim_webhook"})

\* No accepted payment is stranded: as long as it is neither delivered nor
\* dead-lettered, either a claim is set, which recovery will find, or a live
\* event carries the attempt number that the conditional updates ask for.
\* This holds as long as no orphan fails: see DuplicatesAreTolerated in
\* PaymentService for what happens when one does.
NoStrandedPayment == \A p \in Payments : Anchored(p)

\* Only its holder, at the end of the work it is for, may give up a claim that
\* has not expired.
KeepsLiveClaims ==
  \A p \in Payments, w \in Workers :
    /\ gatewayClaim[p] = w /\ p \notin gatewayExpired /\ gatewayClaim'[p] # w
         => pc[w] = "gateway" /\ Target(w) = p /\ pc'[w] # "gateway"
    /\ webhookClaim[p] = w /\ p \notin webhookExpired /\ webhookClaim'[p] # w
         => pc[w] = "record" /\ Target(w) = p /\ pc'[w] = "idle"

\* A handler that was overtaken takes nothing away from the one that overtook
\* it: late answers, late errors and late sends release no newer claim, and
\* recovery none that is still running.
LiveClaimsAreKept == [][KeepsLiveClaims]_vars

\* With punctual holders the gateway is never asked twice at a time for one
\* payment, whatever the redeliveries and crashes.
ExclusiveGatewayCall ==
  \A v, w \in Workers :
    pc[v] = "gateway" /\ pc[w] = "gateway" /\ Target(v) = Target(w) => v = w

\* With punctual holders one payment's webhook is never sent by two handlers
\* at a time.
ExclusiveWebhookDelivery ==
  \A v, w \in Workers :
    /\ pc[v] \in SendingLabels /\ pc[w] \in SendingLabels
    /\ Target(v) = Target(w)
    => v = w

-----------------------------------------------------------------------------
(* The inductive invariant behind these properties *)

\* Events never run ahead of the row they belong to.
EventsLagRows ==
  \A e \in pendingEvents :
    status[e.payment] # "absent" /\ e.attempt <= attempts[e.payment]

\* What a handler between two awaits may still rely on.
RunOK(w) ==
  /\ event[w] = None <=> pc[w] = "idle"
  /\ pc[w] # "idle" =>
       /\ status[Target(w)] # "absent"
       /\ event[w].attempt <= attempts[Target(w)]
  /\ pc[w] \in {"claim_webhook"} \cup SendingLabels => Processed(Target(w))
  /\ pc[w] \in {"send", "record"} => note[w] = status[Target(w)]
  /\ pc[w] = "record" /\ outcome[w] = "ok" =>
       [payment |-> Target(w), status |-> note[w], accepted |-> TRUE] \in received
  /\ pc[w] \in SendingLabels /\ webhookClaim[Target(w)] = w =>
       event[w].attempt = attempts[Target(w)] /\ Target(w) \notin delivered

\* Webhook columns are untouched until the gateway has decided, and a row that
\* has used up its attempts is finished.
RowOK(p) ==
  /\ ~Processed(p) => /\ attempts[p] = 0
                      /\ p \notin delivered
                      /\ webhookClaim[p] = None
  /\ attempts[p] = MaxDeliveryAttempts => Finished(p)

\* Holds initially and is preserved by every step; each property above follows.
\* Of its conjuncts only NoStrandedPayment would not survive an orphan's failure.
InductiveInvariant ==
  /\ TypeOK
  /\ EventsLagRows
  /\ \A w \in Workers : RunOK(w)
  /\ \A p \in Payments : RowOK(p)
  /\ NotificationsAgree
  /\ DeliveredWasAccepted
  /\ DeadLetterIsFinal
  /\ NoStrandedPayment

-----------------------------------------------------------------------------
(* Refinement *)

WebhookFate == [p \in Payments |->
  IF p \in delivered THEN "delivered"
  ELSE IF DeadLettered(p) THEN "given_up" ELSE "waiting"]

Lifecycle == INSTANCE PaymentLifecycle
  WITH decision <- status, webhook <- WebhookFate

\* Whatever the interleaving, a payment is decided once, each attempt is
\* counted once, and it is delivered or given up once, within the allowed
\* number of attempts.
ImplementsLifecycle == Lifecycle!Spec
=============================================================================
