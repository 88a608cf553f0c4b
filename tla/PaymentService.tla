--------------------------- MODULE PaymentService ---------------------------
(***************************************************************************)
(* The whole path of a payment: rows and events commit together, relays    *)
(* publish the events, the broker delays and delivers them, handlers and   *)
(* recovery act on them.  PaymentProcessing gives the handlers,            *)
(* OutboxRelay the relays, Broker the queues; a message is identified by   *)
(* its outbox row.                                                         *)
(***************************************************************************)
EXTENDS Naturals, Sequences, FiniteSets, SequencesExt

CONSTANTS
  Payments, Workers, Relays,
  MaxDeliveryAttempts, RecoveryBatchSize, OutboxBatchSize,
  MaxRows,         \* bound: outbox rows
  MaxFaults,       \* bound: faults of handlers, relays and connections
  None

VARIABLES
  status, attempts, delivered, gatewayClaim, webhookClaim, gatewayExpired,
  webhookExpired, pc, event, note, outcome, received,     \* PaymentProcessing
  outbox,                                                 \* the rows, in order
  published, lease, leaseExpired, relayPc, batch, copies, mishaps, \* OutboxRelay
  queued, unacked,                                        \* Broker
  waited,   \* history: the events that spent their delay in a retry queue
  faults    \* history: how many faults there have been

handlers == <<status, attempts, delivered, gatewayClaim, webhookClaim, gatewayExpired,
              webhookExpired, pc, event, note, outcome, received>>
relays   == <<published, lease, leaseExpired, relayPc, batch, copies, mishaps>>
vars     == <<handlers, outbox, relays, queued, unacked, waited, faults>>

Rows      == 1..MaxRows
Committed == 1..Len(outbox)

Relay == INSTANCE OutboxRelay
  WITH BatchSize <- OutboxBatchSize, MaxMishaps <- MaxFaults, Poison <- {},
       committed <- Committed, expired <- leaseExpired, pc <- relayPc

\* Settings: one delay less than there are delivery attempts.
Queue == INSTANCE Broker
  WITH Messages <- Rows, Consumers <- Workers, RetryDelays <- MaxDeliveryAttempts - 1

\* Events are pending from their commit until a handler takes them.
Waiting(r) == copies[r] = 0 \/ \E q \in Queue!Queues : queued[q][r] > 0

PendingEvents == {outbox[r].event :
  r \in {s \in Committed : outbox[s].route # Queue!Dlq /\ Waiting(s)}}

DeadLetters == {outbox[r].event : r \in {s \in Committed : outbox[s].route = Queue!Dlq}}

Core == INSTANCE PaymentProcessing
  WITH pendingEvents <- PendingEvents, deadLetters <- DeadLetters

\* What Settings.validate_max_delivery_attempts, validate_retry_settings and the
\* limits of the batch sizes make sure of; the bounds; None is SQL NULL.
ASSUME ServiceAssumption ==
  /\ {MaxRows, MaxFaults} \subseteq Nat
  /\ {MaxDeliveryAttempts, RecoveryBatchSize, OutboxBatchSize} \subseteq Nat \ {0}
  /\ IsFiniteSet(Payments) /\ IsFiniteSet(Relays)
  /\ None \notin Workers \cup Relays \cup Rows \cup Core!Events

Init ==
  /\ outbox = << >> /\ waited = {} /\ faults = 0
  /\ Queue!Init
  /\ Relay!Init
  /\ Core!Init

-----------------------------------------------------------------------------
(* Helpers *)

\* Business transactions write their events as outbox rows.
Record(events, route) == {[event |-> e, route |-> route] : e \in events}

Commit(records) ==
  /\ outbox' = outbox \o SetToSeq(records)
  /\ Len(outbox') <= MaxRows
  /\ UNCHANGED relays

\* A handler that has returned acknowledges; in vain, if the broker has given
\* its message to somebody else.
AcknowledgeWhenDone(w) ==
  IF pc'[w] = "idle" THEN Queue!Acknowledge(w) ELSE UNCHANGED <<queued, unacked>>

Fault == faults < MaxFaults /\ faults' = faults + 1

-----------------------------------------------------------------------------
(* Transactions that write outbox rows *)

Submit(p) ==
  /\ Core!InsertPayment(p)
  /\ Commit(Record({Core!FirstEvent(p)}, Queue!Main))
  /\ UNCHANGED <<queued, unacked, waited, faults>>

FailGatewayCall(w) ==
  /\ Core!GiveUpGatewayCall(w)
  /\ Commit(Record(Core!GatewayRetry(w), Queue!ProcessingRetry))
  /\ AcknowledgeWhenDone(w)
  /\ Fault
  /\ UNCHANGED waited

\* Mutant: the delay is skipped.
NoDelay(e) == Queue!Main

\* retry_routing_keys[attempt_number - 1], counted from 0.
RetryRoute(e) == Queue!Retry(e.attempt)

FailSend(w) ==
  LET retries == Core!FollowUp(w, "retry")
      letters == Core!FollowUp(w, "dlq")
  IN
  /\ Core!CountFailedSend(w)
  /\ Commit((UNION {Record({e}, RetryRoute(e)) : e \in retries}) \cup Record(letters, Queue!Dlq))
  /\ AcknowledgeWhenDone(w)
  /\ UNCHANGED <<waited, faults>>

Recover(ps) ==
  /\ Core!ReleaseStaleClaims(ps)
  /\ Commit(Record(Core!ResumeEvents(ps), Queue!Main))
  /\ UNCHANGED <<queued, unacked, waited, faults>>

-----------------------------------------------------------------------------
(* Handlers *)

Deliver(w, r) ==
  /\ r \in Committed
  /\ Queue!Deliver(w, r)
  /\ Core!Take(w, outbox[r].event)
  /\ UNCHANGED <<outbox, relays, waited, faults>>

\* The steps of a handler that issue no event; they leave the outbox alone.
Proceed(w) ==
  /\ UNCHANGED <<outbox, relays, queued, waited, faults>>
  /\ \/ Core!FetchPayment(w)
     \/ Core!ClaimGateway(w)
     \/ \E result \in Core!FinalStatuses : Core!FinalizeGateway(w, result)
     \/ Core!RefetchPayment(w)
     \/ Core!ClaimWebhook(w)
     \/ Core!BuildNotification(w)
     \/ \E response \in Core!Responses : Core!SendWebhook(w, response)
     \/ Core!RecordWebhookSuccess(w)
  /\ AcknowledgeWhenDone(w)

\* An exception, a dead process or a lost connection that ends the handler.
Fail(w) ==
  /\ Core!Abandon(w)
  /\ Queue!Requeue(w)
  /\ Fault
  /\ UNCHANGED <<outbox, relays, waited>>

\* The broker gives the connection up first: the event is delivered again
\* while its handler, an orphan now, is still at work.
LoseConnection(w) ==
  /\ Queue!Requeue(w)
  /\ Fault
  /\ UNCHANGED <<handlers, outbox, relays, waited>>

\* An orphan fails.  It has no message left that could be redelivered.
FailUnnoticed(w) ==
  /\ unacked[w] = None
  /\ Core!Abandon(w)
  /\ Fault
  /\ UNCHANGED <<outbox, relays, queued, unacked, waited>>

ExpireClaim(p) ==
  /\ UNCHANGED <<outbox, relays, queued, unacked, waited>>
  /\ Core!ExpireGatewayClaim(p) \/ Core!ExpireWebhookClaim(p)
  /\ IF Core!GatewayBusy(p) \/ Core!WebhookBusy(p) THEN Fault ELSE UNCHANGED faults

-----------------------------------------------------------------------------
(* Relays and delays *)

\* The locks that another transaction may hold for a moment (SKIP LOCKED) are in
\* OutboxRelay only; here every query finds its rows free.
RelayStep(v) ==
  /\ UNCHANGED <<handlers, outbox, waited, faults>>
  /\ \/ /\ \/ Relay!ClaimPendingEvents(v, {})
           \/ Relay!MarkPublished(v)
           \/ Relay!MarkFailed(v)
        /\ UNCHANGED <<queued, unacked>>
     \/ /\ Relay!Publish(v)
        /\ Queue!Publish(outbox[Relay!Current(v)].route, Relay!Current(v))

RelayFails(v) ==
  /\ Fault
  /\ UNCHANGED <<handlers, outbox, waited>>
  /\ \/ Relay!Crash(v) /\ UNCHANGED <<queued, unacked>>
     \/ Relay!PublishFails(v, 0) /\ UNCHANGED <<queued, unacked>>
     \/ /\ Relay!PublishFails(v, 1)
        /\ Queue!Publish(outbox[Relay!Current(v)].route, Relay!Current(v))

ExpireLease(r) ==
  /\ UNCHANGED <<handlers, outbox, queued, unacked, waited>>
  /\ Relay!ExpireLease(r)
  /\ IF Relay!Busy(r) THEN Fault ELSE UNCHANGED faults

TtlExpires(q, r) ==
  /\ Queue!TtlExpires(q, r)
  /\ waited' = waited \cup {e \in {outbox[r].event} : q = Queue!Retry(e.attempt)}
  /\ UNCHANGED <<handlers, outbox, relays, faults>>

-----------------------------------------------------------------------------
(* Specification *)

Work(w) == Proceed(w) \/ FailSend(w)

Next ==
  \/ \E p \in Payments : Submit(p) \/ ExpireClaim(p)
  \/ \E ps \in SUBSET Payments : Recover(ps)
  \/ \E w \in Workers : \/ Work(w)
                        \/ FailGatewayCall(w)
                        \/ Fail(w)
                        \/ LoseConnection(w)
                        \/ FailUnnoticed(w)
                        \/ \E r \in Rows : Deliver(w, r)
  \/ \E v \in Relays : RelayStep(v) \/ RelayFails(v)
  \/ \E r \in Rows : \/ ExpireLease(r)
                     \/ \E q \in Queue!Queues : TtlExpires(q, r)

Spec == Init /\ [][Next]_vars

\* Relays, handlers and recovery run on, time passes, and the broker serves
\* every message of the main queue in its turn; see DeliveryAudit.
Fairness ==
  /\ \A w \in Workers : WF_vars(Work(w))
  /\ \A v \in Relays : WF_vars(RelayStep(v))
  /\ \A r \in Rows : /\ SF_vars(\E w \in Workers : Deliver(w, r))
                     /\ WF_vars(ExpireLease(r))
                     /\ WF_vars(\E q \in Queue!Queues : TtlExpires(q, r))
  /\ \A p \in Payments : /\ WF_vars(ExpireClaim(p))
                         /\ WF_vars(\E ps \in SUBSET Payments : p \in ps /\ Recover(ps))

FairSpec == Spec /\ Fairness

-----------------------------------------------------------------------------
(* Properties *)

\* Outbox, relays and queues are to the handlers what PaymentProcessing takes
\* them for, a pool of events: so all that holds there holds of the service, as
\* long as no orphan fails.
ImplementsProcessing ==
  Core!Init /\ [][Core!Next \/ \E w \in Workers : FailUnnoticed(w)]_(Core!vars)

\* Even when orphans fail, a payment is decided once, each attempt counted once,
\* and it is delivered or given up once: double faults may stop a payment, but
\* never make it go wrong.
ImplementsLifecycle == Core!ImplementsLifecycle

\* No delivery is tried again before the delay that its number calls for is
\* over: neither duplicates nor recovery shorten the wait.
RetriesWait ==
  \A w \in Workers :
    pc[w] \in Core!SendingLabels /\ event[w].attempt > 0 => event[w] \in waited

\* README.md:100 "The consumer is implemented to tolerate duplicate events":
\* whatever is delivered twice, an unfinished payment keeps a claim for recovery
\* to find, or an event.
DuplicatesAreTolerated == Core!NoStrandedPayment

\* From the client's request to the end: every accepted payment is eventually
\* delivered, or its letter is in the dead letter queue for an operator to see.
EveryPaymentSettles ==
  \A p \in Payments :
    status[p] = "pending" ~>
      \/ p \in delivered
      \/ \E r \in Committed : outbox[r].event.payment = p /\ queued[Queue!Dlq][r] > 0
=============================================================================
