# Specification of async-payment-processor

TLA+ modules that model the service, TLC instances that check them, and
theorems about them that TLAPS proves. Source paths are relative to the
repository (`src/app/...` is the Python package).

## 1. The system

A client posts a payment with an idempotency key. The API stores it together
with an event in an *outbox* table. A *relay* publishes outbox rows to RabbitMQ.
A *consumer* takes an event, asks the *gateway* for a decision, and delivers the
decision to the client's webhook, with retries through delayed queues and a
dead-letter queue. All coordination is by conditional `UPDATE`s on the two
tables. Claims are committed before a handler waits for the gateway or the
receiver, so it waits with no row locked; but the row is read again in between,
which begins another transaction that stays open during the call (see section 3).

| Component | State it keeps | Operations | Talks to |
|---|---|---|---|
| Payment API (`application/payments.py`, `api/payments.py`) | rows of `payments`, first row of `outbox` | create (idempotent), get | database |
| Outbox relay (`application/outbox.py`, `messaging/outbox_relay.py`) | `outbox.claimed_at`, `published_at` | lease a batch, publish, mark published / failed | database, broker |
| Broker and topology (`messaging/topology.py`) | main, retry and dead-letter queues | declare and bind, route, deliver, redeliver, delay | relay, consumer, `verify_rabbit_topology` |
| Event processor (`application/processing.py`) | `payments.status`, `*_claimed_at`, `webhook_attempts`, `webhook_delivered_at`; new outbox rows | claim gateway, finalize / record failure, claim webhook, send, record | database, gateway, receiver |
| Claim recovery (`application/recovery.py`) | releases expired claims, writes resume events | recover a batch | database |
| Webhook sender (`application/webhooks.py`, `core/security.py`) | none of its own; a pinned address and a resolver thread per call | check and resolve the host, pin an address, exchange, close; all under one timeout | name service, receiver |
| Consumer process (`messaging/consumer.py`) | handlers and one recovery task | start, handle, poll, die | all of the above |
| Gateway simulator (`application/gateway.py`) | none | wait, then succeed or fail | - |
| Settings (`core/config.py`) | constants | validate | - |
| Heartbeat, logging, schemas, tools, migrations | none the service reads | - | - |

What is hard: several consumers and several relays run concurrently; every
`await` is a point where a handler may be overtaken, die or lose its claim;
events are delivered at least once and in any order; a claim may expire under a
slow holder; recovery resumes work that may still be running; a commit or an HTTP
answer may be observed by one side only. Deployments change settings while other
processes still run with the old ones, and queues outlive them all.

What makes each part correct:

- *API*: a key names one payment with one first event; a repetition gets the same
  answer; a lost race is invisible.
- *Relay*: no committed event is lost; repeated publication only after something
  went wrong; an overtaken relay disturbs nobody.
- *Processor and recovery*: one decision per payment; each attempt is counted
  once; never more attempts than configured; delivered means that a receiver
  accepted the recorded decision; a dead letter is final; no payment is stranded;
  every payment finishes.
- *Broker and the whole service*: what happens to an event between its commit and its
  handler is no worse than the pool of events the handlers are written for; a
  delivery is not repeated before its delay is over; every accepted payment ends
  delivered or in `payments.dlq`.
- *Claim timeouts*: a holder that keeps its time keeps its claim; a claim ends once the
  recovery of some consumer gets through to it, and lasts longer than one healthy
  recovery takes only if every consumer's met mishaps that account for it.
- *Sender*: a call connects only to what it has checked, always returns, and is one
  step to its caller.
- *Topology*: who publishes finds its queues, and with the delays of its settings.

`PROJECT.json` lists under `hazards` where in the code each of these could go
wrong, and the properties that watch it.

## 2. Modules

| Module | Content |
|---|---|
| `PaymentLifecycle` | abstract: what the service promises about a payment |
| `PaymentProcessing` | the event processor, claim recovery and the rows they share |
| `DeliveryAudit` | `PaymentProcessing` with two history counters, fairness and liveness |
| `OutboxRelay` | the outbox table and concurrent relays |
| `PaymentApi` | POST under concurrent, repeated and refused requests, and GET |
| `WebhookAnswers` | what a webhook call can meet and what the sender makes of it |
| `WebhookDelivery` | abstract: a call of the sender as one step |
| `WebhookSender` | `HttpWebhookSender.send` await by await |
| `Broker` | queues, TTLs, delivery, acknowledgement and redelivery |
| `PaymentService` | `PaymentProcessing`, `OutboxRelay` and `Broker` composed |
| `ClaimTiming` | one claim column with clocks, durations, and recoveries that fail |
| `TopologyBootstrap` | processes with different settings declare the topology |
| `PaymentProcessingProofs` | the inductive invariant, the safety theorems, claims, and that `PaymentProcessing` implements `PaymentLifecycle` |
| `AuditProofs` | each call of a receiver is accounted for |
| `ServiceProofs` | `PaymentService` implements `PaymentProcessing` and `PaymentLifecycle`; retries wait |
| `ClaimTimingProofs` | claim timeouts are long enough; claims that last too long are explained |
| `ApiProofs` | idempotency, and reads after answers |
| `OutboxProofs` | nothing lost, duplicates explained, live leases kept |
| `SenderProofs` | only checked addresses; `WebhookSender` implements `WebhookDelivery` |
| `TopologyProofs` | who publishes finds its queues, with its delays |
| `MC...` | instances for TLC: symmetry, assumptions on bounds |

    PaymentService --+-- Core:  PaymentProcessing --implements--> PaymentLifecycle
                     +-- Relay: OutboxRelay         |
                     +-- Queue: Broker              +-- WebhookAnswers
    WebhookSender --implements--> WebhookDelivery --+
    DeliveryAudit --extends--> PaymentProcessing
    ClaimTiming, TopologyBootstrap, PaymentApi: on their own

Operators whose comment starts with "Mutant:" are wrong variants of the operator
below them. They are used nowhere; `PROJECT.json` pairs them with the property
each of them violates.

### PaymentProcessing

One action per database or network operation of `process()`:

| `pc[w]` | Code | Action |
|---|---|---|
| `fetch` | first `_fetch_payment` | `FetchPayment` |
| `claim_gateway` | `_claim_gateway` | `ClaimGateway` |
| `gateway` | `gateway.process`, then `_finalize_gateway` or `_record_gateway_failure` | `FinalizeGateway`, `RecordGatewayFailure` |
| `refetch` | `_fetch_payment` after the gateway half | `RefetchPayment` |
| `claim_webhook` | `_claim_webhook` | `ClaimWebhook` |
| `build` | `_fetch_payment`, `_build_webhook_notification` | `BuildNotification` |
| `send` | `webhook_sender.send` | `SendWebhook` |
| `record` | `_record_webhook_success`, `_record_webhook_failure` | actions of these names |

`Nack` is an exception or the death of a process at any of these points,
`Expire...Claim` the passing of a claim's timeout, `RecoverStaleClaims` one
transaction of the recovery loop, `CreatePayment` the commit of the API.
`RecordGatewayFailure` and `RecordWebhookFailure` include the outbox row that the
same transaction writes.

Abstractions:

- *Timestamps.* The code compares a claim timestamp with the one its claimer
  remembers, and with a cutoff. A claim is therefore its owner plus one bit,
  "older than the cutoff", which may become true at any time. This assumes that
  two claims of one column never bear the same microsecond. It covers skewed
  clocks, because no safety property relies on when a claim expires.
- *Events in transit.* Outbox, relay and broker are one set of pending events.
  `Receive` takes an event and may leave an equal one behind, which is what
  duplicate publication and redelivery amount to. Order, delay and queue names
  are not represented; an event routed to the dead-letter queue goes to
  `deadLetters`, which nothing consumes. `PaymentService` puts the outbox, the relay and
  the queues in the place of the set.
- *Rows.* Rows are never deleted, so the `payment is None` branches cannot be
  taken. `processed_at` and a final status are written by one `UPDATE`, and
  `Processed` stands for both. Descriptive columns and `last_error` decide
  nothing.
- *Merged awaits.* The read between the gateway claim and the gateway call
  returns columns no handler uses, so it belongs to `ClaimGateway`. The gateway's
  answer and the `UPDATE` that records it are one action: the answer is not
  visible to anybody before, and a crash in between is a `Nack` in `gateway`.
- *Batches.* `ORDER BY updated_at ... LIMIT ... SKIP LOCKED` selects any
  non-empty set of expired rows within the batch size.
- *History.* `received` holds what receivers saw. `Seen` leaves it unchanged when
  nothing was sent.

The actions that write events are conjunctions of what they do to the row
(`InsertPayment`, `GiveUpGatewayCall`, `CountFailedSend`, `ReleaseStaleClaims`) and
what they emit, so that `PaymentService` can pair the former with outbox rows.

### OutboxRelay

Rows are numbered in the order of `created_at`, and `ClaimPendingEvents` takes
the oldest claimable ones that no other transaction has locked at that moment.
They need not be committed in this order. `PublishFails` covers a
publish that raises whether or not the broker has taken the message; `Crash` the death of the
process and a database error, after which the loop starts afresh and the rest of
the batch stays leased. `copies` counts what the broker took, `mishaps` what went
wrong for a row. The broker always refuses the rows in `Poison` (`PublishRefused`):
an oversized message, say. (A message without a queue is not one of them: by default its
publish probably does not raise. `TopologyBootstrap` is about these.)

### PaymentApi

A request goes through lookup, insert, and then the read back or, after a
violated unique constraint, the second lookup. An amount is one of three
texts of the same number: `build_request_hash` spells out exponents and keeps
trailing zeros, and so does the model. `Refuse` is a request that never reaches the
service: the framework decodes the body first, then runs the dependencies of the
router (API key) and of the endpoint (idempotency key), then validates the body, in which an
unsafe webhook URL raises past the other findings. `Faults` is this order. A GET asks
at one time (`Ask`) and reads at another (`GetPayment`); `known` records whether some
client had been told of the payment when it asked.

### WebhookSender and WebhookDelivery

`WebhookDelivery` is a call of `send` as the event processor sees it: one step in
which the receiver gets the notification or not, and the caller learns the result.
`SendWebhook` of `PaymentProcessing` is this step; both take the classification from
`WebhookAnswers`. `WebhookSender` follows the code:

| `pc[s]` | Code | Actions |
|---|---|---|
| `idle` | `validate_public_webhook_url` | `Begin` |
| `resolve` | `asyncio.to_thread(getaddrinfo)`, check of all addresses | `StartLookup`, `FinishLookup` |
| `connect` | `request_url.copy_with(host=...)`, connection | `Connect` |
| `exchange` | `client.send` | `Transmit`, `Answer`, `TakeAnswer` |
| `close` | `finally: client.aclose()`, then classification | `Close` |

`Timeout`, `ConnectionFails` and `UnexpectedError` strike at any of these; a
lookup that has been given up stays in `lookups` until it is over, because a thread
cannot be cancelled. A request that arrives after its call has given up is, to the caller, one
that has not been answered, and is modelled as such. `DnsChanges` may happen between any two steps. Hosts are a
name, an address, an allowed host or a refused one; `Public` is the set of addresses
`_validate_public_address` accepts. Host header and SNI are left out.

### Broker and PaymentService

`Broker` has the queues of `build_rabbit_topology` as bags of messages, a
message's being unacknowledged, its acknowledgement when the handler has returned, its
return to the main queue (`NACK_ON_ERROR`, or a lost connection), and the move of a
message from a delay queue to the main queue.

In `PaymentService` a handler's transaction appends outbox rows, a message is
identified by its row, and a handler runs from `Deliver` until it acknowledges.
Three kinds of ending a run badly are told apart: `Fail` (the message goes back),
`LoseConnection` (the message goes back, the handler goes on as an orphan) and
`FailUnnoticed` (an orphan ends; nothing goes back). The refinement maps
`pendingEvents` to the events of rows that no handler has taken yet and `deadLetters`
to those of rows routed to `payments.dlq`. A relay's query finds no row locked here; what
`SKIP LOCKED` may pass over is in `OutboxRelay`.

The core's `Nack` always puts the event back, as `Fail` does. An orphan's event went back
earlier and may have been acknowledged by then, so `FailUnnoticed` has no counterpart in
the core: `NoStrandedPayment`, `InductiveInvariant` and `EveryPaymentFinishes` hold as long as no
orphan fails, and `service_orphans` shows what happens when one does.

### ClaimTiming

A consumer process (`Consumers`) runs handlers (`Home` says which) and one recovery task,
and they read the same clock; the clocks of two processes differ by at most `Skew`. Clocks are
read *before* the statement that uses the reading. A read, or a write up to the end of its
`COMMIT`, takes at most `MaxTransaction`, waits for connections and row locks included; work takes
at most `MaxWork`. `Tick` cannot pass a deadline. The gateway claim and the webhook claim have the
same code shape, so one column is enough. A tie between two timestamps cannot be excluded
by the code and is not excluded here.

| `pc` | Code | Actions |
|---|---|---|
| `idle`, `claiming` | `utcnow()`, then the claiming `UPDATE` and its `COMMIT` | `ReadClock`, `ClaimColumn` |
| `working` | the read that follows, and the call | `FinishWork` |
| `recording` | the recording `UPDATE` and its `COMMIT` | `RecordResult` |
| `asleep` | `asyncio.sleep` in `run_claim_recovery` | `StartScan` |
| `selecting` | `SELECT ... FOR UPDATE SKIP LOCKED` | `SelectStale`, `FindNothing`, `PassOver` |
| `releasing` | `UPDATE` by primary key, `INSERT`, `COMMIT`, with the row locked | `Release` |
| `down` | no process | `Crash`, `Restart` |

Nothing promises that recovery is prompt. `FailPoll` is an iteration that raises, at any
point, and is logged and skipped (`consumer.py:80-82`). `PassOver` is a poll whose batch is full of
other rows, or that finds the row locked (`recovery.py:56-57`). `Crash` takes the recovery and the
handlers of a process along, `Restart` may come at any time later or never; `Die` ends
one handler. `delay` is a history variable: how long the mishaps of each recovery may have put off the
end of the present claim. A poll that fails or passes the row over costs itself and a sleep,
and downtime counts while an expired claim waits for it. `LongClaimsAreExplained` says
that no claim is older than a timeout, a poll, three transactions and the `delay` of
*any* consumer. So one consumer without mishaps is enough to end every claim in that time, and
with mishaps of all of them there is no bound at all.

### TopologyBootstrap

A process reads its settings when it starts, declares and binds queue by queue and,
if it is a relay, publishes once it is through. A queue that exists with other arguments
refuses the declaration and ends the process. Settings are any the validators let
pass, with the same names of queues; the number of attempts and all delays
vary from one start to the next. Messages may carry any routing key, since consumers
write them with settings of their own.

## 3. Runs

| Run | Instance | Question |
|---|---|---|
| `core_safety` | 1 payment, 3 workers, 3 attempts | safety of processing under every interleaving; refinement of the lifecycle |
| `core_batches` | 2 payments, 2 workers, 1 attempt, batch 2, punctual claims | recovery of several rows; mutual exclusion when claims do not expire under their holders |
| `audit_live` | 1 payment, 2 workers, 3 attempts, 2 mishaps, fair | each call of a receiver has a reason; every payment finishes, every claim ends |
| `audit_doc_limit` | 1 payment, 2 workers, 3 attempts, 1 mishap | the documented maximum of calls (violated) |
| `outbox_live` | 3 rows, one of them refused, 2 relays, batch 2, 1 mishap per row, fair | nothing lost, duplicates explained, live leases kept, every healthy row published |
| `service_refines` | 1 payment, 2 workers, 1 relay, 2 attempts, 2 faults | outbox, relay and queues are the pool the handlers are specified with |
| `service_live` | 1 payment, 2 workers, 1 relay, 3 attempts, 1 fault, fair | from the request to the end |
| `service_orphans` | as `service_refines` | duplicates are tolerated, as documented (violated) |
| `timing_claims` | 2 processes with a handler and a recovery each, timeout 5 = work 1 + 3 transactions + skew 1, poll 2, 14 ticks, `MaxDelay` 4 | claims of punctual holders are kept; long claims have mishaps of every recovery behind them |
| `api_races` | 3 POSTs, 2 GETs, 2 keys, 6 payloads | idempotency, and reads after answers |
| `sender_calls` | 2 sends, 2 addresses (1 public), 1 thread, fair | the sender is the step it is taken for, and returns |
| `topology_bootstrap` | 1 relay, 1 other process, 2 or 3 attempts, delays 1 or 2 | declaration and publishing with changing settings |

Why the bounds are enough to be interesting: payments share no column, so one
payment shows everything but batches, which `core_batches` adds. Three workers
are a stale holder, a current holder and a bystander with a duplicate. Three
attempts are a first, a middle and a last one, which `NextRouting` treats
differently. Three rows with batches of two make batches overlap and leave a row
behind. Three requests give a winner, a loser and a later repetition; two
reads, one that learns of a payment and one that must find it. Two sends on one thread are
one that hangs and one that waits; one public and one private address are all a check can tell
apart. Two attempts and two faults are what it takes to repeat a retry and fail twice; so many
attempts and faults never produce more than the five outbox rows allowed. In
`timing_claims` the timeout is exactly the assumed margin, so one less is a
counterexample, and fourteen ticks are a timeout, a poll, three transactions and one
poll more that was lost; `MaxDelay` allows each recovery a lost poll (4), or as much downtime, and in
the run claims reach the bound both without mishaps and with them. The other
process of `topology_bootstrap` stands for any number of them: queues keep what the first
declaration gave them. Mishaps are
bounded per payment or row; the counters exist only in the audit and in
`OutboxRelay`, and the core itself has no bound on crashes, duplicates or expiry.

Symmetry is used for payments, workers, relays, processes with their handlers, requests, reads and keys in runs without
liveness properties. `core_safety` and `service_refines` use it with action and refinement
properties, which are checked step by step and treat the permuted values alike.
Deadlock is not checked where the modelled system comes to an end: every payment has finished,
every request is answered, time is over.

### What the runs show

Everything expected to hold does. Two documented statements do not:

- `README.md:114` gives three delivery attempts per webhook as the total. The code
  counts an attempt when its result is recorded. If the consumer dies or
  loses its claim in between, the same attempt is made again, and
  `audit_doc_limit` shows a fourth call of the receiver with a single mishap.
  `README.md:101` describes such duplicates (at-least-once), but not that the maximum
  is exceeded. `SendsAccountedFor` says exactly by how much it can be.
- `README.md:100` says that the consumer tolerates duplicate events. When the connection
  of a handler is lost while it is at the gateway, the broker redelivers its event; the second
  handler finds the claim held and acknowledges. If the first one then decides the
  payment and dies before it claims the webhook, neither claim nor event is left, and the
  payment stays decided but undelivered (`service_orphans`). It takes two faults
  of one handler; with one, `EveryPaymentSettles` holds. Safety is not affected:
  `service_refines` shows the lifecycle for these behaviours too.

Four more observations limit what holds:

- `outbox_live` assumes fewer refused rows than a batch has. Failed rows are released at once and are
  the oldest, so as many refused rows as `OUTBOX_BATCH_SIZE` occupy every batch and starve all
  others: with `Poison` of two rows `EveryRowIsPublished` fails.
- `validate_retry_settings` asks for a claim timeout above the work it covers.
  `ClaimTiming` needs three transactions and the clock skew on top; the default settings leave 25 s
  for them. A transaction includes the wait for a connection, for which SQLAlchemy's pool
  alone allows 30 s by default, so a consumer short of connections can exceed the margin. Then a
  claim may expire under its holder: `PaymentProcessing` is safe in that case as well, but work
  is no longer exclusive.
- `README.md:105` says that the consumer keeps no transaction open during gateway sleep or
  webhook calls. The claim is committed, but `session.get` at `processing.py:72` and `:108`
  begins a transaction that stays open, with its connection, until the result is recorded. It
  has locked no row, and under READ COMMITTED the next statement sees what others have
  committed meanwhile, so no step of the models depends on it. But the pool, not
  the broker's prefetch, then limits how many handlers work at a time. This was read from the
  code; sessions and connections are not modelled.
- In `topology_bootstrap` a relay may be handed a message for a queue its settings do
  not know and nobody has declared: after the maximum of attempts is raised, a consumer handles
  events before it has declared the new queue (`after_startup`), and a relay with the
  old settings publishes its retry. `KnownKeysAreRouted` excludes just this case; an
  upgrade that raises the maximum has to restart the relay first.

### Fairness

Safety needs none. For liveness (`FairSpec`):

- weak fairness of a handler's next step: the gateway simulator sleeps for a
  bounded time, `send` runs under `asyncio.timeout`, statements return;
- strong fairness of taking each pending event: the broker keeps delivering
  what is unacknowledged, and consumers become idle again and again;
- weak fairness of expiry and recovery: clocks advance, and `run_claim_recovery`
  polls for ever, survives exceptions and takes the rows with the oldest
  `updated_at` first, so no expired claim is passed over for ever, as long as some consumer
  runs and its polls do not fail for ever;
- weak fairness of each relay: `outbox_relay.main` loops for ever and survives
  exceptions; and strong fairness of its query finding no row locked: locks are held
  for one statement and do not meet every poll;
- in `PaymentService`, the same for handlers, recovery and relays, weak fairness of each
  message's TTL, and strong fairness of each message of the main queue being delivered;
- in `WebhookSender`, weak fairness of the timer of `asyncio.timeout` and of closing
  the client, and of nothing else: resolvers, receivers and threads may hang;
- failures eventually cease: crashes, gateway errors, overrun claims, duplicates
  and publish errors are rationed by `MaxMishaps`. The code bounds none of them,
  so without this assumption a gateway that is down, or an exception `process()`
  does not catch, keeps a payment pending for ever.

`PunctualSpec` adds that no claim expires while its holder works, which
`validate_retry_settings` (`core/config.py:133-140`) is meant to achieve: each
claim timeout exceeds the longest call it covers. `ClaimTiming` says with which margin it
does.

## 4. Proofs

Everything is proved for all values of the constants; the bounds of section 3 are TLC's
only (where a bound is part of a module, as `MaxRows` and `MaxFaults` are, it is any number).
Every invariant and every action property of a passing run is the subject of a theorem:

| Theorem | Statement |
|---|---|
| *`PaymentProcessingProofs`* | |
| `InvariantHolds` | `Spec => []InductiveInvariant` |
| `TypeCorrectness`, `NotificationAgreement`, `DeliveryWasAccepted`, `DeadLettersAreFinal`, `NobodyIsStranded` | the invariants of `core_safety` |
| `ProcessingImplementsLifecycle` | `Spec => ImplementsLifecycle` |
| `LiveClaimsKept` | `Spec => LiveClaimsAreKept` |
| `GatewayExclusive`, `WebhookExclusive` | mutual exclusion under `PunctualSpec` |
| *`AuditProofs`* | |
| `SendsAreAccountedFor` | the invariant of `audit_live` |
| `MaximumHoldsUpToMishaps` | a receiver is called at most `MaxDeliveryAttempts` times, plus once for each mishap |
| `AuditIsProcessing` | `AuditSpec => Spec` |
| *`ClaimTimingProofs`* | |
| `HoldersKeepClaims`, `WorkIsExclusive`, `LongClaimsExplained`, `TimingHolds` | the invariants of `timing_claims`, for any processes, handlers and durations |
| *`ApiProofs`* | |
| `ApiTypeCorrectness`, `KeysAreUnique`, `AnswersAreTrue`, `RepetitionIsSafe`, `RacesAreDecided`, `ReadsFollowAnswers`, `AcceptedTexts` | the invariants of `api_races`, for any requests, reads, keys and payloads |
| *`OutboxProofs`* | |
| `OutboxTypeCorrectness`, `NoEventIsLost`, `PublicationReleases`, `DuplicatesAreExplained`, `LiveLeasesKept` | the safety properties of `outbox_live`, for any rows, relays and batch size |
| *`ServiceProofs`* | |
| `ServiceImplementsProcessing` | `Spec => ImplementsProcessing` |
| `ServiceImplementsPool` | `Spec => Pool!Spec`: the service is `PaymentProcessing` with every event ever issued pending (its safety, that is; nobody is ever stranded in such a pool) |
| `ServiceImplementsLifecycle` | `Spec => ImplementsLifecycle` |
| `DelaysAreKept` | `Spec => []RetriesWait` |
| `ServiceNotifiesTruly`, `ServiceDeadLettersAreFinal`, `ServiceKeepsClaims` | the safety of the handlers, carried over to the service |
| `ServiceLosesNoEvent`, `ServiceExplainsDuplicates`, `ServiceKeepsLeases` | the safety of the relays, carried over to the service |
| *`SenderProofs`* | |
| `OnlyCheckedAddressesContacted` | the invariant of `sender_calls` |
| `SenderImplementsDelivery` | `Spec => ImplementsDelivery` |
| *`TopologyProofs`* | |
| `KnownKeysAlwaysRouted`, `RetriesAlwaysWaitAsConfigured` | the invariants of `topology_bootstrap` |

Assumptions on the constants. `ConfigAssumption`: at least one attempt and one row per batch, and a
`None` that is neither a worker nor an event; `None \notin Workers` is what makes
"the claim is not null" mean that somebody holds it. `AuditAssumption` and
`ServiceAssumption` add that workers, or payments and relays, are finitely many (the proofs
count them, and write a batch's resume events as a sequence), `ServiceAssumption` also that
`None` is no relay and no row. `SenderAssumption`: the public addresses are addresses, and the executor has a
thread. `TopologyAssumption`: settings are natural numbers. Those of the other
modules are named below.

The argument. None of the safety properties is inductive alone. That receivers
agree with the recorded status needs what a handler carries across its awaits
(`RunOK`: in `send` and `record` its note is the status of the row, which is final). That
delivered means accepted needs the same of the outcome. That dead letters are
final needs that events never run ahead of their row (`EventsLagRows`), and that
a handler which still owns the webhook claim has an event with the row's attempt
number: otherwise a late event could match the row again.
`NoStrandedPayment` needs, in addition, that a row which has used up its attempts is finished
(`RowOK`), because such a row accepts no event. `attempts <= Max` comes from the
same part: a claim needs an unfinished row, so the number recorded is at most the
maximum. `InductiveInvariant` is the conjunction; there is one lemma per action
that preserves it, over a few frame lemmas for the handlers and payments a
step does not touch.

For the refinement, `decision` is `status`, and `webhook` is read off `delivered` and
`deadLetters`. Five kinds of step change these; each is one step of the
lifecycle, by the `WHERE` clause of its `UPDATE` and the invariant. All others
stutter. Mutual exclusion strengthens the invariant by "a handler at work holds an
unexpired claim", which punctual steps preserve.

`AuditProofs` weighs the calls already made *and* those still to come from handlers whose
claim has run out or is somebody else's (`StaleSenders`) against attempts, mishaps and one
send about to be counted under a live claim (`Counting`). `SendsAccountedFor` alone is not
inductive, because a stale handler sends although no mishap of that moment pays for it; the
mishap that made it stale has. That a claim is taken makes nobody stale: the claim was free
or had expired, so whoever still works under it is stale already.

`ClaimTimingProofs` assumes `TimingAssumption`: `Timeout >= MaxWork + 3 * MaxTransaction +
Skew`. It assumes nothing of recovery: polls may fail, pass the row over, or never come. The
invariant bounds every process's deadline by the timestamp it has read: a holder is
done at most `MaxWork + 3 * MaxTransaction` after its own reading, and nobody reads a clock
further ahead than `Skew`, so no cutoff passes its claim (`HeldIsFresh`). Recovery clears the claim by
primary key, some time after it has found it stale. That this claim is still the one it found
is due to the row lock: a handler at work has no locked row (`LockedIsFree`),
only one recovery has it (`OneReleaser`), and without the lock (`NeverLocked`) the invariant
fails. `LongClaimsAreExplained` needs, for each recovery, a bound on its next poll in terms
of the claim and of the mishaps its `delay` has been charged with (`PollBound`): a poll
that starts after the claim has become stale either releases it or is charged, and a process that is
down pays for each tick, and at its end for the poll it was in.

`ApiProofs` assumes that `None` is no request, payload or payment identifier
(`ApiAssumption`). Its invariant says what a request knows at each point between its
statements: after the commit its own row is stored; when it looks again
after a lost commit, a row with its key exists, because rows are never deleted; the answer
it gives is true of the stored row. `KnownIsNeverMissing` needs one conjunct more: what a
client had been told of when it asked is stored.

`OutboxProofs` assumes finitely many relays and that `None` is none of them. `PublishedWasSent`
needs only that a relay about to mark a row has sent it. `CopiesAccountedFor` is not
inductive, because a relay whose lease has run out is going to send a message that
no mishap of its own will pay for. `Accounted` counts such relays (`Stale`) with the messages
and weighs them against the mishaps that made them stale; a live lease whose message has
been sent (`Confirmed`) is worth as much as the publication it will become. A
claim makes nobody stale, since whoever is on the way to a claimable row is
stale already; expiry makes its relay stale or takes its confirmation, never both. One lemma
per action says how the books balance.

`ServiceProofs` has two instances of `PaymentProcessing`. `Core` has the events that really are in
outbox rows and queues; `Pool` has every event ever issued, always. The argument has three
layers. First, each step of the service is a step of `Pool`, for which
it is enough that what a handler is given was issued (`OnlyIssued`); so the
invariant of `PaymentProcessing` is available in the service without knowing where an event
is. Secondly, `ServiceInvariant` adds the invariant of `OutboxRelay` and what ties the parts
together: a message in a queue is a committed row, in the main queue or the one its row names
(`MessagesAreRows`); the handler of an unacknowledged message works on its event
(`UnackedIsHandled`); an event that is not on its way to its delay has had it, and so has
the attempt somebody has claimed (`DelaysAreServed`). `RetriesWait` follows from the last,
which needs the claims: resume events carry the number of an attempt that was claimed before,
so they may take the main queue. Thirdly, for `ImplementsProcessing`, the
pending events of `Core` are tracked through every transaction and every step of relays and queues: a
message that leaves one place is in another, or its handler has it, or an equal one is
left. `FailUnnoticed` is the one step that loses an event, and the only one the property excepts.
A business transaction may commit several rows at once, which `OutboxRelay` does one by one;
its invariant is therefore carried over a commit by a lemma of its own (`CommitKeepsRelays`).

`SenderProofs` says of a call at each of its awaits what has been checked and what the receiver
knows: on the way to a connection a name has a public address pinned (`HostIsChecked`), nothing
is seen before the connection and nothing said before it is seen
(`AnswerNeedsRequest`), and the verdict a call closes its client with is true of the
receiver (`VerdictIsTrue`). The last is what the refinement needs: `Timeout`, `Close` and
`UnexpectedError` return, and are the step of `WebhookDelivery`; everything else, what
threads and receivers do after the return included, leaves the abstract state alone.

`TopologyProofs` has the invariant that each queue a process is past exists exactly as
the process's own settings want it, and is bound (`PastQueuesAgree`). A step of another process
cannot disturb it, because a queue that is bound has been declared (`BoundIsDeclared`) and a
declared queue is never declared anew. It is inductive only together with
`StoppedIsAtStart`: a process that starts again does not inherit the progress of its predecessor. Then both
properties are facts about `build_rabbit_topology` (`RoutingKeysAreQueues`,
`DelaysOfSettings`).

TLC checked each of these invariants on the small instances before it was proved.

Only model-checked: liveness (`EveryPaymentFinishes`, `ClaimsAreTemporary`,
`EveryRowIsPublished`, `EveryPaymentSettles`, `EverySendReturns`), as TLAPS reasons neither about
fairness nor about `ENABLED`; and the two violations, which are counterexamples.

## 5. Not modelled

- *Ranges of addresses, blocked hosts, idempotency-key syntax, Host header and SNI*:
  functions of one string. The models have the set of public addresses, the class of
  refused hosts, and a request's faults.
- *Heartbeat and health check*: nothing in the service depends on the file. It is
  beaten by a task of its own, so a stuck loop does not make it stale.
- *Shutdown* is a crash of the handlers and of recovery. *Migrations* run before
  the system starts. *Logging*, the formatting of responses and the parsing of settings have
  no state that the components share. The *webhook mock* is one of the receivers any
  answer may come from.
- *Sessions and connections*: see the observation on `README.md:105` in section 3.
- *Refusals that cannot be answered*: the details of a validation error repeat the
  input (`main.py:63-74`); if that cannot be written as JSON, the answer is 500 instead of 422. Nothing
  is stored in either case.
- *Two retry queues with one name*: the validators count names and do not compare them.
  What then happens depends on whether the client library declares the name
  twice.

## 6. Plan

Done, in this order: `PaymentProcessing` with its runs and proofs;
`PaymentLifecycle` and the refinement; `DeliveryAudit`; `OutboxRelay`;
`PaymentApi`; `Broker` and `PaymentService`; `ClaimTiming` with its proofs; rows that
never publish; `WebhookSender` and `WebhookDelivery`; `TopologyBootstrap`; refusals and
reads of the API; `ApiProofs` and `OutboxProofs`; `ServiceProofs`, `AuditProofs`,
`SenderProofs` and `TopologyProofs`; recoveries that fail and die in `ClaimTiming`.

Next:

1. An abstract specification of the API (one step per answered request), and that `PaymentApi`
   implements it.
2. That `ClaimTiming` implements an abstract claim which does not expire under a punctual
   holder, so that `PunctualSpec` rests on a theorem.
3. Sessions and the connection pool of a consumer, whose handlers keep a connection each during
   their calls.
4. Handlers and relays of deployments with different maxima of attempts in
   `PaymentService`.
