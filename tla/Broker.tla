------------------------------- MODULE Broker -------------------------------
(***************************************************************************)
(* RabbitMQ as build_rabbit_topology sets it up and as the service relies  *)
(* on it: a main queue that the consumers read, delay queues whose         *)
(* messages move to the main queue when their TTL is over, and a dead      *)
(* letter queue that nobody reads.  Queues are durable and messages        *)
(* persistent, so a restart of the broker loses only its connections.      *)
(*                                                                         *)
(* A queue is a bag: redelivery, TTLs and concurrent consumers leave the   *)
(* handlers no order to rely on.                                           *)
(***************************************************************************)
EXTENDS Naturals

CONSTANTS
  Messages,     \* what is published, one element for each outbox row
  Consumers,    \* concurrent runs of handle_payment_created
  RetryDelays,  \* how many delays WEBHOOK_RETRY_DELAYS_SECONDS lists
  None          \* a consumer without an unacknowledged message

VARIABLES
  queued,   \* queued[q][m]: copies of m in queue q
  unacked   \* the message each consumer has not acknowledged yet, or None

broker == <<queued, unacked>>

Main            == <<"payments.new", 0>>
ProcessingRetry == <<"payments.processing.retry", 0>>
Dlq             == <<"payments.dlq", 0>>

\* The queue with the k-th delay, as zip pairs them.
Retry(k) == <<"payments.new.retry", k>>

\* The queues with a TTL and a dead-letter routing key; the key is the name of
\* the main queue for every one of them.
DelayQueues == {ProcessingRetry} \cup {Retry(k) : k \in 1..RetryDelays}
Queues      == {Main, Dlq} \cup DelayQueues

Init ==
  /\ queued  = [q \in Queues |-> [m \in Messages |-> 0]]
  /\ unacked = [c \in Consumers |-> None]

Put(q, m) == queued' = [queued EXCEPT ![q][m] = @ + 1]

\* The exchange is direct and each queue bound with its own name.
Publish(q, m) == Put(q, m) /\ UNCHANGED unacked

\* A consumer is handed a message and has not acknowledged it yet.
Deliver(c, m) ==
  /\ unacked[c] = None /\ queued[Main][m] > 0
  /\ queued'  = [queued EXCEPT ![Main][m] = @ - 1]
  /\ unacked' = [unacked EXCEPT ![c] = m]

\* The handler has returned.
Acknowledge(c) == unacked' = [unacked EXCEPT ![c] = None] /\ UNCHANGED queued

\* Mutant: a refused message is dropped (nack without requeue).
DropInstead(c) == unacked[c] # None /\ Acknowledge(c)

\* The handler raised (NACK_ON_ERROR), or the connection is gone: the message
\* goes back to the main queue.
Requeue(c) ==
  /\ unacked[c] # None
  /\ Put(Main, unacked[c])
  /\ unacked' = [unacked EXCEPT ![c] = None]

\* Mutant: a delay queue without a dead-letter exchange.
TtlDiscards(q, m) ==
  /\ q \in DelayQueues /\ queued[q][m] > 0
  /\ queued' = [queued EXCEPT ![q][m] = @ - 1]
  /\ UNCHANGED unacked

\* The TTL of a delayed message is over.
TtlExpires(q, m) ==
  /\ q \in DelayQueues /\ queued[q][m] > 0
  /\ queued' = [queued EXCEPT ![q][m] = @ - 1, ![Main][m] = @ + 1]
  /\ UNCHANGED unacked
=============================================================================
