------------------------- MODULE TopologyBootstrap -------------------------
(***************************************************************************)
(* From the settings to the queues.  Consumers, relays and runs of         *)
(* verify_rabbit_topology each derive the topology from their settings and *)
(* declare it queue by queue, whatever the others have declared before; a  *)
(* queue that exists with other arguments refuses, and ends the process.   *)
(* Relays publish once they have declared everything.  Consumers receive   *)
(* events before that (after_startup), so that at any time there may be    *)
(* outbox rows for any queue of any deployment.                            *)
(*                                                                         *)
(* A process reads its settings when it starts; a deployment changes them  *)
(* while other processes still run with the old ones.  Names of queues are *)
(* kept by deployments, and distinct.                                      *)
(***************************************************************************)
EXTENDS Naturals, Sequences

CONSTANTS
  Relays,    \* processes running messaging.outbox_relay
  Others,    \* processes running messaging.consumer or verify_rabbit_topology
  Attempts,  \* values deployments give WEBHOOK_MAX_DELIVERY_ATTEMPTS,
  Seconds,   \* PROCESSING_RETRY_DELAY_SECONDS, WEBHOOK_RETRY_DELAYS_SECONDS
  Retries,   \* longest list of delays a deployment gives
  None       \* not running; not declared; no TTL

ASSUME TopologyAssumption == Attempts \cup Seconds \cup {Retries} \subseteq Nat

Processes == Relays \cup Others

Main            == <<"payments.new", 0>>
ProcessingRetry == <<"payments.processing.retry", 0>>
Dlq             == <<"payments.dlq", 0>>
Retry(k)        == <<"payments.new.retry", k>>
Names           == {Main, ProcessingRetry, Dlq} \cup {Retry(k) : k \in 1..Retries}

VARIABLES
  settings,  \* the settings each process runs with, or None
  progress,  \* how many queues each process has declared and bound
  queues,    \* the definition each queue was first declared with, or None
  bound,     \* the queues bound to the exchange
  delayed,   \* history: [due, queue] of messages put into delay queues
  unrouted   \* history: [key, by] of messages the exchange had no queue for

vars == <<settings, progress, queues, bound, delayed, unrouted>>

-----------------------------------------------------------------------------
(* Settings and topology *)

\* Settings.validate_max_delivery_attempts and validate_retry_settings; the
\* names of the retry queues are as many as the delays.
Validates(s) ==
  /\ s.attempts >= 1
  /\ Len(s.delays) = s.attempts - 1
  /\ \A k \in DOMAIN s.delays : s.delays[k] > 0
  /\ s.processing > 0

ValidSettings ==
  {s \in [attempts   : Attempts,
          delays     : UNION {[1..n -> Seconds] : n \in 0..Retries},
          processing : Seconds] : Validates(s)}

Plain(name)            == [name |-> name, ttl |-> None, target |-> None]
Delayed(name, seconds) == [name |-> name, ttl |-> seconds * 1000, target |-> Main]

\* Mutant: the dead letter queue is left out.
NoDlq(s) ==
  <<Plain(Main), Delayed(ProcessingRetry, s.processing)>>
  \o [k \in DOMAIN s.delays |-> Delayed(Retry(k), s.delays[k])]

\* build_rabbit_topology(...).all_queues().
AllQueues(s) ==
  <<Plain(Main), Delayed(ProcessingRetry, s.processing)>>
  \o [k \in DOMAIN s.delays |-> Delayed(Retry(k), s.delays[k])]
  \o <<Plain(Dlq)>>

\* The routing keys a service with these settings gives its messages.
RoutingKeys(s) == {Main, ProcessingRetry, Dlq} \cup {Retry(k) : k \in DOMAIN s.delays}

\* The delay these settings promise for messages with this routing key.
Due(s, key) == IF key = ProcessingRetry THEN s.processing ELSE s.delays[key[2]]

Init ==
  /\ settings = [p \in Processes |-> None]
  /\ progress = [p \in Processes |-> 0]
  /\ queues   = [name \in Names |-> None]
  /\ bound    = {}
  /\ delayed  = {}
  /\ unrouted = {}

-----------------------------------------------------------------------------
(* Actions *)

Start(p) ==
  /\ settings[p] = None
  /\ \E s \in ValidSettings : settings' = [settings EXCEPT ![p] = s]
  /\ UNCHANGED <<progress, queues, bound, delayed, unrouted>>

Die(p) ==
  /\ settings[p] # None
  /\ settings' = [settings EXCEPT ![p] = None]
  /\ progress' = [progress EXCEPT ![p] = 0]
  /\ UNCHANGED <<queues, bound, delayed, unrouted>>

\* Mutant: a relay publishes before it has declared the topology.
RunsAtOnce(p) == settings[p] # None

\* declare_topology has returned.
Ready(p) == settings[p] # None /\ progress[p] = Len(AllQueues(settings[p]))

Declaring(p) == settings[p] # None /\ progress[p] < Len(AllQueues(settings[p]))

\* The definition p declares next.
Upcoming(p) == AllQueues(settings[p])[progress[p] + 1]

\* RabbitMQ wants the arguments of an existing queue repeated exactly.
Equivalent(q) == queues[q.name] \in {None, q}

DeclareQueue(p) ==
  /\ Declaring(p) /\ queues[Upcoming(p).name] = None
  /\ queues' = [queues EXCEPT ![Upcoming(p).name] = Upcoming(p)]
  /\ UNCHANGED <<settings, progress, bound, delayed, unrouted>>

\* The queue is there, by this declaration or an equivalent one.
BindQueue(p) ==
  /\ Declaring(p) /\ queues[Upcoming(p).name] # None /\ Equivalent(Upcoming(p))
  /\ bound'    = bound \cup {Upcoming(p).name}
  /\ progress' = [progress EXCEPT ![p] = @ + 1]
  /\ UNCHANGED <<settings, queues, delayed, unrouted>>

\* PRECONDITION_FAILED.
Refused(p) == Declaring(p) /\ ~Equivalent(Upcoming(p)) /\ Die(p)

\* A message that some consumer addressed to this queue.
Publish(v, key) ==
  /\ Ready(v)
  /\ IF key \notin bound
       THEN /\ unrouted' = unrouted \cup {[key |-> key, by |-> settings[v]]}
            /\ UNCHANGED delayed
       ELSE /\ delayed' = IF queues[key].ttl = None \/ key \notin RoutingKeys(settings[v])
                            THEN delayed
                            ELSE delayed \cup
                              {[due |-> Due(settings[v], key), queue |-> queues[key]]}
            /\ UNCHANGED unrouted
  /\ UNCHANGED <<settings, progress, queues, bound>>

Next ==
  \/ \E p \in Processes :
       Start(p) \/ Die(p) \/ DeclareQueue(p) \/ BindQueue(p) \/ Refused(p)
  \/ \E v \in Relays, key \in Names : Publish(v, key)

Spec == Init /\ [][Next]_vars

-----------------------------------------------------------------------------
(* Properties *)

\* The exchange has a queue for every message whose routing key the relay was
\* configured with, however many processes died half-way through the topology,
\* in whatever order they started (declare_topology, outbox_relay.main).
KnownKeysAreRouted == \A u \in unrouted : u.key \notin RoutingKeys(u.by)

\* A delay queue a relay publishes to has the delay of the relay's settings, not
\* that of an earlier deployment, and leads back to a bound main queue
\* (README.md:93, README.md:269).
RetriesWaitAsConfigured ==
  \A d \in delayed : d.queue.ttl = d.due * 1000 /\ d.queue.target \in bound
=============================================================================
