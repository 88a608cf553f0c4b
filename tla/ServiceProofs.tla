--------------------------- MODULE ServiceProofs ---------------------------
(***************************************************************************)
(* Machine-checked proofs about PaymentService.                            *)
(***************************************************************************)
EXTENDS PaymentService, FiniteSetTheorems, TLAPS

IssuedEvents == Core!Issued

Pool == INSTANCE PaymentProcessingProofs
  WITH pendingEvents <- IssuedEvents, deadLetters <- DeadLetters

Outbox == INSTANCE OutboxProofs
  WITH BatchSize <- OutboxBatchSize, MaxMishaps <- MaxFaults, Poison <- {},
       committed <- Committed, expired <- leaseExpired, pc <- relayPc

\* Each row is an event for one queue.
Records == [event : Core!Events, route : Queue!Queues]

\* What the service has promised to deliver it may deliver at any time.
OnlyIssued ==
  /\ \A r \in Committed : outbox[r].route # Queue!Dlq => outbox[r].event \in IssuedEvents
  /\ \A w \in Workers : pc[w] # "idle" => event[w] \in IssuedEvents

\* The assumptions of the components hold.
LEMMA Assumptions ==
  /\ MaxDeliveryAttempts \in Nat \ {0} /\ RecoveryBatchSize \in Nat \ {0}
  /\ None \notin Workers /\ None \notin Pool!Events
  /\ Rows \subseteq Nat /\ OutboxBatchSize \in Nat \ {0} /\ MaxFaults \in Nat
  /\ {} \subseteq Rows /\ None \notin Relays /\ Outbox!IsFiniteSet(Relays)
BY ServiceAssumption DEF Outbox!IsFiniteSet, IsFiniteSet, Rows, Core!Events, Pool!Events, Core!Attempts, Pool!Attempts

\* The two instances of PaymentProcessing differ in the pool of events alone.
LEMMA SameState ==
  /\ Core!Attempts = Pool!Attempts /\ Core!Events = Pool!Events
  /\ Core!FinalStatuses = Pool!FinalStatuses
  /\ Core!Responses = Pool!Responses
  /\ Core!SendingLabels = Pool!SendingLabels
  /\ Core!Recoverable = Pool!Recoverable
  /\ Core!Issued = Pool!Issued
BY DEF Core!Attempts, Pool!Attempts, Core!Events, Pool!Events, Core!FinalStatuses,
   Pool!FinalStatuses, Core!Responses, Pool!Responses, Core!SendingLabels, Pool!SendingLabels,
   Core!Recoverable, Pool!Recoverable, Core!Processed, Pool!Processed, Core!Issued, Pool!Issued,
   Core!Finished, Pool!Finished, Core!DeadLettered, Pool!DeadLettered,
   Core!Answers, Pool!Answers

LEMMA SameHelpers ==
  /\ \A p : Core!Processed(p) <=> Pool!Processed(p)
  /\ \A p : Core!Finished(p) <=> Pool!Finished(p)
  /\ \A w : /\ Core!Target(w) = Pool!Target(w)
            /\ Core!HoldsGatewayClaim(w) <=> Pool!HoldsGatewayClaim(w)
            /\ Core!HoldsWebhookClaim(w) <=> Pool!HoldsWebhookClaim(w)
            /\ Core!GatewayRetry(w) = Pool!GatewayRetry(w)
            /\ Core!AttemptNumber(w) = Pool!AttemptNumber(w)
            /\ \A routing : Core!FollowUp(w, routing) = Pool!FollowUp(w, routing)
  /\ \A ps : Core!ResumeEvents(ps) = Pool!ResumeEvents(ps)
BY DEF Core!FinalStatuses, Pool!FinalStatuses,  Core!Processed, Pool!Processed, 
   Core!Finished, Pool!Finished, Core!DeadLettered, Pool!DeadLettered, Core!Target, Pool!Target,
   Core!HoldsGatewayClaim, Pool!HoldsGatewayClaim, Core!HoldsWebhookClaim, Pool!HoldsWebhookClaim,
   Core!GatewayRetry, Pool!GatewayRetry, Core!AttemptNumber, Pool!AttemptNumber,
   Core!FollowUp, Pool!FollowUp, Core!NextRouting, Pool!NextRouting, Core!ResumeEvents, Pool!ResumeEvents

LEMMA SameParts ==
  /\ \A p : Core!InsertPayment(p) <=> Pool!InsertPayment(p)
  /\ \A w : /\ Core!GiveUpGatewayCall(w) <=> Pool!GiveUpGatewayCall(w)
            /\ Core!CountFailedSend(w) <=> Pool!CountFailedSend(w)
            /\ Core!Abandon(w) <=> Pool!Abandon(w)
            /\ \A e : Core!Take(w, e) <=> Pool!Take(w, e)
BY DEF Core!FinalStatuses, Pool!FinalStatuses,  Core!Processed, Pool!Processed, 
   Core!Target, Pool!Target, Core!row, Pool!row, Core!claims, Pool!claims, Core!local, Pool!local,
   Core!HoldsGatewayClaim, Pool!HoldsGatewayClaim, Core!HoldsWebhookClaim, Pool!HoldsWebhookClaim,
   Core!AttemptNumber, Pool!AttemptNumber, Core!InsertPayment, Pool!InsertPayment,
   Core!GiveUpGatewayCall, Pool!GiveUpGatewayCall, Core!CountFailedSend, Pool!CountFailedSend,
   Core!Abandon, Pool!Abandon, Core!Take, Pool!Take, Core!Goto, Pool!Goto, Core!Return, Pool!Return,
   Core!ReleaseGatewayClaim, Pool!ReleaseGatewayClaim, Core!ReleaseWebhookClaim, Pool!ReleaseWebhookClaim

LEMMA SameRecovery ==
  \A ps : Core!ReleaseStaleClaims(ps) <=> Pool!ReleaseStaleClaims(ps)
BY SameState DEF Core!ReleaseStaleClaims, Pool!ReleaseStaleClaims, Core!row, Pool!row, Core!local, Pool!local,
   Core!Cardinality, Pool!Cardinality, Core!IsFiniteSet, Pool!IsFiniteSet

-----------------------------------------------------------------------------
(* Rows are appended to the outbox *)

\* SetToSeq lists a finite set.
LEMMA SetToSeqLists ==
  ASSUME NEW S, IsFiniteSet(S)
  PROVE  /\ SetToSeq(S) \in Seq(S)
         /\ \A x \in S : \E i \in 1..Len(SetToSeq(S)) : SetToSeq(S)[i] = x
<1> DEFINE f == SetToSeq(S)
           n == Cardinality(S)
<1>1. n \in Nat /\ \E g \in [1..n -> S] : IsInjective(g)
  BY FS_CardinalityType DEF ExistsBijection, Bijection, Injection, IsInjective
<1>2. f \in [1..n -> S] /\ IsInjective(f)
  BY <1>1 DEF SetToSeq
<1>3. f \in Injection(1..n, S)
  BY <1>2 DEF Injection, IsInjective
<1>4. IsFiniteSet(1..n) /\ Cardinality(1..n) = n
  BY <1>1, FS_Interval
<1>5. f \in Surjection(1..n, S)
  BY <1>3, <1>4, FS_Injection
<1>6. f \in Seq(S) /\ Len(f) = n
  BY <1>1, <1>2
<1> QED
  BY <1>5, <1>6 DEF Surjection

\* A commit appends its records and leaves the earlier rows alone.
LEMMA CommitAppends ==
  ASSUME outbox \in Seq(Records), NEW records \in SUBSET Records, IsFiniteSet(records),
         Commit(records)
  PROVE  /\ outbox' \in Seq(Records) /\ Len(outbox') <= MaxRows
         /\ Committed \subseteq Committed' /\ Committed' \subseteq Rows
         /\ \A r \in Committed : outbox'[r] = outbox[r]
         /\ \A r \in Committed' \ Committed : outbox'[r] \in records
         /\ \A x \in records : \E r \in Committed' \ Committed : outbox'[r] = x
<1> DEFINE f == SetToSeq(records)
<1>1. f \in Seq(records) /\ \A x \in records : \E i \in 1..Len(f) : f[i] = x
  BY SetToSeqLists
<1>2. f \in Seq(Records)
  BY <1>1
<1>3. outbox' = outbox \o f /\ Len(outbox') <= MaxRows
  BY DEF Commit
<1> HIDE DEF f
<1>4. Len(outbox') = Len(outbox) + Len(f) /\ outbox' \in Seq(Records)
  BY <1>2, <1>3
<1>5. /\ \A r \in 1..Len(outbox) : outbox'[r] = outbox[r]
      /\ \A i \in 1..Len(f) : outbox'[Len(outbox) + i] = f[i]
  BY <1>2, <1>3
<1>6. ASSUME NEW r \in Committed' \ Committed PROVE outbox'[r] \in records
  <2>1. PICK i \in 1..Len(f) : r = Len(outbox) + i
    <3>1. r - Len(outbox) \in 1..Len(f) /\ r = Len(outbox) + (r - Len(outbox))
      BY <1>2, <1>4, <1>6 DEF Committed
    <3> QED
      BY <3>1
  <2>2. f[i] \in records
    BY <1>1
  <2> QED
    BY <1>5, <2>1, <2>2
<1>7. ASSUME NEW x \in records PROVE \E r \in Committed' \ Committed : outbox'[r] = x
  <2>1. PICK i \in 1..Len(f) : f[i] = x
    BY <1>1
  <2>2. Len(outbox) + i \in Committed' \ Committed
    BY <1>2, <1>4 DEF Committed
  <2> QED
    BY <1>5, <2>1, <2>2
<1> QED
  BY <1>2, <1>3, <1>4, <1>5, <1>6, <1>7, ServiceAssumption DEF Committed, Rows
LEMMA QueueNames ==
  /\ Queue!Main # Queue!Dlq /\ Queue!ProcessingRetry # Queue!Dlq
  /\ Queue!Main # Queue!ProcessingRetry
  /\ \A k : /\ Queue!Retry(k) # Queue!Dlq /\ Queue!Retry(k) # Queue!Main
            /\ Queue!Retry(k) # Queue!ProcessingRetry
BY DEF Queue!Main, Queue!Dlq, Queue!ProcessingRetry, Queue!Retry

\* The dead letters are the rows for the dead letter queue.
LEMMA CommitLetters ==
  ASSUME outbox \in Seq(Records), NEW records \in SUBSET Records, IsFiniteSet(records),
         Commit(records)
  PROVE  \A e : e \in DeadLetters' <=>
           e \in DeadLetters \/ \E x \in records : x.route = Queue!Dlq /\ x.event = e
<1>1. /\ Committed \subseteq Committed'
      /\ \A r \in Committed : outbox'[r] = outbox[r]
      /\ \A r \in Committed' \ Committed : outbox'[r] \in records
      /\ \A x \in records : \E r \in Committed' \ Committed : outbox'[r] = x
  BY CommitAppends
<1> QED
  BY <1>1 DEF DeadLetters

LEMMA RecordsOf ==
  ASSUME NEW events \in SUBSET Core!Events, IsFiniteSet(events), NEW q \in Queue!Queues
  PROVE  /\ Record(events, q) \in SUBSET Records /\ IsFiniteSet(Record(events, q))
         /\ \A y \in Record(events, q) : y.route = q /\ y.event \in events
         /\ \A e \in events : [event |-> e, route |-> q] \in Record(events, q)
<1> DEFINE f == [e \in events |-> [event |-> e, route |-> q]]
<1>1. Record(events, q) \in SUBSET Records
  BY DEF Record, Records
<1>2. f \in Surjection(events, Record(events, q))
  BY DEF Record, Surjection
<1>3. IsFiniteSet(Record(events, q))
  BY <1>2, FS_Surjection
<1> QED
  BY <1>1, <1>3 DEF Record

\* Events for the handlers are no dead letters.
LEMMA NoNewLetters ==
  ASSUME outbox \in Seq(Records), NEW events \in SUBSET Core!Events, IsFiniteSet(events),
         NEW q \in Queue!Queues, q # Queue!Dlq, Commit(Record(events, q))
  PROVE  DeadLetters' = DeadLetters
<1>1. /\ Record(events, q) \in SUBSET Records /\ IsFiniteSet(Record(events, q))
      /\ \A y \in Record(events, q) : y.route # Queue!Dlq
  BY RecordsOf
<1>2. \A e : e \in DeadLetters' <=> e \in DeadLetters
  BY <1>1, CommitLetters
<1> QED
  BY <1>2

-----------------------------------------------------------------------------
(* The service as a pool of events *)

\* The events issued depend on these columns.
LEMMA SameIssued ==
  ASSUME UNCHANGED <<attempts, delivered, DeadLetters>>,
         \A p \in Payments : status'[p] = "absent" <=> status[p] = "absent"
  PROVE  IssuedEvents' = IssuedEvents
BY DEF IssuedEvents, Core!Issued, Core!Events, Core!Finished, Core!DeadLettered

LEMMA SubmitIsCreate ==
  ASSUME outbox \in Seq(Records), Pool!InductiveInvariant, NEW p \in Payments, Submit(p)
  PROVE  Pool!CreatePayment(p)
<1> DEFINE e == Core!FirstEvent(p)
<1>1. e \in Core!Events /\ e = Pool!FirstEvent(p) /\ e = [payment |-> p, attempt |-> 0]
  BY ServiceAssumption DEF Core!FirstEvent, Pool!FirstEvent, Core!Events, Core!Attempts
<1>2. Pool!InsertPayment(p)
  BY SameParts DEF Submit
<1>3. DeadLetters' = DeadLetters
  BY <1>1, FS_Singleton, NoNewLetters, QueueNames DEF Submit, Queue!Queues
<1>4. status[p] = "absent" /\ attempts[p] = 0 /\ ~ Core!Finished(p)
  BY <1>2, SameHelpers DEF Pool!InsertPayment, Pool!InductiveInvariant, Pool!RowOK, Pool!Processed,
    Pool!FinalStatuses, Pool!Finished, Pool!DeadLettered, Pool!DeadLetterIsFinal
<1>5. IssuedEvents' = IssuedEvents \cup {e}
  BY <1>1, <1>2, <1>3, <1>4 DEF IssuedEvents, Core!Issued, Core!Events, Core!Attempts, Core!Finished,
     Core!DeadLettered, Pool!InsertPayment, Pool!InductiveInvariant, Pool!TypeOK
<1> QED
  BY <1>1, <1>2, <1>3, <1>5 DEF Pool!CreatePayment, Pool!Emit
\* A failed gateway call schedules an event that was issued before.
LEMMA GatewayFailureIsEmitted ==
  ASSUME outbox \in Seq(Records), Pool!InductiveInvariant, OnlyIssued,
         NEW w \in Workers, FailGatewayCall(w)
  PROVE  Pool!RecordGatewayFailure(w)
<1> DEFINE retries == Core!GatewayRetry(w)
<1>1. Pool!GiveUpGatewayCall(w) /\ retries = Pool!GatewayRetry(w)
  BY SameParts, SameHelpers DEF FailGatewayCall
<1>2. retries \subseteq IssuedEvents /\ retries \in SUBSET Core!Events /\ IsFiniteSet(retries)
  <2>1. event[w] \in IssuedEvents
    BY <1>1 DEF OnlyIssued, Pool!GiveUpGatewayCall
  <2>2. event[w] \in Core!Events
    BY <2>1 DEF IssuedEvents, Core!Issued
  <2> QED
    BY <2>1, <2>2, FS_EmptySet, FS_Singleton DEF Core!GatewayRetry
<1> HIDE DEF retries
<1>3. DeadLetters' = DeadLetters
  BY <1>2, NoNewLetters, QueueNames DEF FailGatewayCall, Queue!Queues, Queue!DelayQueues, retries
<1>4. IssuedEvents' = IssuedEvents
  BY <1>1, <1>3, SameIssued DEF Pool!GiveUpGatewayCall, Pool!row
<1> QED
  BY <1>1, <1>2, <1>3, <1>4 DEF Pool!RecordGatewayFailure, Pool!Emit

\* What a failed send writes to the outbox.
FollowUpRecords(w) ==
  (UNION {Record({e}, RetryRoute(e)) : e \in Core!FollowUp(w, "retry")})
    \cup Record(Core!FollowUp(w, "dlq"), Queue!Dlq)

\* The event that carries the number of the attempt just counted.
NextEvent(w) == [payment |-> Core!Target(w), attempt |-> attempts[Core!Target(w)] + 1]

\* A failed send is followed up by one retry, one letter, or, when it is stale,
\* by nothing.
FollowedUp(w, retries, letters, records) ==
  \/ ~ Core!HoldsWebhookClaim(w) /\ retries = {} /\ letters = {} /\ records = {}
  \/ /\ Core!HoldsWebhookClaim(w)
     /\ \/ /\ retries = {NextEvent(w)} /\ letters = {}
           /\ records = {[event |-> NextEvent(w), route |-> Queue!Retry(NextEvent(w).attempt)]}
           /\ NextEvent(w).attempt \in 1..(MaxDeliveryAttempts - 1)
        \/ /\ retries = {} /\ letters = {NextEvent(w)}
           /\ records = {[event |-> NextEvent(w), route |-> Queue!Dlq]}

\* The holder's payment is unfinished and has attempts left.
LEMMA HolderCounts ==
  ASSUME Pool!InductiveInvariant, NEW w \in Workers, pc[w] = "record", Core!HoldsWebhookClaim(w)
  PROVE  /\ Core!Target(w) \in Payments /\ Core!AttemptNumber(w) = attempts[Core!Target(w)] + 1
         /\ ~ Core!Finished(Core!Target(w)) /\ Core!Processed(Core!Target(w))
         /\ attempts[Core!Target(w)] \in Nat /\ NextEvent(w) \in Core!Events
<1> DEFINE p == Core!Target(w)
<1>1. Pool!HoldsWebhookClaim(w) /\ p = Pool!Target(w)
  BY SameHelpers
<1>2. /\ ~ Pool!DeadLettered(p) /\ p \notin delivered /\ Pool!Processed(p)
      /\ attempts[p] = event[w].attempt /\ Pool!AttemptNumber(w) \in Pool!Attempts
  BY <1>1, Pool!HeldClaim, Assumptions
<1>3. p \in Payments /\ attempts[p] \in Pool!Attempts
  BY <1>1, Pool!BusyRun, Assumptions DEF Pool!InductiveInvariant, Pool!TypeOK
<1>4. /\ Core!AttemptNumber(w) = attempts[p] + 1 /\ ~ Core!Finished(p) /\ Core!Processed(p)
      /\ attempts[p] + 1 \in Core!Attempts
  BY <1>2, SameHelpers, SameState DEF Pool!Finished, Core!AttemptNumber
<1>5. attempts[p] \in Nat
  BY <1>3, ServiceAssumption DEF Pool!Attempts
<1> QED
  BY <1>3, <1>4, <1>5 DEF Core!Events, NextEvent

LEMMA FollowUpCases ==
  ASSUME Pool!InductiveInvariant, NEW w \in Workers, FailSend(w)
  PROVE  FollowedUp(w, Core!FollowUp(w, "retry"), Core!FollowUp(w, "dlq"), FollowUpRecords(w))
<1> DEFINE e == NextEvent(w)
           routing == Core!NextRouting(outcome[w] = "retryable", Core!AttemptNumber(w))
<1>1. CASE ~ Core!HoldsWebhookClaim(w)
  <2>1. Core!FollowUp(w, "retry") = {} /\ Core!FollowUp(w, "dlq") = {}
    BY <1>1 DEF Core!FollowUp
  <2>2. FollowUpRecords(w) = {}
    BY <2>1 DEF FollowUpRecords, Record
  <2> QED
    BY <1>1, <2>1, <2>2 DEF FollowedUp
<1>2. CASE Core!HoldsWebhookClaim(w)
  <2>1. pc[w] = "record"
    BY DEF FailSend, Core!CountFailedSend
  <2>2. /\ Core!AttemptNumber(w) = attempts[Core!Target(w)] + 1
        /\ attempts[Core!Target(w)] \in Nat
        /\ e = [payment |-> Core!Target(w), attempt |-> Core!AttemptNumber(w)]
        /\ e.attempt = Core!AttemptNumber(w)
    BY <1>2, <2>1, HolderCounts DEF NextEvent
  <2> HIDE DEF e
  <2>3. CASE routing = "retry"
    <3>1. Core!FollowUp(w, "retry") = {e} /\ Core!FollowUp(w, "dlq") = {}
      BY <1>2, <2>2, <2>3 DEF Core!FollowUp
    <3>2. FollowUpRecords(w) = {[event |-> e, route |-> Queue!Retry(e.attempt)]}
      BY <3>1 DEF FollowUpRecords, Record, RetryRoute
    <3>3. Core!AttemptNumber(w) < MaxDeliveryAttempts
      BY <2>3 DEF Core!NextRouting
    <3>4. e.attempt \in 1..(MaxDeliveryAttempts - 1)
      BY <2>2, <3>3, ServiceAssumption
    <3> QED
      BY <1>2, <3>1, <3>2, <3>4 DEF FollowedUp, e
  <2>4. CASE routing = "dlq"
    <3>1. Core!FollowUp(w, "retry") = {} /\ Core!FollowUp(w, "dlq") = {e}
      BY <1>2, <2>2, <2>4 DEF Core!FollowUp
    <3>2. FollowUpRecords(w) = {[event |-> e, route |-> Queue!Dlq]}
      BY <3>1 DEF FollowUpRecords, Record
    <3> QED
      BY <1>2, <3>1, <3>2 DEF FollowedUp, e
  <2> QED
    BY <2>3, <2>4 DEF Core!NextRouting
<1> QED
  BY <1>1, <1>2

\* A failed send commits finitely many well-formed rows.
LEMMA FollowUpCommits ==
  ASSUME Pool!InductiveInvariant, NEW w \in Workers, FailSend(w)
  PROVE  /\ Commit(FollowUpRecords(w))
         /\ FollowUpRecords(w) \in SUBSET Records /\ IsFiniteSet(FollowUpRecords(w))
<1>1. Commit(FollowUpRecords(w))
  BY DEF FailSend, FollowUpRecords
<1>2. /\ \A k \in 1..(MaxDeliveryAttempts - 1) : Queue!Retry(k) \in Queue!Queues
      /\ Queue!Dlq \in Queue!Queues
  BY DEF Queue!Queues, Queue!DelayQueues
<1>3. CASE FollowUpRecords(w) = {}
  BY <1>1, <1>3, FS_EmptySet
<1>4. ASSUME NEW q \in Queue!Queues, Core!HoldsWebhookClaim(w),
             FollowUpRecords(w) = {[event |-> NextEvent(w), route |-> q]}
      PROVE  FollowUpRecords(w) \in SUBSET Records /\ IsFiniteSet(FollowUpRecords(w))
  <2>1. NextEvent(w) \in Core!Events
    BY <1>4, HolderCounts DEF FailSend, Core!CountFailedSend
  <2>2. [event |-> NextEvent(w), route |-> q] \in Records
    BY <2>1 DEF Records
  <2> QED
    BY <1>4, <2>2, FS_Singleton
<1> QED
  BY <1>1, <1>2, <1>3, <1>4, FollowUpCases DEF FollowedUp

\* The attempt is counted and followed up in one transaction.
LEMMA FailedSendIsFollowedUp ==
  ASSUME outbox \in Seq(Records), Pool!InductiveInvariant, NEW w \in Workers, FailSend(w)
  PROVE  Pool!RecordWebhookFailure(w)
<1> DEFINE p == Core!Target(w)
           e == NextEvent(w)
           retries == Core!FollowUp(w, "retry")
           letters == Core!FollowUp(w, "dlq")
<1>1. /\ Pool!CountFailedSend(w) /\ (Pool!HoldsWebhookClaim(w) <=> Core!HoldsWebhookClaim(w))
      /\ Pool!AttemptNumber(w) = Core!AttemptNumber(w) /\ Pool!Target(w) = p
      /\ retries = Pool!FollowUp(w, "retry") /\ letters = Pool!FollowUp(w, "dlq")
  BY SameParts, SameHelpers DEF FailSend
<1>2. DeadLetters' = DeadLetters \cup letters
  <2>1. \A x : x \in DeadLetters' <=>
          x \in DeadLetters \/ \E y \in FollowUpRecords(w) : y.route = Queue!Dlq /\ y.event = x
    BY FollowUpCommits, CommitLetters
  <2>2. \A x : (\E y \in FollowUpRecords(w) : y.route = Queue!Dlq /\ y.event = x) <=> x \in letters
    <3>1. ASSUME NEW q, FollowUpRecords(w) = {[event |-> e, route |-> q]}
          PROVE  \A x : (\E y \in FollowUpRecords(w) : y.route = Queue!Dlq /\ y.event = x)
                         <=> q = Queue!Dlq /\ x = e
      BY <3>1
    <3> HIDE DEF e
    <3>2. CASE FollowUpRecords(w) = {[event |-> e, route |-> Queue!Retry(e.attempt)]} /\ letters = {}
      BY <3>1, <3>2, QueueNames
    <3>3. CASE FollowUpRecords(w) = {[event |-> e, route |-> Queue!Dlq]} /\ letters = {e}
      BY <3>1, <3>3
    <3>4. CASE FollowUpRecords(w) = {} /\ letters = {}
      BY <3>4
    <3> QED
      BY <3>2, <3>3, <3>4, FollowUpCases DEF FollowedUp, e
  <2> QED
    BY <2>1, <2>2
<1>3. IssuedEvents' = IssuedEvents \cup retries
  <2>1. CASE ~ Core!HoldsWebhookClaim(w)
    <3>1. retries = {} /\ letters = {}
      BY <2>1, FollowUpCases DEF FollowedUp
    <3> QED
      BY <1>1, <1>2, <2>1, <3>1, SameIssued DEF Pool!CountFailedSend
  <2>2. CASE Core!HoldsWebhookClaim(w)
    <3>1. /\ p \in Payments /\ ~ Core!Finished(p) /\ Core!Processed(p) /\ e \in Core!Events
          /\ Core!AttemptNumber(w) = attempts[p] + 1
      BY <2>2, HolderCounts DEF FailSend, Core!CountFailedSend
    <3>2. \/ retries = {e} /\ letters = {}
          \/ retries = {} /\ letters = {e}
      BY <2>2, FollowUpCases DEF FollowedUp
    <3>3. /\ attempts' = [attempts EXCEPT ![p] = attempts[p] + 1]
          /\ UNCHANGED <<status, delivered>>
      BY <1>1, <2>2, <3>1 DEF Pool!CountFailedSend
    <3>4. attempts \in [Payments -> Nat] /\ Core!Attempts \subseteq Nat
      BY SameState, ServiceAssumption DEF Pool!InductiveInvariant, Pool!TypeOK, Pool!Attempts
    <3>5. /\ status[p] # "absent" /\ e.payment = p /\ e.attempt = attempts[p] + 1
          /\ e = [payment |-> p, attempt |-> attempts[p] + 1]
      BY <3>1 DEF Core!Processed, Core!FinalStatuses, NextEvent
    <3> HIDE DEF e, p, retries, letters
    <3>6. \A q \in Payments : Core!Finished(q)' <=> (Core!Finished(q) \/ (q = p /\ letters # {}))
      BY <1>2, <3>1, <3>2, <3>3, <3>5 DEF Core!Finished, Core!DeadLettered
    <3>7. ASSUME NEW x \in Core!Events
          PROVE  x \in Core!Issued' <=> x \in Core!Issued \cup retries
      <4>1. x = [payment |-> x.payment, attempt |-> x.attempt] /\ x.payment \in Payments /\ x.attempt \in Nat
        BY <3>4 DEF Core!Events
      <4>2. x \in Core!Issued <=> /\ status[x.payment] # "absent" /\ x.attempt <= attempts[x.payment]
                                  /\ Core!Finished(x.payment) => x.attempt < attempts[x.payment]
        BY DEF Core!Issued
      <4>3. x \in Core!Issued' <=> /\ status'[x.payment] # "absent" /\ x.attempt <= attempts'[x.payment]
                                   /\ Core!Finished(x.payment)' => x.attempt < attempts'[x.payment]
        BY DEF Core!Issued, Core!Events, Core!Attempts
      <4>4. CASE x.payment # p
        BY <3>1, <3>2, <3>3, <3>4, <3>5, <3>6, <4>1, <4>2, <4>3, <4>4
      <4>5. CASE x.payment = p
        BY <3>1, <3>2, <3>3, <3>4, <3>5, <3>6, <4>1, <4>2, <4>3, <4>5
      <4> QED
        BY <4>4, <4>5
    <3>8. retries \subseteq Core!Events /\ Core!Issued \subseteq Core!Events /\ Core!Issued' \subseteq Core!Events
      BY <3>1, <3>2 DEF Core!Issued, Core!Events, Core!Attempts
    <3> QED
      BY <3>7, <3>8 DEF IssuedEvents
  <2> QED
    BY <2>1, <2>2
<1> QED
  BY <1>1, <1>2, <1>3 DEF Pool!RecordWebhookFailure, Pool!Emit, Pool!EmitToDlq

\* Recovery resumes payments whose current event was issued before.
LEMMA RecoveryIsEmitted ==
  ASSUME outbox \in Seq(Records), Pool!InductiveInvariant, OnlyIssued,
         NEW ps \in SUBSET Payments, Recover(ps)
  PROVE  Pool!RecoverStaleClaims(ps)
<1> DEFINE resumed == Core!ResumeEvents(ps)
<1>1. Pool!ReleaseStaleClaims(ps) /\ resumed = Pool!ResumeEvents(ps)
  BY SameRecovery, SameHelpers DEF Recover
<1>2. resumed \subseteq IssuedEvents
  <2>1. ps \subseteq Pool!Recoverable
    BY <1>1 DEF Pool!ReleaseStaleClaims
  <2>2. ASSUME NEW p \in Pool!Recoverable
        PROVE  p \in Payments /\ status[p] # "absent" /\ ~ Core!Finished(p)
    BY <2>2, SameHelpers DEF Pool!Recoverable, Pool!InductiveInvariant, Pool!RowOK, Pool!Processed,
       Pool!FinalStatuses, Pool!Finished, Pool!DeadLettered, Pool!DeadLetterIsFinal
  <2>3. \A p \in Payments : attempts[p] \in Core!Attempts /\ attempts[p] <= attempts[p]
    BY ServiceAssumption, SameState DEF Pool!InductiveInvariant, Pool!TypeOK, Pool!Attempts
  <2> QED
    BY <2>1, <2>2, <2>3 DEF Core!ResumeEvents, IssuedEvents, Core!Issued, Core!Events
<1>3. resumed \in SUBSET Core!Events /\ IsFiniteSet(resumed)
  <2>1. resumed \in SUBSET Core!Events
    BY <1>2 DEF IssuedEvents, Core!Issued
  <2>2. IsFiniteSet(ps)
    BY ServiceAssumption, FS_Subset
  <2>3. [p \in ps |-> [payment |-> p, attempt |-> attempts[p]]] \in Surjection(ps, resumed)
    BY DEF Core!ResumeEvents, Surjection
  <2> QED
    BY <2>1, <2>2, <2>3, FS_Surjection
<1> HIDE DEF resumed
<1>4. DeadLetters' = DeadLetters
  BY <1>3, NoNewLetters, QueueNames DEF Recover, Queue!Queues, resumed
<1>5. IssuedEvents' = IssuedEvents
  BY <1>1, <1>4, SameIssued DEF Pool!ReleaseStaleClaims, Pool!row
<1> QED
  BY <1>1, <1>2, <1>4, <1>5 DEF Pool!RecoverStaleClaims, Pool!Emit

\* Steps that write no row leave the dead letters alone.
LEMMA SameLetters ==
  ASSUME UNCHANGED outbox PROVE UNCHANGED DeadLetters
BY DEF DeadLetters, Committed

\* Whatever the broker delivers was issued, and stays so.
LEMMA DeliveryIsReceived ==
  ASSUME OnlyIssued, NEW w \in Workers, NEW r \in Rows, outbox[r].route # Queue!Dlq, Deliver(w, r)
  PROVE  Pool!Receive(w, outbox[r].event) /\ UNCHANGED IssuedEvents
<1>1. /\ Pool!Take(w, outbox[r].event) /\ UNCHANGED DeadLetters
      /\ outbox[r].event \in IssuedEvents
  BY SameParts, SameLetters DEF Deliver, OnlyIssued
<1>2. IssuedEvents' = IssuedEvents
  BY <1>1, SameIssued DEF Pool!Take, Pool!row
<1> QED
  BY <1>1, <1>2 DEF Pool!Receive

\* A failing handler's event was issued, whether or not it is redelivered.
LEMMA FailureIsNack ==
  ASSUME OnlyIssued, NEW w \in Workers, Fail(w) \/ FailUnnoticed(w)
  PROVE  Pool!Nack(w) /\ UNCHANGED IssuedEvents
<1>1. /\ Pool!Abandon(w) /\ UNCHANGED DeadLetters /\ event[w] \in IssuedEvents
  BY SameParts, SameLetters DEF Fail, FailUnnoticed, OnlyIssued, Core!Abandon
<1>2. IssuedEvents' = IssuedEvents
  BY <1>1, SameIssued DEF Pool!Abandon, Pool!row
<1> QED
  BY <1>1, <1>2 DEF Pool!Nack, Pool!Emit

LEMMA ExpiryIsExpiry ==
  ASSUME NEW p \in Payments, ExpireClaim(p)
  PROVE  /\ Pool!ExpireGatewayClaim(p) \/ Pool!ExpireWebhookClaim(p)
         /\ UNCHANGED IssuedEvents
<1>1. UNCHANGED DeadLetters
  BY SameLetters DEF ExpireClaim
<1>2. UNCHANGED IssuedEvents
  BY <1>1, SameIssued DEF ExpireClaim, Core!ExpireGatewayClaim, Core!ExpireWebhookClaim, Core!row
<1> QED
  BY <1>1, <1>2 DEF ExpireClaim, Core!ExpireGatewayClaim, Core!ExpireWebhookClaim,
    Pool!ExpireGatewayClaim, Pool!ExpireWebhookClaim, Core!row, Pool!row, Pool!mailbox, Core!local, Pool!local

\* The transport moves no handler and issues nothing.
LEMMA TransportStutters ==
  ASSUME UNCHANGED <<handlers, outbox>>
  PROVE  UNCHANGED Pool!vars
<1>1. UNCHANGED DeadLetters
  BY SameLetters
<1>2. UNCHANGED IssuedEvents
  BY <1>1, SameIssued DEF handlers
<1> QED
  BY <1>1, <1>2 DEF handlers, Pool!vars, Pool!row, Pool!claims, Pool!mailbox, Pool!local
\* Success ends a payment whose last attempt number had been issued.
LEMMA ProceedIssuesNothing ==
  ASSUME Pool!InductiveInvariant, NEW w \in Workers, Proceed(w)
  PROVE  UNCHANGED <<IssuedEvents, DeadLetters>>
<1>1. UNCHANGED DeadLetters
  BY SameLetters DEF Proceed
<1>2. ASSUME NEW result \in Core!FinalStatuses, Core!FinalizeGateway(w, result)
      PROVE  UNCHANGED IssuedEvents
  <2>1. \A p \in Payments : status'[p] = "absent" <=> status[p] = "absent"
    BY <1>2 DEF Core!FinalizeGateway, Core!HoldsGatewayClaim, Core!FinalStatuses,
       Pool!InductiveInvariant, Pool!TypeOK
  <2> QED
    BY <1>1, <1>2, <2>1, SameIssued DEF Core!FinalizeGateway
<1>3. CASE Core!RecordWebhookSuccess(w)
  <2>1. CASE ~ Core!HoldsWebhookClaim(w)
    BY <1>1, <1>3, <2>1, SameIssued DEF Core!RecordWebhookSuccess
  <2>2. CASE Core!HoldsWebhookClaim(w)
    <3> DEFINE p == Core!Target(w)
    <3>1. /\ p \in Payments /\ ~ Core!Finished(p)
          /\ Core!AttemptNumber(w) = attempts[p] + 1
      BY <1>3, <2>2, HolderCounts DEF Core!RecordWebhookSuccess
    <3>2. /\ attempts' = [attempts EXCEPT ![p] = attempts[p] + 1]
          /\ delivered' = delivered \cup {p} /\ status' = status
      BY <1>3, <2>2, <3>1 DEF Core!RecordWebhookSuccess
    <3>3. attempts \in [Payments -> Nat] /\ Core!Attempts \subseteq Nat
      BY SameState, ServiceAssumption DEF Pool!InductiveInvariant, Pool!TypeOK, Pool!Attempts
    <3> HIDE DEF p
    <3>4. \A q \in Payments : Core!Finished(q)' <=> (Core!Finished(q) \/ q = p)
      BY <1>1, <3>1, <3>2 DEF Core!Finished, Core!DeadLettered
    <3>5. ASSUME NEW x \in Core!Events
          PROVE  x \in Core!Issued' <=> x \in Core!Issued
      <4>1. x.payment \in Payments /\ x.attempt \in Nat
        BY <3>3 DEF Core!Events
      <4>2. x \in Core!Issued <=> /\ status[x.payment] # "absent" /\ x.attempt <= attempts[x.payment]
                                  /\ Core!Finished(x.payment) => x.attempt < attempts[x.payment]
        BY DEF Core!Issued
      <4>3. x \in Core!Issued' <=> /\ status'[x.payment] # "absent" /\ x.attempt <= attempts'[x.payment]
                                   /\ Core!Finished(x.payment)' => x.attempt < attempts'[x.payment]
        BY DEF Core!Issued, Core!Events, Core!Attempts
      <4>4. CASE x.payment # p
        BY <3>1, <3>2, <3>3, <3>4, <4>1, <4>2, <4>3, <4>4
      <4>5. CASE x.payment = p
        BY <3>1, <3>2, <3>3, <3>4, <4>1, <4>2, <4>3, <4>5
      <4> QED
        BY <4>4, <4>5
    <3>6. Core!Issued \subseteq Core!Events /\ Core!Issued' \subseteq Core!Events
      BY DEF Core!Issued, Core!Events, Core!Attempts
    <3> QED
      BY <1>1, <3>5, <3>6 DEF IssuedEvents
  <2> QED
    BY <2>1, <2>2
<1>4. CASE \/ Core!FetchPayment(w) \/ Core!ClaimGateway(w) \/ Core!RefetchPayment(w)
           \/ Core!ClaimWebhook(w) \/ Core!BuildNotification(w)
           \/ \E response \in Core!Responses : Core!SendWebhook(w, response)
  BY <1>1, <1>4, SameIssued DEF Core!FetchPayment, Core!ClaimGateway, Core!RefetchPayment,
     Core!ClaimWebhook, Core!BuildNotification, Core!SendWebhook, Core!row
<1> QED
  BY <1>1, <1>2, <1>3, <1>4 DEF Proceed

LEMMA ProceedIsStep ==
  ASSUME Pool!InductiveInvariant, NEW w \in Workers, Proceed(w)
  PROVE  Pool!Step(w)
<1> USE SameHelpers DEF Core!row, Pool!row, Core!claims, Pool!claims, Core!mailbox, Pool!mailbox,
        Core!local, Pool!local, Core!Goto, Pool!Goto, Core!Return, Pool!Return
<1>1. UNCHANGED <<IssuedEvents, DeadLetters>>
  BY ProceedIssuesNothing
<1>2. Core!FetchPayment(w) => Pool!FetchPayment(w)
  BY <1>1 DEF Core!FetchPayment, Pool!FetchPayment, Core!CheckDelivery, Pool!CheckDelivery
<1>3. Core!ClaimGateway(w) => Pool!ClaimGateway(w)
  BY <1>1 DEF Core!ClaimGateway, Pool!ClaimGateway, Core!GatewayClaimable, Pool!GatewayClaimable
<1>4. \A result \in Core!FinalStatuses : Core!FinalizeGateway(w, result) => Pool!FinalizeGateway(w, result)
  BY <1>1 DEF Core!FinalizeGateway, Pool!FinalizeGateway, Core!ReleaseGatewayClaim,
     Pool!ReleaseGatewayClaim
<1>5. Core!RefetchPayment(w) => Pool!RefetchPayment(w)
  BY <1>1 DEF Core!RefetchPayment, Pool!RefetchPayment, Core!CheckDelivery, Pool!CheckDelivery
<1>6. Core!ClaimWebhook(w) => Pool!ClaimWebhook(w)
  BY <1>1 DEF Core!ClaimWebhook, Pool!ClaimWebhook, Core!WebhookClaimable, Pool!WebhookClaimable
<1>7. Core!BuildNotification(w) => Pool!BuildNotification(w)
  BY <1>1 DEF Core!BuildNotification, Pool!BuildNotification
<1>8. \A response \in Core!Responses : Core!SendWebhook(w, response) => Pool!SendWebhook(w, response)
  BY <1>1 DEF Core!SendWebhook, Pool!SendWebhook, Core!Seen, Pool!Seen, Core!SendResult,
     Pool!SendResult, Core!ReachesReceiver, Pool!ReachesReceiver
<1>9. Core!RecordWebhookSuccess(w) => Pool!RecordWebhookSuccess(w)
  BY <1>1 DEF Core!RecordWebhookSuccess, Pool!RecordWebhookSuccess, Core!ReleaseWebhookClaim,
     Pool!ReleaseWebhookClaim
<1> QED
  BY <1>2, <1>3, <1>4, <1>5, <1>6, <1>7, <1>8, <1>9, SameState DEF Proceed, Pool!Step

-----------------------------------------------------------------------------
(* The relays of the service are those of OutboxRelay *)

LEMMA SameRelays ==
  /\ Relay!Init <=> Outbox!Init
  /\ Relay!PublishedWasSent <=> Outbox!PublishedWasSent
  /\ Relay!CopiesAccountedFor <=> Outbox!CopiesAccountedFor
  /\ \A r \in Rows : Relay!ExpireLease(r) <=> Outbox!ExpireLease(r)
  /\ \A v \in Relays :
       /\ Relay!Current(v) = Outbox!Current(v)
       /\ Relay!ClaimPendingEvents(v, {}) <=> Outbox!ClaimPendingEvents(v, {})
       /\ Relay!Publish(v) <=> Outbox!Publish(v)
       /\ \A taken \in {0, 1} : Relay!PublishFails(v, taken) <=> Outbox!PublishFails(v, taken)
       /\ Relay!MarkPublished(v) <=> Outbox!MarkPublished(v)
       /\ Relay!MarkFailed(v) <=> Outbox!MarkFailed(v)
       /\ Relay!Crash(v) <=> Outbox!Crash(v)
<1> USE DEF Relay!relayState, Outbox!relayState, Relay!Current, Outbox!Current
<1>1. Relay!Init <=> Outbox!Init
  BY DEF Relay!Init, Outbox!Init
<1>2. /\ Relay!PublishedWasSent <=> Outbox!PublishedWasSent
      /\ Relay!CopiesAccountedFor <=> Outbox!CopiesAccountedFor
  BY DEF Relay!PublishedWasSent, Outbox!PublishedWasSent, Relay!CopiesAccountedFor,
     Outbox!CopiesAccountedFor
<1>3. \A r \in Rows : Relay!ExpireLease(r) <=> Outbox!ExpireLease(r)
  BY DEF Relay!ExpireLease, Outbox!ExpireLease, Relay!Busy, Outbox!Busy, Relay!Mishap, Outbox!Mishap
<1>4. \A v \in Relays : Relay!ClaimPendingEvents(v, {}) <=> Outbox!ClaimPendingEvents(v, {})
  BY DEF Relay!ClaimPendingEvents, Outbox!ClaimPendingEvents, Relay!OldestFew, Outbox!OldestFew,
     Relay!Claimable, Outbox!Claimable, Relay!Cardinality, Outbox!Cardinality
<1>5. \A v \in Relays :
        /\ Relay!Publish(v) <=> Outbox!Publish(v)
        /\ \A taken \in {0, 1} : Relay!PublishFails(v, taken) <=> Outbox!PublishFails(v, taken)
        /\ Relay!Crash(v) <=> Outbox!Crash(v)
  BY DEF Relay!Publish, Outbox!Publish, Relay!PublishFails, Outbox!PublishFails,
     Relay!Crash, Outbox!Crash, Relay!Mishap, Outbox!Mishap
<1>6. \A v \in Relays :
        /\ Relay!MarkPublished(v) <=> Outbox!MarkPublished(v)
        /\ Relay!MarkFailed(v) <=> Outbox!MarkFailed(v)
  BY DEF Relay!MarkPublished, Outbox!MarkPublished, Relay!MarkFailed, Outbox!MarkFailed,
     Relay!HoldsLease, Outbox!HoldsLease, Relay!ReleaseLease, Outbox!ReleaseLease,
     Relay!Advance, Outbox!Advance
<1> QED
  BY <1>1, <1>2, <1>3, <1>4, <1>5, <1>6

LEMMA RelaysMove ==
  ASSUME \/ \E v \in Relays : RelayStep(v) \/ RelayFails(v)
         \/ \E r \in Rows : ExpireLease(r)
  PROVE  Outbox!Next
<1>1. ASSUME NEW v \in Relays, RelayStep(v) PROVE Outbox!Work(v)
  BY <1>1, SameRelays DEF RelayStep, Outbox!Work
<1>2. ASSUME NEW v \in Relays, RelayFails(v)
      PROVE  Outbox!Crash(v) \/ \E taken \in {0, 1} : Outbox!PublishFails(v, taken)
  BY <1>2, SameRelays DEF RelayFails
<1>3. ASSUME NEW r \in Rows, ExpireLease(r) PROVE Outbox!ExpireLease(r)
  BY <1>3, SameRelays DEF ExpireLease
<1> QED
  BY <1>1, <1>2, <1>3 DEF Outbox!Next

\* A relay does not notice how many rows a business transaction commits.
LEMMA CommitKeepsRelays ==
  ASSUME Outbox!OutboxInvariant, UNCHANGED relays,
         Committed \subseteq Committed', Committed' \subseteq Rows
  PROVE  Outbox!OutboxInvariant'
<1>1. Outbox!TypeOK'
  BY DEF Outbox!OutboxInvariant, Outbox!TypeOK, relays, Outbox!Labels
<1>2. \A v \in Relays : Outbox!Current(v)' = Outbox!Current(v)
  BY DEF Outbox!Current, relays
<1>3. (Outbox!PublishedWasSent /\ Outbox!PublishedIsReleased /\ Outbox!MarksWhatWasSent)'
  BY <1>2 DEF Outbox!OutboxInvariant, Outbox!PublishedWasSent, Outbox!PublishedIsReleased,
     Outbox!MarksWhatWasSent, relays
<1>4. ASSUME NEW r \in Rows PROVE Outbox!Accounted(r)'
  <2>1. Outbox!Stale(r)' = Outbox!Stale(r)
    BY <1>2 DEF Outbox!Stale, Outbox!Ahead, relays
  <2>2. Outbox!Confirmed(r)' <=> Outbox!Confirmed(r)
    BY <1>2 DEF Outbox!Confirmed, relays
  <2> QED
    BY <2>1, <2>2 DEF Outbox!Accounted, Outbox!OutboxInvariant, relays, Outbox!Cardinality
<1> QED
  BY <1>1, <1>3, <1>4 DEF Outbox!OutboxInvariant

\* The relays keep their invariant.
LEMMA RelaysKeepInvariant ==
  ASSUME Outbox!OutboxInvariant, [Outbox!Next]_(Outbox!vars)
  PROVE  Outbox!OutboxInvariant'
BY Outbox!NextInvariant, Assumptions

-----------------------------------------------------------------------------
(* The service invariant *)

RowsOK == outbox \in Seq(Records) /\ Len(outbox) <= MaxRows

QueuesOK ==
  /\ queued \in [Queue!Queues -> [Rows -> Nat]]
  /\ unacked \in [Workers -> Rows \cup {None}]

\* Nothing is published that was not committed, and a message is in the main
\* queue or in the queue its row names; nobody reads the dead letters.
MessagesAreRows ==
  /\ \A r \in Rows : copies[r] > 0 => r \in Committed
  /\ \A q \in Queue!Queues, r \in Rows :
       queued[q][r] > 0 =>
         /\ r \in Committed /\ q \in {Queue!Main, outbox[r].route}
         /\ q = Queue!Main => outbox[r].route # Queue!Dlq

\* The handler of an unacknowledged message is at work on its event.
UnackedIsHandled ==
  \A w \in Workers : unacked[w] # None =>
    /\ unacked[w] \in Committed /\ outbox[unacked[w]].route # Queue!Dlq
    /\ pc[w] # "idle" /\ event[w] = outbox[unacked[w]].event

\* The delay before attempt e.attempt is over.
HasWaited(e) == e.attempt = 0 \/ e \in waited

\* An event that is not on its way to its delay has had it, wherever it is; and
\* so has the attempt somebody claims.
DelaysAreServed ==
  /\ \A r \in Committed :
       \/ outbox[r].route \in {Queue!Dlq, Queue!Retry(outbox[r].event.attempt)}
       \/ HasWaited(outbox[r].event)
  /\ \A r \in Rows : queued[Queue!Main][r] > 0 => HasWaited(outbox[r].event)
  /\ \A w \in Workers : pc[w] # "idle" => HasWaited(event[w])
  /\ \A p \in Payments :
       webhookClaim[p] # None => HasWaited([payment |-> p, attempt |-> attempts[p]])

ServiceInvariant ==
  /\ Pool!InductiveInvariant
  /\ Outbox!OutboxInvariant
  /\ RowsOK
  /\ QueuesOK
  /\ OnlyIssued
  /\ MessagesAreRows
  /\ UnackedIsHandled
  /\ DelaysAreServed

-----------------------------------------------------------------------------
(* What keeps each part of it *)

\* No row is lost or rewritten, no event recalled, no delay forgotten.
Onward ==
  /\ Committed \subseteq Committed' /\ Committed' \subseteq Rows
  /\ \A r \in Committed : outbox'[r] = outbox[r]
  /\ IssuedEvents \subseteq IssuedEvents'
  /\ waited \subseteq waited'

\* A run that is not over is still about its event.
RunsGoOn == \A w \in Workers : pc'[w] # "idle" => pc[w] # "idle" /\ event'[w] = event[w]

LEMMA IssuedKept ==
  ASSUME OnlyIssued, Onward,
         \A r \in Committed' \ Committed :
           outbox'[r].route # Queue!Dlq => outbox'[r].event \in IssuedEvents',
         \A w \in Workers : pc'[w] # "idle" =>
           \/ pc[w] # "idle" /\ event'[w] = event[w]
           \/ event'[w] \in IssuedEvents
  PROVE  OnlyIssued'
BY DEF OnlyIssued, Onward, Queue!Dlq

LEMMA MessagesKept ==
  ASSUME MessagesAreRows, Onward,
         \A r \in Rows : copies'[r] > 0 => copies[r] > 0 \/ r \in Committed,
         \A q \in Queue!Queues, r \in Rows : queued'[q][r] > 0 =>
           \/ queued[q][r] > 0
           \/ /\ r \in Committed /\ q \in {Queue!Main, outbox[r].route}
              /\ q = Queue!Main => outbox[r].route # Queue!Dlq
  PROVE  MessagesAreRows'
BY DEF MessagesAreRows, Onward, Queue!Dlq, Queue!Main, Queue!Queues, Queue!DelayQueues, Queue!Retry,
   Queue!ProcessingRetry, Rows

LEMMA UnackedKept ==
  ASSUME UnackedIsHandled, Onward,
         \A w \in Workers : unacked'[w] # None =>
           \/ unacked'[w] = unacked[w] /\ pc'[w] = pc[w] /\ event'[w] = event[w]
           \/ unacked'[w] = unacked[w] /\ pc'[w] # "idle" /\ event'[w] = event[w]
           \/ /\ unacked'[w] \in Committed /\ outbox[unacked'[w]].route # Queue!Dlq
              /\ pc'[w] # "idle" /\ event'[w] = outbox[unacked'[w]].event
  PROVE  UnackedIsHandled'
BY DEF UnackedIsHandled, Onward, Queue!Dlq

LEMMA DelaysKept ==
  ASSUME DelaysAreServed, MessagesAreRows, Onward,
         \A r \in Committed' \ Committed :
           \/ outbox'[r].route \in {Queue!Dlq, Queue!Retry(outbox'[r].event.attempt)}
           \/ HasWaited(outbox'[r].event),
         \A r \in Rows : queued'[Queue!Main][r] > 0 =>
           \/ queued[Queue!Main][r] > 0
           \/ r \in Committed /\ (HasWaited(outbox[r].event) \/ outbox[r].event \in waited'),
         \A w \in Workers : pc'[w] # "idle" =>
           \/ pc[w] # "idle" /\ event'[w] = event[w]
           \/ HasWaited(event'[w]),
         \A p \in Payments : webhookClaim'[p] # None =>
           \/ webhookClaim[p] # None /\ attempts'[p] = attempts[p]
           \/ HasWaited([payment |-> p, attempt |-> attempts'[p]])
  PROVE  DelaysAreServed'
<1> DEFINE Waited(e) == e.attempt = 0 \/ e \in waited'
<1>1. \A e : HasWaited(e) => Waited(e)
  BY DEF HasWaited, Onward
<1>2. \A r \in Rows : queued[Queue!Main][r] > 0 => r \in Committed
  BY DEF MessagesAreRows, Queue!Queues
<1> HIDE DEF Waited
<1>3. \A r \in Committed' : \/ outbox'[r].route \in {Queue!Dlq, Queue!Retry(outbox'[r].event.attempt)}
                            \/ Waited(outbox'[r].event)
  BY <1>1 DEF DelaysAreServed, Onward
<1>4. ASSUME NEW r \in Rows, queued'[Queue!Main][r] > 0 PROVE Waited(outbox'[r].event)
  <2>1. r \in Committed /\ outbox'[r] = outbox[r]
    BY <1>2, <1>4 DEF Onward
  <2>2. HasWaited(outbox[r].event) \/ outbox[r].event \in waited'
    BY <1>2, <1>4, <2>1 DEF DelaysAreServed
  <2> QED
    BY <1>1, <2>1, <2>2 DEF Waited
<1>5. \A w \in Workers : pc'[w] # "idle" => Waited(event'[w])
  BY <1>1 DEF DelaysAreServed
<1>6. \A p \in Payments : webhookClaim'[p] # None =>
         Waited([payment |-> p, attempt |-> attempts'[p]])
  BY <1>1 DEF DelaysAreServed
<1> QED
  BY <1>3, <1>4, <1>5, <1>6 DEF DelaysAreServed, HasWaited, Waited, Queue!Dlq, Queue!Retry, Queue!Main, Rows

\* A handler that moves minds its own run, and the acknowledgement is its own.
LEMMA RunMoves ==
  ASSUME Pool!InductiveInvariant, NEW w \in Workers, Pool!Step(w) \/ Pool!Nack(w)
  PROVE  /\ RunsGoOn
         /\ \A v \in Workers \ {w} : pc'[v] = pc[v] /\ event'[v] = event[v]
<1> USE DEF Pool!InductiveInvariant, Pool!TypeOK, Pool!Goto, Pool!Return, Pool!local, RunsGoOn
<1>1. CASE Pool!FetchPayment(w) \/ Pool!RefetchPayment(w)
  BY <1>1 DEF Pool!FetchPayment, Pool!RefetchPayment, Pool!CheckDelivery
<1>2. CASE Pool!ClaimGateway(w) \/ \E result \in Pool!FinalStatuses : Pool!FinalizeGateway(w, result)
  BY <1>2 DEF Pool!ClaimGateway, Pool!FinalizeGateway
<1>3. CASE \/ Pool!ClaimWebhook(w) \/ Pool!BuildNotification(w)
           \/ \E response \in Pool!Responses : Pool!SendWebhook(w, response)
  BY <1>3 DEF Pool!ClaimWebhook, Pool!BuildNotification, Pool!SendWebhook
<1>4. CASE \/ Pool!RecordGatewayFailure(w) \/ Pool!RecordWebhookSuccess(w)
           \/ Pool!RecordWebhookFailure(w) \/ Pool!Nack(w)
  BY <1>4 DEF Pool!RecordGatewayFailure, Pool!GiveUpGatewayCall, Pool!RecordWebhookSuccess,
     Pool!RecordWebhookFailure, Pool!CountFailedSend, Pool!Nack, Pool!Abandon
<1> QED
  BY <1>1, <1>2, <1>3, <1>4 DEF Pool!Step

\* What is still unacknowledged is still being handled.
StillHandled ==
  \A v \in Workers : unacked'[v] # None =>
    unacked'[v] = unacked[v] /\ pc'[v] # "idle" /\ event'[v] = event[v]

LEMMA AcknowledgementMoves ==
  ASSUME QueuesOK, UnackedIsHandled, NEW w \in Workers, AcknowledgeWhenDone(w), RunsGoOn,
         \A v \in Workers \ {w} : pc'[v] = pc[v] /\ event'[v] = event[v]
  PROVE  QueuesOK' /\ UNCHANGED queued /\ StillHandled
<1>1. UNCHANGED queued /\ (unacked' = unacked \/ unacked' = [unacked EXCEPT ![w] = None])
  BY DEF AcknowledgeWhenDone, Queue!Acknowledge
<1>2. pc'[w] = "idle" => unacked' = [unacked EXCEPT ![w] = None]
  BY DEF AcknowledgeWhenDone, Queue!Acknowledge
<1>3. QueuesOK'
  BY <1>1 DEF QueuesOK, Queue!Queues, Queue!DelayQueues, Queue!Main, Queue!Dlq, Queue!Retry,
     Queue!ProcessingRetry, Rows
<1>4. ASSUME NEW v \in Workers, unacked'[v] # None
      PROVE  unacked'[v] = unacked[v] /\ pc'[v] # "idle" /\ event'[v] = event[v]
  <2>1. unacked'[v] = unacked[v] /\ (v = w => pc'[w] # "idle")
    BY <1>1, <1>2, <1>4 DEF QueuesOK
  <2> QED
    BY <1>4, <2>1 DEF UnackedIsHandled, RunsGoOn
<1> QED
  BY <1>1, <1>3, <1>4 DEF StillHandled

\* No claim appears, and the attempts of a claimed payment are not counted.
ClaimsStay == \A p \in Payments : webhookClaim'[p] # None =>
  webhookClaim[p] # None /\ attempts'[p] = attempts[p]

\* A business transaction keeps the invariant if its rows are sound.
LEMMA CommitKeepsInvariant ==
  ASSUME ServiceInvariant, Pool!InductiveInvariant',
         NEW records \in SUBSET Records, IsFiniteSet(records), Commit(records),
         UNCHANGED <<queued, waited>>, QueuesOK', IssuedEvents \subseteq IssuedEvents',
         RunsGoOn, StillHandled, ClaimsStay,
         \A x \in records : x.route # Queue!Dlq => x.event \in IssuedEvents',
         \A x \in records : \/ x.route \in {Queue!Dlq, Queue!Retry(x.event.attempt)}
                            \/ HasWaited(x.event)
  PROVE  ServiceInvariant'
<1>1. /\ outbox' \in Seq(Records) /\ Len(outbox') <= MaxRows
      /\ Committed \subseteq Committed' /\ Committed' \subseteq Rows
      /\ \A r \in Committed : outbox'[r] = outbox[r]
      /\ \A r \in Committed' \ Committed : outbox'[r] \in records
  BY CommitAppends DEF ServiceInvariant, RowsOK
<1>2. Onward /\ RowsOK' /\ UNCHANGED relays
  BY <1>1 DEF Onward, RowsOK, Commit, Records, Core!Events, Core!Attempts, Queue!Queues,
     Queue!DelayQueues, Queue!Main, Queue!Dlq, Queue!Retry, Queue!ProcessingRetry
<1>3. Outbox!OutboxInvariant'
  BY <1>1, <1>2, CommitKeepsRelays DEF ServiceInvariant
<1>4. OnlyIssued'
  BY <1>1, <1>2, IssuedKept DEF ServiceInvariant, RunsGoOn
<1>5. MessagesAreRows'
  BY <1>2, MessagesKept DEF ServiceInvariant, relays
<1>6. UnackedIsHandled'
  BY <1>2, UnackedKept DEF ServiceInvariant, StillHandled
<1>7. DelaysAreServed'
  BY <1>1, <1>2, DelaysKept DEF ServiceInvariant, RunsGoOn, ClaimsStay
<1> QED
  BY <1>2, <1>3, <1>4, <1>5, <1>6, <1>7 DEF ServiceInvariant

\* The same of a step that writes no row.
LEMMA QuietKeepsInvariant ==
  ASSUME ServiceInvariant, Pool!InductiveInvariant', UNCHANGED outbox, QueuesOK',
         Outbox!OutboxInvariant', IssuedEvents \subseteq IssuedEvents', waited \subseteq waited',
         \A r \in Rows : copies'[r] > 0 => copies[r] > 0 \/ r \in Committed,
         \A q \in Queue!Queues, r \in Rows : queued'[q][r] > 0 =>
           \/ queued[q][r] > 0
           \/ /\ r \in Committed /\ q \in {Queue!Main, outbox[r].route}
              /\ q = Queue!Main => /\ outbox[r].route # Queue!Dlq
                                   /\ HasWaited(outbox[r].event) \/ outbox[r].event \in waited',
         \A w \in Workers : pc'[w] # "idle" =>
           \/ pc[w] # "idle" /\ event'[w] = event[w]
           \/ event'[w] \in IssuedEvents /\ HasWaited(event'[w]),
         \A w \in Workers : unacked'[w] # None =>
           \/ unacked'[w] = unacked[w] /\ pc'[w] = pc[w] /\ event'[w] = event[w]
           \/ unacked'[w] = unacked[w] /\ pc'[w] # "idle" /\ event'[w] = event[w]
           \/ /\ unacked'[w] \in Committed /\ outbox[unacked'[w]].route # Queue!Dlq
              /\ pc'[w] # "idle" /\ event'[w] = outbox[unacked'[w]].event,
         \A p \in Payments : webhookClaim'[p] # None =>
           \/ webhookClaim[p] # None /\ attempts'[p] = attempts[p]
           \/ HasWaited([payment |-> p, attempt |-> attempts'[p]])
  PROVE  ServiceInvariant'
<1>1. Committed' = Committed /\ Committed \subseteq Rows /\ RowsOK'
  BY ServiceAssumption DEF Committed, ServiceInvariant, RowsOK, Rows, Records, Core!Events, Core!Attempts, Queue!Queues,
     Queue!DelayQueues, Queue!Main, Queue!Dlq, Queue!Retry, Queue!ProcessingRetry
<1>2. Onward
  BY <1>1 DEF Onward
<1>3. OnlyIssued'
  BY <1>1, <1>2, IssuedKept DEF ServiceInvariant
<1>4. MessagesAreRows'
  BY <1>2, MessagesKept DEF ServiceInvariant
<1>5. UnackedIsHandled'
  BY <1>2, UnackedKept DEF ServiceInvariant
<1>6. DelaysAreServed'
  <2>1. Queue!Main \in Queue!Queues
    BY DEF Queue!Queues
  <2> QED
    BY <1>1, <1>2, <2>1, DelaysKept DEF ServiceInvariant
<1> QED
  BY <1>1, <1>3, <1>4, <1>5, <1>6 DEF ServiceInvariant

-----------------------------------------------------------------------------
(* Transactions that write outbox rows *)

LEMMA PoolKeepsInvariant ==
  ASSUME Pool!InductiveInvariant, [Pool!Next]_(Pool!vars)
  PROVE  Pool!InductiveInvariant'
BY Pool!NextPreserves, Assumptions

\* Nobody moves while the API or recovery commits.
LEMMA NobodyMoves ==
  ASSUME QueuesOK, UnackedIsHandled, UNCHANGED <<pc, event, queued, unacked>>
  PROVE  RunsGoOn /\ StillHandled /\ QueuesOK'
BY DEF RunsGoOn, StillHandled, UnackedIsHandled, QueuesOK, Queue!Queues, Queue!DelayQueues,
   Queue!Main, Queue!Dlq, Queue!Retry, Queue!ProcessingRetry, Rows

LEMMA SubmitKeeps ==
  ASSUME ServiceInvariant, NEW p \in Payments, Submit(p)
  PROVE  ServiceInvariant'
<1> DEFINE e == Core!FirstEvent(p)
<1>1. Pool!CreatePayment(p)
  BY SubmitIsCreate DEF ServiceInvariant, RowsOK
<1>2. Pool!InductiveInvariant'
  BY <1>1, PoolKeepsInvariant DEF ServiceInvariant, Pool!Next
<1>3. e \in Core!Events /\ e = Pool!FirstEvent(p) /\ e.attempt = 0
  BY ServiceAssumption DEF Core!FirstEvent, Pool!FirstEvent, Core!Events, Core!Attempts
<1>4. IssuedEvents' = IssuedEvents \cup {e}
  BY <1>1, <1>3 DEF Pool!CreatePayment, Pool!Emit
<1> HIDE DEF e
<1>5. /\ Record({e}, Queue!Main) \in SUBSET Records /\ IsFiniteSet(Record({e}, Queue!Main))
      /\ \A x \in Record({e}, Queue!Main) : x.event = e
  BY <1>3, FS_Singleton, RecordsOf DEF Queue!Queues
<1>6. Commit(Record({e}, Queue!Main)) /\ UNCHANGED <<queued, unacked, waited>>
  BY DEF Submit, e
<1>7. UNCHANGED <<pc, event, webhookClaim, attempts>>
  BY <1>1 DEF Pool!CreatePayment, Pool!InsertPayment, Pool!claims, Pool!local
<1>8. RunsGoOn /\ StillHandled /\ QueuesOK' /\ ClaimsStay
  BY <1>6, <1>7, NobodyMoves DEF ServiceInvariant, ClaimsStay
<1> QED
  BY <1>2, <1>3, <1>4, <1>5, <1>6, <1>8, CommitKeepsInvariant DEF HasWaited

LEMMA FailGatewayCallKeeps ==
  ASSUME ServiceInvariant, NEW w \in Workers, FailGatewayCall(w)
  PROVE  ServiceInvariant'
<1> DEFINE retries == Core!GatewayRetry(w)
           records == Record(retries, Queue!ProcessingRetry)
<1>1. Pool!RecordGatewayFailure(w)
  BY GatewayFailureIsEmitted DEF ServiceInvariant, RowsOK
<1>2. Pool!Step(w) /\ Pool!InductiveInvariant'
  BY <1>1, PoolKeepsInvariant DEF ServiceInvariant, Pool!Next, Pool!Step
<1>3. IssuedEvents \subseteq IssuedEvents'
  BY <1>1 DEF Pool!RecordGatewayFailure, Pool!Emit
<1>4. event[w] \in IssuedEvents /\ HasWaited(event[w]) /\ event[w] \in Core!Events
  BY <1>1 DEF Pool!RecordGatewayFailure, Pool!GiveUpGatewayCall, ServiceInvariant, OnlyIssued,
     DelaysAreServed, IssuedEvents, Core!Issued
<1>5. retries \in SUBSET {event[w]} /\ IsFiniteSet(retries)
  BY FS_EmptySet, FS_Singleton DEF Core!GatewayRetry
<1> HIDE DEF retries
<1>6. /\ records \in SUBSET Records /\ IsFiniteSet(records)
      /\ \A x \in records : x.event = event[w]
  BY <1>4, <1>5, RecordsOf DEF Queue!Queues, Queue!DelayQueues
<1> HIDE DEF records
<1>7. Commit(records) /\ AcknowledgeWhenDone(w) /\ UNCHANGED waited
  BY DEF FailGatewayCall, retries, records
<1>8. RunsGoOn /\ StillHandled /\ QueuesOK' /\ UNCHANGED queued
  BY <1>2, <1>7, RunMoves, AcknowledgementMoves DEF ServiceInvariant
<1>9. ClaimsStay
  BY <1>1 DEF ClaimsStay, Pool!RecordGatewayFailure, Pool!GiveUpGatewayCall, Pool!row
<1> QED
  BY <1>2, <1>3, <1>4, <1>6, <1>7, <1>8, <1>9, CommitKeepsInvariant

LEMMA FailSendKeeps ==
  ASSUME ServiceInvariant, NEW w \in Workers, FailSend(w)
  PROVE  ServiceInvariant'
<1> DEFINE records == FollowUpRecords(w)
<1>1. Pool!RecordWebhookFailure(w)
  BY FailedSendIsFollowedUp DEF ServiceInvariant, RowsOK
<1>2. Pool!Step(w) /\ Pool!InductiveInvariant'
  BY <1>1, PoolKeepsInvariant DEF ServiceInvariant, Pool!Next, Pool!Step
<1>3. IssuedEvents' = IssuedEvents \cup Core!FollowUp(w, "retry")
  BY <1>1, SameHelpers DEF Pool!RecordWebhookFailure, Pool!Emit
<1>4. FollowedUp(w, Core!FollowUp(w, "retry"), Core!FollowUp(w, "dlq"), records)
  BY FollowUpCases DEF ServiceInvariant
<1>5. Commit(records) /\ records \in SUBSET Records /\ IsFiniteSet(records)
  BY FollowUpCommits DEF ServiceInvariant
<1> HIDE DEF records
<1>6. AcknowledgeWhenDone(w) /\ UNCHANGED waited
  BY DEF FailSend
<1>7. RunsGoOn /\ StillHandled /\ QueuesOK' /\ UNCHANGED queued
  BY <1>2, <1>6, RunMoves, AcknowledgementMoves DEF ServiceInvariant
<1>8. ClaimsStay
  <2>1. \/ UNCHANGED <<attempts, webhookClaim>>
        \/ \E p : /\ webhookClaim' = [webhookClaim EXCEPT ![p] = None]
                  /\ \E n : attempts' = [attempts EXCEPT ![p] = n]
    BY <1>1 DEF Pool!RecordWebhookFailure, Pool!CountFailedSend, Pool!ReleaseWebhookClaim
  <2> QED
    BY <2>1 DEF ClaimsStay, ServiceInvariant, Pool!InductiveInvariant, Pool!TypeOK
<1>9. /\ \A x \in records : x.route # Queue!Dlq => x.event \in IssuedEvents'
      /\ \A x \in records : x.route \in {Queue!Dlq, Queue!Retry(x.event.attempt)}
  BY <1>3, <1>4, QueueNames DEF FollowedUp
<1> QED
  BY <1>2, <1>3, <1>5, <1>6, <1>7, <1>8, <1>9, CommitKeepsInvariant

LEMMA RecoverKeeps ==
  ASSUME ServiceInvariant, NEW ps \in SUBSET Payments, Recover(ps)
  PROVE  ServiceInvariant'
<1> DEFINE resumed == Core!ResumeEvents(ps)
           records == Record(resumed, Queue!Main)
<1>1. Pool!RecoverStaleClaims(ps)
  BY RecoveryIsEmitted DEF ServiceInvariant, RowsOK
<1>2. Pool!InductiveInvariant'
  BY <1>1, PoolKeepsInvariant DEF ServiceInvariant, Pool!Next
<1>3. IssuedEvents' = IssuedEvents \cup resumed
  BY <1>1, SameHelpers DEF Pool!RecoverStaleClaims, Pool!Emit
<1>4. resumed = {[payment |-> p, attempt |-> attempts[p]] : p \in ps}
  BY DEF Core!ResumeEvents
<1>5. \A p \in ps : HasWaited([payment |-> p, attempt |-> attempts[p]])
  BY <1>1 DEF Pool!RecoverStaleClaims, Pool!ReleaseStaleClaims, Pool!Recoverable, ServiceInvariant,
     DelaysAreServed, HasWaited, Pool!InductiveInvariant, Pool!RowOK, Pool!Processed, Pool!FinalStatuses
<1>6. resumed \in SUBSET Core!Events /\ IsFiniteSet(resumed)
  <2>1. resumed \in SUBSET Core!Events
    BY <1>3 DEF IssuedEvents, Core!Issued, Core!Events, Core!Attempts
  <2>2. IsFiniteSet(ps)
    BY ServiceAssumption, FS_Subset
  <2>3. [p \in ps |-> [payment |-> p, attempt |-> attempts[p]]] \in Surjection(ps, resumed)
    BY <1>4 DEF Surjection
  <2> QED
    BY <2>1, <2>2, <2>3, FS_Surjection
<1> HIDE DEF resumed
<1>7. /\ records \in SUBSET Records /\ IsFiniteSet(records)
      /\ \A x \in records : x.event \in resumed
  BY <1>6, RecordsOf DEF Queue!Queues
<1>8. Commit(records) /\ UNCHANGED <<queued, unacked, waited>>
  BY DEF Recover, records, resumed
<1> HIDE DEF records
<1>9. RunsGoOn /\ StillHandled /\ QueuesOK'
  BY <1>1, <1>8, NobodyMoves DEF ServiceInvariant, Pool!RecoverStaleClaims,
     Pool!ReleaseStaleClaims, Pool!local
<1>10. ClaimsStay
  BY <1>1 DEF ClaimsStay, Pool!RecoverStaleClaims, Pool!ReleaseStaleClaims, Pool!row
<1>11. \A x \in records : HasWaited(x.event) /\ x.event \in IssuedEvents'
  BY <1>3, <1>4, <1>5, <1>7
<1> QED
  BY <1>2, <1>3, <1>7, <1>8, <1>9, <1>10, <1>11, CommitKeepsInvariant

-----------------------------------------------------------------------------
(* Handlers, connections and claims *)

\* A claim is made for the attempt that the handler's event has waited for.
LEMMA ClaimsHaveWaited ==
  ASSUME ServiceInvariant, NEW w \in Workers, Pool!Step(w), NEW p \in Payments,
         webhookClaim'[p] # None
  PROVE  \/ webhookClaim[p] # None /\ attempts'[p] = attempts[p]
         \/ HasWaited([payment |-> p, attempt |-> attempts'[p]])
<1> USE DEF Pool!row, Pool!claims
<1>0. webhookClaim \in [Payments -> Workers \cup {None}]
  BY DEF ServiceInvariant, Pool!InductiveInvariant, Pool!TypeOK, Pool!OptionOf
<1>1. CASE UNCHANGED <<attempts, webhookClaim>>
  BY <1>1
<1>2. CASE \/ \E n, q : /\ webhookClaim' = [webhookClaim EXCEPT ![q] = None]
                        /\ attempts' = [attempts EXCEPT ![q] = n]
  BY <1>0, <1>2 DEF ServiceInvariant, Pool!InductiveInvariant, Pool!TypeOK
<1>3. CASE Pool!ClaimWebhook(w)
  <2>1. CASE ~ Pool!WebhookClaimable(w)
    BY <1>1, <1>3, <2>1 DEF Pool!ClaimWebhook
  <2>2. CASE Pool!WebhookClaimable(w)
    <3> DEFINE q == Pool!Target(w)
    <3>1. /\ pc[w] = "claim_webhook" /\ attempts[q] = event[w].attempt /\ attempts' = attempts
          /\ webhookClaim' = [webhookClaim EXCEPT ![q] = w]
      BY <1>3, <2>2 DEF Pool!ClaimWebhook, Pool!WebhookClaimable
    <3>2. event[w] = [payment |-> q, attempt |-> event[w].attempt]
      BY <3>1, Pool!BusyRun, Assumptions DEF ServiceInvariant, Pool!InductiveInvariant
    <3>3. HasWaited(event[w])
      BY <3>1 DEF ServiceInvariant, DelaysAreServed
    <3> HIDE DEF q
    <3>4. CASE p = q
      BY <3>1, <3>2, <3>3, <3>4
    <3>5. CASE p # q
      BY <1>0, <3>1, <3>5
    <3> QED
      BY <3>4, <3>5
  <2> QED
    BY <2>1, <2>2
<1>4. CASE Pool!RecordWebhookSuccess(w) \/ Pool!RecordWebhookFailure(w)
  BY <1>1, <1>2, <1>4 DEF Pool!RecordWebhookSuccess, Pool!RecordWebhookFailure,
     Pool!CountFailedSend, Pool!ReleaseWebhookClaim
<1> QED
  BY <1>1, <1>3, <1>4 DEF Pool!Step, Pool!FetchPayment, Pool!ClaimGateway, Pool!FinalizeGateway,
     Pool!RecordGatewayFailure, Pool!GiveUpGatewayCall, Pool!RefetchPayment,
     Pool!BuildNotification, Pool!SendWebhook

LEMMA ProceedKeeps ==
  ASSUME ServiceInvariant, NEW w \in Workers, Proceed(w)
  PROVE  ServiceInvariant'
<1>1. Pool!Step(w) /\ UNCHANGED IssuedEvents
  BY ProceedIsStep, ProceedIssuesNothing DEF ServiceInvariant
<1>2. Pool!InductiveInvariant'
  BY <1>1, PoolKeepsInvariant DEF ServiceInvariant, Pool!Next
<1>3. UNCHANGED <<outbox, relays, queued, waited>> /\ AcknowledgeWhenDone(w)
  BY DEF Proceed
<1>4. RunsGoOn /\ StillHandled /\ QueuesOK'
  BY <1>1, <1>3, RunMoves, AcknowledgementMoves DEF ServiceInvariant
<1>5. Outbox!OutboxInvariant'
  BY <1>3, CommitKeepsRelays DEF ServiceInvariant, RowsOK, Committed, Rows, Outbox!OutboxInvariant,
     Outbox!TypeOK
<1>6. UNCHANGED copies
  BY <1>3 DEF relays
<1> QED
  BY <1>1, <1>2, <1>3, <1>4, <1>5, <1>6, ClaimsHaveWaited, QuietKeepsInvariant
     DEF RunsGoOn, StillHandled

\* While the outbox and the relays stand still the relays keep their invariant.
LEMMA RelaysStandStill ==
  ASSUME ServiceInvariant, UNCHANGED <<outbox, relays>>
  PROVE  Outbox!OutboxInvariant' /\ UNCHANGED copies
<1>1. Committed' = Committed /\ Committed \subseteq Rows
  BY ServiceAssumption DEF Committed, Rows, ServiceInvariant, RowsOK
<1> QED
  BY <1>1, CommitKeepsRelays DEF ServiceInvariant, relays

LEMMA DeliverKeeps ==
  ASSUME ServiceInvariant, NEW w \in Workers, NEW r \in Rows, Deliver(w, r)
  PROVE  ServiceInvariant'
<1>1. /\ unacked[w] = None /\ queued[Queue!Main][r] > 0 /\ r \in Committed
      /\ queued' = [queued EXCEPT ![Queue!Main][r] = queued[Queue!Main][r] - 1]
      /\ unacked' = [unacked EXCEPT ![w] = r]
      /\ UNCHANGED <<outbox, relays, waited>>
  BY DEF Deliver, Queue!Deliver
<1>2. Queue!Main \in Queue!Queues
  BY DEF Queue!Queues
<1>3. outbox[r].route # Queue!Dlq /\ HasWaited(outbox[r].event)
  BY <1>1, <1>2 DEF ServiceInvariant, MessagesAreRows, DelaysAreServed
<1>4. Pool!Receive(w, outbox[r].event) /\ UNCHANGED IssuedEvents
  BY <1>3, DeliveryIsReceived DEF ServiceInvariant
<1>5. outbox[r].event \in IssuedEvents
  BY <1>4 DEF Pool!Receive
<1>6. Pool!InductiveInvariant'
  BY <1>4, <1>5, PoolKeepsInvariant DEF ServiceInvariant, Pool!Next
<1>7. /\ pc' = [pc EXCEPT ![w] = "fetch"] /\ event' = [event EXCEPT ![w] = outbox[r].event]
      /\ UNCHANGED <<attempts, webhookClaim>>
  BY <1>4 DEF Pool!Receive, Pool!Take, Pool!Goto, Pool!row, Pool!claims
<1>8. /\ pc' \in [Workers -> Pool!Labels] /\ \A v \in Workers \ {w} : pc'[v] = pc[v] /\ event'[v] = event[v]
      /\ event'[w] = outbox[r].event /\ pc'[w] = "fetch"
  BY <1>6, <1>7 DEF ServiceInvariant, Pool!InductiveInvariant, Pool!TypeOK
<1>9. QueuesOK'
  <2>1. queued[Queue!Main][r] - 1 \in Nat
    BY <1>1, <1>2 DEF ServiceInvariant, QueuesOK
  <2>2. queued' \in [Queue!Queues -> [Rows -> Nat]]
    BY <1>1, <1>2, <2>1 DEF ServiceInvariant, QueuesOK
  <2>3. unacked' \in [Workers -> Rows \cup {None}]
    BY <1>1 DEF ServiceInvariant, QueuesOK
  <2> QED
    BY <2>2, <2>3 DEF QueuesOK, Queue!Queues, Queue!DelayQueues, Queue!Main, Queue!Dlq, Queue!Retry,
       Queue!ProcessingRetry, Rows
<1>10. \A q \in Queue!Queues, m \in Rows : queued'[q][m] > 0 => queued[q][m] > 0
  <2> SUFFICES ASSUME NEW q \in Queue!Queues, NEW m \in Rows, queued'[q][m] > 0
               PROVE  queued[q][m] > 0
    OBVIOUS
  <2>1. CASE q = Queue!Main /\ m = r
    BY <1>1, <2>1
  <2>2. CASE ~ (q = Queue!Main /\ m = r)
    BY <1>1, <2>2 DEF ServiceInvariant, QueuesOK
  <2> QED
    BY <2>1, <2>2
<1>11. \A v \in Workers : \/ v # w /\ unacked'[v] = unacked[v]
                          \/ v = w /\ unacked'[v] = r
  BY <1>1 DEF ServiceInvariant, QueuesOK
<1>12. Outbox!OutboxInvariant' /\ UNCHANGED copies
  BY <1>1, RelaysStandStill
<1>13. \A v \in Workers : pc'[v] # "idle" =>
           \/ pc[v] # "idle" /\ event'[v] = event[v]
           \/ event'[v] \in IssuedEvents /\ HasWaited(event'[v])
  BY <1>3, <1>5, <1>8
<1>14. \A v \in Workers : unacked'[v] # None =>
           \/ unacked'[v] = unacked[v] /\ pc'[v] = pc[v] /\ event'[v] = event[v]
           \/ /\ unacked'[v] \in Committed /\ outbox[unacked'[v]].route # Queue!Dlq
              /\ pc'[v] # "idle" /\ event'[v] = outbox[unacked'[v]].event
  BY <1>1, <1>3, <1>8, <1>11
<1>15. waited \subseteq waited' /\ IssuedEvents \subseteq IssuedEvents'
  BY <1>1, <1>4
<1> QED
  BY <1>1, <1>6, <1>7, <1>9, <1>10, <1>12, <1>13, <1>14, <1>15, QuietKeepsInvariant
\* A message put into a queue is there, and everything else as before.
LEMMA PutAdds ==
  ASSUME QueuesOK, NEW q \in Queue!Queues, NEW r \in Rows, Queue!Put(q, r),
         unacked' \in [Workers -> Rows \cup {None}]
  PROVE  /\ QueuesOK'
         /\ \A x \in Queue!Queues, m \in Rows :
              queued'[x][m] > 0 => queued[x][m] > 0 \/ (x = q /\ m = r)
<1>1. queued' = [queued EXCEPT ![q][r] = queued[q][r] + 1] /\ queued[q][r] + 1 \in Nat
  BY DEF Queue!Put, QueuesOK
<1>2. queued' \in [Queue!Queues -> [Rows -> Nat]]
  BY <1>1 DEF QueuesOK
<1>3. ASSUME NEW x \in Queue!Queues, NEW m \in Rows, ~ (x = q /\ m = r)
      PROVE  queued'[x][m] = queued[x][m]
  BY <1>1, <1>3 DEF QueuesOK
<1> QED
  BY <1>2, <1>3 DEF QueuesOK, Queue!Queues, Queue!DelayQueues, Queue!Main, Queue!Dlq, Queue!Retry,
     Queue!ProcessingRetry, Rows

\* A message that goes back to the main queue came from there.
LEMMA RequeueMoves ==
  ASSUME ServiceInvariant, NEW w \in Workers, Queue!Requeue(w), UNCHANGED outbox
  PROVE  /\ QueuesOK'
         /\ \A q \in Queue!Queues, r \in Rows : queued'[q][r] > 0 =>
              \/ queued[q][r] > 0
              \/ /\ r \in Committed /\ q = Queue!Main
                 /\ outbox[r].route # Queue!Dlq /\ HasWaited(outbox[r].event)
         /\ \A v \in Workers : unacked'[v] # None => v # w /\ unacked'[v] = unacked[v]
<1> DEFINE m == unacked[w]
<1>1. /\ m # None /\ Queue!Put(Queue!Main, m)
      /\ unacked' = [unacked EXCEPT ![w] = None]
  BY DEF Queue!Requeue
<1>2. m \in Rows /\ Queue!Main \in Queue!Queues
  BY <1>1 DEF ServiceInvariant, QueuesOK, Queue!Queues
<1>3. /\ m \in Committed /\ outbox[m].route # Queue!Dlq /\ HasWaited(outbox[m].event)
  BY <1>1 DEF ServiceInvariant, UnackedIsHandled, DelaysAreServed
<1>4. /\ unacked' \in [Workers -> Rows \cup {None}]
      /\ \A v \in Workers : unacked'[v] # None => v # w /\ unacked'[v] = unacked[v]
  BY <1>1 DEF ServiceInvariant, QueuesOK
<1> HIDE DEF m
<1>5. QueuesOK' /\ \A q \in Queue!Queues, r \in Rows :
        queued'[q][r] > 0 => queued[q][r] > 0 \/ (q = Queue!Main /\ r = m)
  BY <1>1, <1>2, <1>4, PutAdds DEF ServiceInvariant
<1> QED
  BY <1>3, <1>4, <1>5

LEMMA FailKeeps ==
  ASSUME ServiceInvariant, NEW w \in Workers, Fail(w)
  PROVE  ServiceInvariant'
<1>1. Pool!Nack(w) /\ UNCHANGED IssuedEvents
  BY FailureIsNack DEF ServiceInvariant
<1>2. Pool!InductiveInvariant'
  BY <1>1, PoolKeepsInvariant DEF ServiceInvariant, Pool!Next
<1>3. Queue!Requeue(w) /\ UNCHANGED <<outbox, relays, waited>>
  BY DEF Fail
<1>4. RunsGoOn /\ \A v \in Workers \ {w} : pc'[v] = pc[v] /\ event'[v] = event[v]
  BY <1>1, RunMoves DEF ServiceInvariant
<1>5. UNCHANGED <<attempts, webhookClaim>>
  BY <1>1 DEF Pool!Nack, Pool!Abandon, Pool!row, Pool!claims
<1>6. Outbox!OutboxInvariant' /\ UNCHANGED copies
  BY <1>3, RelaysStandStill
<1>7. /\ QueuesOK'
      /\ \A q \in Queue!Queues, r \in Rows : queued'[q][r] > 0 =>
           \/ queued[q][r] > 0
           \/ /\ r \in Committed /\ q = Queue!Main
              /\ outbox[r].route # Queue!Dlq /\ HasWaited(outbox[r].event)
      /\ \A v \in Workers : unacked'[v] # None => v # w /\ unacked'[v] = unacked[v]
  BY <1>3, RequeueMoves
<1> QED
  BY <1>1, <1>2, <1>3, <1>4, <1>5, <1>6, <1>7, QuietKeepsInvariant DEF RunsGoOn

LEMMA FailUnnoticedKeeps ==
  ASSUME ServiceInvariant, NEW w \in Workers, FailUnnoticed(w)
  PROVE  ServiceInvariant'
<1>1. Pool!Nack(w) /\ UNCHANGED IssuedEvents
  BY FailureIsNack DEF ServiceInvariant
<1>2. Pool!InductiveInvariant'
  BY <1>1, PoolKeepsInvariant DEF ServiceInvariant, Pool!Next
<1>3. unacked[w] = None /\ UNCHANGED <<outbox, relays, queued, unacked, waited>>
  BY DEF FailUnnoticed
<1>4. RunsGoOn /\ \A v \in Workers \ {w} : pc'[v] = pc[v] /\ event'[v] = event[v]
  BY <1>1, RunMoves DEF ServiceInvariant
<1>5. UNCHANGED <<attempts, webhookClaim>>
  BY <1>1 DEF Pool!Nack, Pool!Abandon, Pool!row, Pool!claims
<1>6. Outbox!OutboxInvariant' /\ UNCHANGED copies
  BY <1>3, RelaysStandStill
<1>7. QueuesOK'
  BY <1>3 DEF ServiceInvariant, QueuesOK, Queue!Queues, Queue!DelayQueues, Queue!Main, Queue!Dlq,
     Queue!Retry, Queue!ProcessingRetry, Rows
<1> QED
  BY <1>1, <1>2, <1>3, <1>4, <1>5, <1>6, <1>7, QuietKeepsInvariant DEF RunsGoOn

LEMMA ExpireClaimKeeps ==
  ASSUME ServiceInvariant, NEW p \in Payments, ExpireClaim(p)
  PROVE  ServiceInvariant'
<1>1. /\ Pool!ExpireGatewayClaim(p) \/ Pool!ExpireWebhookClaim(p)
      /\ UNCHANGED IssuedEvents
  BY ExpiryIsExpiry
<1>2. Pool!InductiveInvariant'
  BY <1>1, PoolKeepsInvariant DEF ServiceInvariant, Pool!Next
<1>3. UNCHANGED <<outbox, relays, queued, unacked, waited>>
  BY DEF ExpireClaim
<1>4. UNCHANGED <<attempts, webhookClaim, pc, event>>
  BY <1>1 DEF Pool!ExpireGatewayClaim, Pool!ExpireWebhookClaim, Pool!row, Pool!local
<1>5. Outbox!OutboxInvariant' /\ UNCHANGED copies
  BY <1>3, RelaysStandStill
<1>6. QueuesOK'
  BY <1>3, <1>4, NobodyMoves DEF ServiceInvariant
<1> QED
  BY <1>1, <1>2, <1>3, <1>4, <1>5, <1>6, QuietKeepsInvariant

\* A step of the transport: handlers, rows and issued events stay as they are.
LEMMA TransportKeepsInvariant ==
  ASSUME ServiceInvariant, UNCHANGED <<handlers, outbox>>, QueuesOK',
         Outbox!OutboxInvariant', waited \subseteq waited',
         \A r \in Rows : copies'[r] > 0 => copies[r] > 0 \/ r \in Committed,
         \A q \in Queue!Queues, r \in Rows : queued'[q][r] > 0 =>
           \/ queued[q][r] > 0
           \/ /\ r \in Committed /\ q \in {Queue!Main, outbox[r].route}
              /\ q = Queue!Main => /\ outbox[r].route # Queue!Dlq
                                   /\ HasWaited(outbox[r].event) \/ outbox[r].event \in waited',
         \A w \in Workers : unacked'[w] # None => unacked'[w] = unacked[w]
  PROVE  ServiceInvariant'
<1>1. UNCHANGED Pool!vars
  BY TransportStutters
<1>2. Pool!InductiveInvariant'
  BY <1>1, PoolKeepsInvariant DEF ServiceInvariant
<1>3. UNCHANGED <<IssuedEvents, pc, event, attempts, webhookClaim>>
  BY <1>1 DEF Pool!vars, Pool!mailbox, Pool!local, Pool!claims, Pool!row
<1> QED
  BY <1>2, <1>3, QuietKeepsInvariant

LEMMA LoseConnectionKeeps ==
  ASSUME ServiceInvariant, NEW w \in Workers, LoseConnection(w)
  PROVE  ServiceInvariant'
<1>1. Queue!Requeue(w) /\ UNCHANGED <<handlers, outbox, relays, waited>>
  BY DEF LoseConnection
<1>2. Outbox!OutboxInvariant' /\ UNCHANGED copies
  BY <1>1, RelaysStandStill
<1>3. /\ QueuesOK'
      /\ \A q \in Queue!Queues, r \in Rows : queued'[q][r] > 0 =>
           \/ queued[q][r] > 0
           \/ /\ r \in Committed /\ q = Queue!Main
              /\ outbox[r].route # Queue!Dlq /\ HasWaited(outbox[r].event)
      /\ \A v \in Workers : unacked'[v] # None => v # w /\ unacked'[v] = unacked[v]
  BY <1>1, RequeueMoves
<1> QED
  BY <1>1, <1>2, <1>3, TransportKeepsInvariant

-----------------------------------------------------------------------------
(* Relays and delays *)

\* What a relay publishes is a committed row; whatever has a delay to serve is
\* not published to the main queue.
LEMMA PublishMoves ==
  ASSUME ServiceInvariant, UNCHANGED outbox, NEW v \in Relays, relayPc[v] = "publish",
         Queue!Publish(outbox[Outbox!Current(v)].route, Outbox!Current(v))
  PROVE  /\ QueuesOK' /\ UNCHANGED unacked
         /\ Outbox!Current(v) \in Committed
         /\ \A q \in Queue!Queues, r \in Rows : queued'[q][r] > 0 =>
              \/ queued[q][r] > 0
              \/ /\ r \in Committed /\ q \in {Queue!Main, outbox[r].route}
                 /\ q = Queue!Main => outbox[r].route # Queue!Dlq /\ HasWaited(outbox[r].event)
<1> DEFINE m == Outbox!Current(v)
<1>1. Outbox!TypeOK
  BY DEF ServiceInvariant, Outbox!OutboxInvariant
<1>2. m \in batch[v] /\ batch[v] \subseteq Committed
  <2>1. m \in batch[v]
    BY <1>1, Outbox!CurrentIsOldest, Assumptions
  <2> QED
    BY <1>1, <2>1 DEF Outbox!TypeOK
<1> HIDE DEF m
<1>3. m \in Committed /\ m \in Rows
  BY <1>1, <1>2 DEF Outbox!TypeOK
<1>4. outbox[m].route \in Queue!Queues
  <2>1. outbox \in Seq(Records) /\ m \in 1..Len(outbox)
    BY <1>3 DEF ServiceInvariant, RowsOK, Committed
  <2>2. outbox[m] \in Records
    BY <2>1
  <2> QED
    BY <2>2 DEF Records
<1>5. Queue!Put(outbox[m].route, m) /\ unacked' = unacked
  BY DEF Queue!Publish, m
<1>6. unacked' \in [Workers -> Rows \cup {None}]
  BY <1>5 DEF ServiceInvariant, QueuesOK
<1>7. QueuesOK' /\ \A q \in Queue!Queues, r \in Rows :
        queued'[q][r] > 0 => queued[q][r] > 0 \/ (q = outbox[m].route /\ r = m)
  BY <1>3, <1>4, <1>5, <1>6, PutAdds DEF ServiceInvariant
<1>8. outbox[m].route = Queue!Main => HasWaited(outbox[m].event)
  BY <1>3, QueueNames DEF ServiceInvariant, DelaysAreServed
<1> QED
  BY <1>3, <1>5, <1>7, <1>8, QueueNames DEF m

LEMMA RelayKeeps ==
  ASSUME ServiceInvariant, NEW v \in Relays, RelayStep(v) \/ RelayFails(v)
  PROVE  ServiceInvariant'
<1>1. UNCHANGED <<handlers, outbox, waited>>
  BY DEF RelayStep, RelayFails
<1>2. Outbox!OutboxInvariant'
  BY RelaysMove, RelaysKeepInvariant DEF ServiceInvariant
<1>3. CASE UNCHANGED <<queued, unacked, copies>>
  <2>1. QueuesOK'
    BY <1>3 DEF ServiceInvariant, QueuesOK, Queue!Queues, Queue!DelayQueues, Queue!Main, Queue!Dlq,
       Queue!Retry, Queue!ProcessingRetry, Rows
  <2> QED
    BY <1>1, <1>2, <1>3, <2>1, TransportKeepsInvariant
<1>4. CASE /\ relayPc[v] = "publish"
           /\ \E n : copies' = [copies EXCEPT ![Outbox!Current(v)] = n]
           /\ Queue!Publish(outbox[Outbox!Current(v)].route, Outbox!Current(v))
  <2>1. /\ QueuesOK' /\ UNCHANGED unacked
        /\ Outbox!Current(v) \in Committed
        /\ \A q \in Queue!Queues, r \in Rows : queued'[q][r] > 0 =>
              \/ queued[q][r] > 0
              \/ /\ r \in Committed /\ q \in {Queue!Main, outbox[r].route}
                 /\ q = Queue!Main => outbox[r].route # Queue!Dlq /\ HasWaited(outbox[r].event)
    BY <1>1, <1>4, PublishMoves
  <2>2. \A r \in Rows : copies'[r] > 0 => copies[r] > 0 \/ r \in Committed
    BY <1>4, <2>1 DEF ServiceInvariant, Outbox!OutboxInvariant, Outbox!TypeOK
  <2> QED
    BY <1>1, <1>2, <2>1, <2>2, TransportKeepsInvariant
<1>5. CASE /\ UNCHANGED <<queued, unacked>>
           /\ relayPc[v] = "publish" /\ Outbox!PublishFails(v, 0)
  <2>1. copies' = [copies EXCEPT ![Outbox!Current(v)] = copies[Outbox!Current(v)] + 0]
    BY <1>5 DEF Outbox!PublishFails
  <2>2. copies \in [Rows -> Nat]
    BY DEF ServiceInvariant, Outbox!OutboxInvariant, Outbox!TypeOK
  <2>3. copies' = copies
    BY <2>1, <2>2
  <2> QED
    BY <1>3, <1>5, <2>3
<1>6. CASE RelayStep(v)
  <2>1. CASE \/ Outbox!ClaimPendingEvents(v, {}) \/ Outbox!MarkPublished(v) \/ Outbox!MarkFailed(v)
    BY <1>3, <1>6, <2>1, SameRelays DEF RelayStep, Outbox!ClaimPendingEvents, Outbox!MarkPublished,
       Outbox!MarkFailed, Relay!Publish, Outbox!Publish
  <2>2. CASE /\ Outbox!Publish(v)
             /\ Queue!Publish(outbox[Outbox!Current(v)].route, Outbox!Current(v))
    BY <1>4, <2>2 DEF Outbox!Publish
  <2> QED
    BY <1>6, <2>1, <2>2, SameRelays DEF RelayStep
<1>7. CASE RelayFails(v)
  <2>1. CASE Outbox!Crash(v) /\ UNCHANGED <<queued, unacked>>
    BY <1>3, <2>1 DEF Outbox!Crash
  <2>2. CASE Outbox!PublishFails(v, 0) /\ UNCHANGED <<queued, unacked>>
    BY <1>5, <2>2 DEF Outbox!PublishFails
  <2>3. CASE /\ Outbox!PublishFails(v, 1)
             /\ Queue!Publish(outbox[Outbox!Current(v)].route, Outbox!Current(v))
    BY <1>4, <2>3 DEF Outbox!PublishFails
  <2> QED
    BY <1>7, <2>1, <2>2, <2>3, SameRelays DEF RelayFails
<1> QED
  BY <1>6, <1>7

LEMMA ExpireLeaseKeeps ==
  ASSUME ServiceInvariant, NEW r \in Rows, ExpireLease(r)
  PROVE  ServiceInvariant'
<1>1. UNCHANGED <<handlers, outbox, queued, unacked, waited, copies>>
  BY DEF ExpireLease, Relay!ExpireLease
<1>2. Outbox!OutboxInvariant'
  BY RelaysMove, RelaysKeepInvariant DEF ServiceInvariant
<1>3. QueuesOK'
  BY <1>1 DEF ServiceInvariant, QueuesOK, Queue!Queues, Queue!DelayQueues, Queue!Main, Queue!Dlq,
     Queue!Retry, Queue!ProcessingRetry, Rows
<1> QED
  BY <1>1, <1>2, <1>3, TransportKeepsInvariant

\* A message that leaves its delay queue for the main queue has had its delay.
LEMMA TtlExpiresKeeps ==
  ASSUME ServiceInvariant, NEW q \in Queue!Queues, NEW r \in Rows, TtlExpires(q, r)
  PROVE  ServiceInvariant'
<1>1. /\ q \in Queue!DelayQueues /\ queued[q][r] > 0
      /\ queued' = [queued EXCEPT ![q][r] = @ - 1, ![Queue!Main][r] = @ + 1]
      /\ waited' = waited \cup {e \in {outbox[r].event} : q = Queue!Retry(e.attempt)}
      /\ UNCHANGED <<handlers, outbox, relays, unacked>>
  BY DEF TtlExpires, Queue!TtlExpires
<1>2. q # Queue!Main /\ q # Queue!Dlq /\ Queue!Main \in Queue!Queues
  BY <1>1, QueueNames DEF Queue!DelayQueues, Queue!Queues
<1>3. r \in Committed /\ q = outbox[r].route
  BY <1>1, <1>2 DEF ServiceInvariant, MessagesAreRows
<1>4. HasWaited(outbox[r].event) \/ outbox[r].event \in waited'
  <2>1. \/ q = Queue!Retry(outbox[r].event.attempt)
        \/ HasWaited(outbox[r].event)
    BY <1>2, <1>3 DEF ServiceInvariant, DelaysAreServed
  <2> QED
    BY <1>1, <2>1
<1>5. /\ queued' \in [Queue!Queues -> [Rows -> Nat]]
      /\ \A x \in Queue!Queues, m \in Rows :
           queued'[x][m] > 0 => queued[x][m] > 0 \/ (x = Queue!Main /\ m = r)
  <2>1. queued \in [Queue!Queues -> [Rows -> Nat]]
    BY DEF ServiceInvariant, QueuesOK
  <2>2. queued[q][r] - 1 \in Nat /\ queued[Queue!Main][r] + 1 \in Nat
    BY <1>1, <1>2, <2>1
  <2>3. queued' = [queued EXCEPT ![q] = [queued[q] EXCEPT ![r] = queued[q][r] - 1],
                                 ![Queue!Main] = [queued[Queue!Main] EXCEPT ![r] = queued[Queue!Main][r] + 1]]
    BY <1>1, <1>2, <2>1
  <2>4. queued' \in [Queue!Queues -> [Rows -> Nat]]
    BY <1>2, <2>1, <2>2, <2>3
  <2>5. ASSUME NEW x \in Queue!Queues, NEW m \in Rows, queued'[x][m] > 0
        PROVE  queued[x][m] > 0 \/ (x = Queue!Main /\ m = r)
    <3>1. CASE x = q /\ m = r
      BY <1>1, <3>1
    <3>2. CASE m # r
      BY <1>2, <2>1, <2>3, <2>5, <3>2
    <3>3. CASE x # q /\ x # Queue!Main
      BY <1>2, <2>1, <2>3, <2>5, <3>3
    <3> QED
      BY <3>1, <3>2, <3>3
  <2> QED
    BY <2>4, <2>5
<1>6. QueuesOK'
  BY <1>1, <1>5 DEF ServiceInvariant, QueuesOK, Queue!Queues, Queue!DelayQueues, Queue!Main,
     Queue!Dlq, Queue!Retry, Queue!ProcessingRetry, Rows
<1>7. Outbox!OutboxInvariant' /\ UNCHANGED copies
  BY <1>1, RelaysStandStill
<1> QED
  BY <1>1, <1>2, <1>3, <1>4, <1>5, <1>6, <1>7, TransportKeepsInvariant
-----------------------------------------------------------------------------
(* The service invariant holds *)

LEMMA InitMaps == ASSUME Init PROVE Pool!Init /\ Outbox!Init
<1>1. outbox = << >> /\ Committed = {} /\ DeadLetters = {}
  BY DEF Init, Committed, DeadLetters
<1>2. Core!Init /\ Relay!Init
  BY DEF Init
<1>3. IssuedEvents = {}
  BY <1>2 DEF Core!Init, IssuedEvents, Core!Issued, Core!Events
<1>4. Pool!Init
  BY <1>1, <1>2, <1>3 DEF Core!Init, Pool!Init
<1> QED
  BY <1>2, <1>4, SameRelays

LEMMA InitServiceInvariant == Init => ServiceInvariant
<1> SUFFICES ASSUME Init PROVE ServiceInvariant
  OBVIOUS
<1>1. outbox = << >> /\ Committed = {}
  BY DEF Init, Committed
<1>2. Pool!InductiveInvariant
  BY InitMaps, Pool!InitEstablishes, Assumptions
<1>3. Outbox!OutboxInvariant
  BY InitMaps, Outbox!InitInvariant, Assumptions
<1>4. RowsOK
  BY <1>1, ServiceAssumption DEF RowsOK
<1>5. QueuesOK /\ \A q \in Queue!Queues, r \in Rows : queued[q][r] = 0
  BY DEF Init, Queue!Init, QueuesOK
<1>6. /\ \A w \in Workers : pc[w] = "idle" /\ unacked[w] = None
      /\ \A p \in Payments : webhookClaim[p] = None
      /\ \A r \in Rows : copies[r] = 0
  BY DEF Init, Core!Init, Relay!Init, Queue!Init
<1>7. OnlyIssued /\ UnackedIsHandled
  BY <1>1, <1>6 DEF OnlyIssued, UnackedIsHandled
<1>8. MessagesAreRows /\ DelaysAreServed
  BY <1>1, <1>5, <1>6 DEF MessagesAreRows, DelaysAreServed, Queue!Queues
<1> QED
  BY <1>2, <1>3, <1>4, <1>5, <1>7, <1>8 DEF ServiceInvariant

LEMMA NextServiceInvariant == ServiceInvariant /\ [Next]_vars => ServiceInvariant'
<1> SUFFICES ASSUME ServiceInvariant, [Next]_vars PROVE ServiceInvariant'
  OBVIOUS
<1>1. CASE Next
  <2>1. CASE \E p \in Payments : Submit(p) \/ ExpireClaim(p)
    BY <2>1, SubmitKeeps, ExpireClaimKeeps
  <2>2. CASE \E ps \in SUBSET Payments : Recover(ps)
    BY <2>2, RecoverKeeps
  <2>3. CASE \E w \in Workers : Work(w) \/ FailGatewayCall(w) \/ Fail(w) \/ LoseConnection(w)
                                  \/ FailUnnoticed(w)
    BY <2>3, ProceedKeeps, FailSendKeeps, FailGatewayCallKeeps, FailKeeps, LoseConnectionKeeps,
       FailUnnoticedKeeps DEF Work
  <2>4. CASE \E w \in Workers, r \in Rows : Deliver(w, r)
    BY <2>4, DeliverKeeps
  <2>5. CASE \E v \in Relays : RelayStep(v) \/ RelayFails(v)
    BY <2>5, RelayKeeps
  <2>6. CASE \E r \in Rows : ExpireLease(r) \/ \E q \in Queue!Queues : TtlExpires(q, r)
    BY <2>6, ExpireLeaseKeeps, TtlExpiresKeeps
  <2> QED
    BY <1>1, <2>1, <2>2, <2>3, <2>4, <2>5, <2>6 DEF Next
<1>2. CASE UNCHANGED vars
  <2>1. UNCHANGED <<handlers, outbox, relays, queued, unacked, waited>>
    BY <1>2 DEF vars
  <2>2. Outbox!OutboxInvariant' /\ UNCHANGED copies
    BY <2>1, RelaysStandStill
  <2>3. QueuesOK'
    BY <2>1 DEF ServiceInvariant, QueuesOK, Queue!Queues, Queue!DelayQueues, Queue!Main, Queue!Dlq,
       Queue!Retry, Queue!ProcessingRetry, Rows
  <2> QED
    BY <2>1, <2>2, <2>3, TransportKeepsInvariant
<1> QED
  BY <1>1, <1>2

\* The parts of the service and the facts that tie them together hold together,
\* whatever faults the handlers, the relays and the connections meet.
THEOREM ServiceInvariantHolds == Spec => []ServiceInvariant
<1> QED
  BY InitServiceInvariant, NextServiceInvariant, PTL DEF Spec

\* No handler sends before the delay that its attempt calls for is over: neither
\* a message published twice nor a resume event shortens the wait.
THEOREM DelaysAreKept == Spec => []RetriesWait
<1>1. ServiceInvariant => RetriesWait
  BY ServiceAssumption DEF ServiceInvariant, DelaysAreServed, HasWaited, RetriesWait, Core!SendingLabels,
     OnlyIssued, IssuedEvents, Core!Issued, Core!Events, Core!Attempts
<1> QED
  BY <1>1, ServiceInvariantHolds, PTL

\* However business transactions, relays and faults interleave, a row is marked
\* published only after the broker took its message.
THEOREM ServiceLosesNoEvent == Spec => []Relay!PublishedWasSent
<1>1. ServiceInvariant => Relay!PublishedWasSent
  BY SameRelays DEF ServiceInvariant, Outbox!OutboxInvariant
<1> QED
  BY <1>1, ServiceInvariantHolds, PTL
-----------------------------------------------------------------------------
(* The service implements the pool of events that PaymentProcessing assumes, *)
(* the one from which any event ever issued may turn up again.               *)

LEMMA ServiceStepIsPoolStep ==
  ServiceInvariant /\ [Next]_vars => [Pool!Next]_(Pool!vars)
<1> SUFFICES ASSUME ServiceInvariant, [Next]_vars PROVE [Pool!Next]_(Pool!vars)
  OBVIOUS
<1> USE DEF ServiceInvariant, RowsOK
<1>1. CASE \E p \in Payments : Submit(p) \/ ExpireClaim(p)
  BY <1>1, SubmitIsCreate, ExpiryIsExpiry DEF Pool!Next
<1>2. CASE \E ps \in SUBSET Payments : Recover(ps)
  BY <1>2, RecoveryIsEmitted DEF Pool!Next
<1>3. ASSUME NEW w \in Workers, Work(w) \/ FailGatewayCall(w)
      PROVE  Pool!Next
  <2>1. Pool!Step(w)
    BY <1>3, ProceedIsStep, FailedSendIsFollowedUp, GatewayFailureIsEmitted DEF Work, Pool!Step
  <2> QED
    BY <2>1 DEF Pool!Next
<1>4. CASE \E w \in Workers : Fail(w) \/ FailUnnoticed(w)
  BY <1>4, FailureIsNack DEF Pool!Next
<1>5. ASSUME NEW w \in Workers, NEW r \in Rows, Deliver(w, r)
      PROVE  Pool!Next
  <2>1. outbox[r].route # Queue!Dlq
    BY <1>5 DEF Deliver, Queue!Deliver, MessagesAreRows, Queue!Queues
  <2>2. Pool!Receive(w, outbox[r].event)
    BY <1>5, <2>1, DeliveryIsReceived
  <2> QED
    BY <2>2 DEF Pool!Receive, Pool!Next
<1>6. CASE UNCHANGED <<handlers, outbox>>
  BY <1>6, TransportStutters
<1> QED
  BY <1>1, <1>2, <1>3, <1>4, <1>5, <1>6 DEF Next, vars, LoseConnection, RelayStep, RelayFails,
     ExpireLease, TtlExpires

\* Outbox, relays, queues and connections, orphaned handlers included, are to
\* the handlers an unordered pool from which every event issued may turn up
\* again.  So the safety of PaymentProcessing is that of the service; that nobody
\* is stranded is not part of it, since in this pool no event is ever gone.
THEOREM ServiceImplementsPool == Spec => Pool!Spec
<1>1. Init => Pool!Init
  BY InitMaps
<1> QED
  BY <1>1, ServiceStepIsPoolStep, ServiceInvariantHolds, PTL DEF Spec, Pool!Spec

\* Receivers are never told two outcomes of one payment, and what is marked
\* delivered was accepted, over relays, queues and orphans as well.
THEOREM ServiceNotifiesTruly == Spec => [](Core!NotificationsAgree /\ Core!DeliveredWasAccepted)
<1>1. ServiceInvariant => Core!NotificationsAgree /\ Core!DeliveredWasAccepted
  BY DEF ServiceInvariant, Pool!InductiveInvariant, Core!NotificationsAgree, Pool!NotificationsAgree,
     Core!DeliveredWasAccepted, Pool!DeliveredWasAccepted
<1> QED
  BY <1>1, ServiceInvariantHolds, PTL

\* The two instances of PaymentProcessing have the same lifecycle.
LEMMA SameLifecycle ==
  /\ Pool!Init => Core!Lifecycle!Init
  /\ Pool!InductiveInvariant /\ [Pool!Next]_(Pool!vars)
       => [Core!Lifecycle!Next]_(Core!Lifecycle!lifecycle)
<1>1. Pool!Init => Pool!Lifecycle!Init
  BY Pool!InitRefines, Assumptions
<1>2. Pool!InductiveInvariant /\ [Pool!Next]_(Pool!vars)
        => [Pool!Lifecycle!Next]_(Pool!Lifecycle!lifecycle)
  BY Pool!NextRefines, Assumptions
<1>3. Pool!WebhookFate = Core!WebhookFate /\ Pool!WebhookFate' = Core!WebhookFate'
  BY DEF Pool!WebhookFate, Core!WebhookFate, Pool!DeadLettered, Core!DeadLettered
<1>4. (Pool!Lifecycle!Init => Core!Lifecycle!Init)
  BY <1>3 DEF Pool!Lifecycle!Init, Core!Lifecycle!Init
<1>5. [Pool!Lifecycle!Next]_(Pool!Lifecycle!lifecycle)
         => [Core!Lifecycle!Next]_(Core!Lifecycle!lifecycle)
  BY <1>3 DEF Pool!Lifecycle!Next, Core!Lifecycle!Next, Pool!Lifecycle!lifecycle,
     Core!Lifecycle!lifecycle, Pool!Lifecycle!Accept, Core!Lifecycle!Accept,
     Pool!Lifecycle!Decide, Core!Lifecycle!Decide, Pool!Lifecycle!FailAttempt,
     Core!Lifecycle!FailAttempt, Pool!Lifecycle!Deliver, Core!Lifecycle!Deliver,
     Pool!Lifecycle!FinalDecisions, Core!Lifecycle!FinalDecisions
<1> QED
  BY <1>1, <1>2, <1>4, <1>5

\* The service as a whole keeps the promise of PaymentLifecycle: decided once,
\* each attempt counted once, delivered or given up once.
THEOREM ServiceImplementsLifecycle == Spec => ImplementsLifecycle
<1>1. Init => Core!Lifecycle!Init
  BY InitMaps, SameLifecycle
<1>2. ServiceInvariant /\ [Next]_vars => [Core!Lifecycle!Next]_(Core!Lifecycle!lifecycle)
  BY ServiceStepIsPoolStep, SameLifecycle DEF ServiceInvariant
<1> QED
  BY <1>1, <1>2, ServiceInvariantHolds, PTL
     DEF Spec, ImplementsLifecycle, Core!ImplementsLifecycle, Core!Lifecycle!Spec

\* No redelivery, duplicate, resume event or orphan revives a dead letter.
THEOREM ServiceDeadLettersAreFinal == Spec => []Core!DeadLetterIsFinal
<1>1. ASSUME ServiceInvariant PROVE Core!DeadLetterIsFinal
  <2>1. Pool!DeadLetterIsFinal
    BY <1>1 DEF ServiceInvariant, Pool!InductiveInvariant
  <2>2. PendingEvents \subseteq IssuedEvents
    BY <1>1 DEF ServiceInvariant, OnlyIssued, PendingEvents
  <2> QED
    BY <2>1, <2>2, SameHelpers DEF Core!DeadLetterIsFinal, Pool!DeadLetterIsFinal
<1> QED
  BY <1>1, ServiceInvariantHolds, PTL

\* No orphan, late answer or recovery takes a live claim from its holder.
THEOREM ServiceKeepsClaims == Spec => [][Core!KeepsLiveClaims]_vars
<1>1. ServiceInvariant /\ [Next]_vars => [Core!KeepsLiveClaims]_vars
  <2> SUFFICES ASSUME ServiceInvariant, [Next]_vars PROVE Core!KeepsLiveClaims
    OBVIOUS
  <2>1. CASE Pool!Next
    <3>1. Pool!KeepsLiveClaims
      BY <2>1, Pool!NextKeepsLiveClaims, Assumptions DEF ServiceInvariant
    <3> QED
      BY <3>1, SameHelpers DEF Core!KeepsLiveClaims, Pool!KeepsLiveClaims
  <2>2. CASE UNCHANGED Pool!vars
    BY <2>2 DEF Pool!vars, Pool!claims, Core!KeepsLiveClaims
  <2> QED
    BY <2>1, <2>2, ServiceStepIsPoolStep
<1> QED
  BY <1>1, ServiceInvariantHolds, PTL DEF Spec

\* No other relay, and no business transaction, ends a live lease.
THEOREM ServiceKeepsLeases == Spec => [][Relay!KeepsLiveLeases]_vars
<1>1. ServiceInvariant /\ [Next]_vars => [Relay!KeepsLiveLeases]_vars
  <2> SUFFICES ASSUME ServiceInvariant, [Next]_vars PROVE Relay!KeepsLiveLeases
    OBVIOUS
  <2>1. CASE \/ \E v \in Relays : RelayStep(v) \/ RelayFails(v)
             \/ \E r \in Rows : ExpireLease(r)
    <3>1. Outbox!Next
      BY <2>1, RelaysMove
    <3>2. Outbox!KeepsLiveLeases
      BY <3>1, Outbox!NextKeepsLiveLeases, Assumptions DEF ServiceInvariant, Outbox!OutboxInvariant
    <3> QED
      BY <3>2, SameRelays DEF Relay!KeepsLiveLeases, Outbox!KeepsLiveLeases
  <2>2. CASE UNCHANGED lease
    BY <2>2 DEF Relay!KeepsLiveLeases
  <2>3. Next => \/ \E v \in Relays : RelayStep(v) \/ RelayFails(v)
                \/ \E r \in Rows : ExpireLease(r)
                \/ UNCHANGED lease
    BY DEF Next, Submit, ExpireClaim, Recover, Work, Proceed, FailSend, FailGatewayCall, Fail,
       LoseConnection, FailUnnoticed, Deliver, TtlExpires, Commit, relays
  <2> QED
    BY <2>1, <2>2, <2>3 DEF vars, relays
<1> QED
  BY <1>1, ServiceInvariantHolds, PTL DEF Spec

\* Every message beyond the one that publishes its row is the work of a mishap
\* of the relays, in the composed service too.
THEOREM ServiceExplainsDuplicates == Spec => []Relay!CopiesAccountedFor
<1>1. ServiceInvariant => Relay!CopiesAccountedFor
  BY Outbox!CopiesFollow, SameRelays, Assumptions DEF ServiceInvariant
<1> QED
  BY <1>1, ServiceInvariantHolds, PTL

-----------------------------------------------------------------------------
(* As long as no orphan fails, the service implements PaymentProcessing with  *)
(* the events that really are in outbox rows and queues.                      *)

\* The rows whose message is in a queue.
Queued(r) == \E q \in Queue!Queues : queued[q][r] > 0

LEMMA PendingIsARow ==
  \A e : e \in PendingEvents <=>
    \E r \in Committed : /\ outbox[r].route # Queue!Dlq /\ outbox[r].event = e
                         /\ copies[r] = 0 \/ Queued(r)
BY DEF PendingEvents, Waiting, Queued

\* The queues have constant names.
LEMMA StillQueued ==
  ASSUME NEW r PROVE Queued(r)' <=> \E q \in Queue!Queues : queued'[q][r] > 0
BY DEF Queued, Queue!Queues, Queue!DelayQueues, Queue!Main, Queue!Dlq, Queue!Retry,
   Queue!ProcessingRetry

LEMMA PendingIsARowNext ==
  \A e : e \in PendingEvents' <=>
    \E r \in Committed' : /\ outbox'[r].route # Queue!Dlq /\ outbox'[r].event = e
                          /\ copies'[r] = 0 \/ Queued(r)'
<1>1. PendingEvents' = {outbox'[r].event :
         r \in {s \in Committed' : outbox'[s].route # Queue!Dlq /\ (copies'[s] = 0 \/ Queued(s)')}}
  BY DEF PendingEvents, Waiting, Queued, Queue!Dlq
<1> QED
  BY <1>1

\* What a transaction commits is on its way at once.
LEMMA CommitPends ==
  ASSUME ServiceInvariant, NEW records \in SUBSET Records, IsFiniteSet(records),
         Commit(records), UNCHANGED queued
  PROVE  \A e : e \in PendingEvents' <=>
           e \in PendingEvents \/ \E x \in records : x.route # Queue!Dlq /\ x.event = e
<1>1. /\ Committed \subseteq Committed' /\ Committed' \subseteq Rows
      /\ \A r \in Committed : outbox'[r] = outbox[r]
      /\ \A r \in Committed' \ Committed : outbox'[r] \in records
      /\ \A x \in records : \E r \in Committed' \ Committed : outbox'[r] = x
  BY CommitAppends DEF ServiceInvariant, RowsOK
<1>2. copies' = copies /\ \A r : Queued(r)' <=> Queued(r)
  BY StillQueued DEF Commit, relays, Queued
<1>3. \A r \in Committed' \ Committed : copies[r] = 0
  BY <1>1 DEF ServiceInvariant, MessagesAreRows, Outbox!OutboxInvariant, Outbox!TypeOK
<1> QED
  BY <1>1, <1>2, <1>3, PendingIsARow, PendingIsARowNext

\* The events of a transaction that issues no dead letter.
LEMMA CommitEmits ==
  ASSUME ServiceInvariant, NEW events \in SUBSET Core!Events, IsFiniteSet(events),
         NEW q \in Queue!Queues, q # Queue!Dlq, Commit(Record(events, q)), UNCHANGED queued
  PROVE  Core!Emit(events) /\ UNCHANGED DeadLetters
<1>1. /\ Record(events, q) \in SUBSET Records /\ IsFiniteSet(Record(events, q))
      /\ \A y \in Record(events, q) : y.route = q /\ y.event \in events
      /\ \A e \in events : [event |-> e, route |-> q] \in Record(events, q)
  BY RecordsOf
<1>2. \A e : e \in PendingEvents' <=> e \in PendingEvents \/ e \in events
  <2>1. \A e : e \in PendingEvents' <=>
          e \in PendingEvents \/ \E x \in Record(events, q) : x.route # Queue!Dlq /\ x.event = e
    BY <1>1, CommitPends
  <2>2. ASSUME NEW e
        PROVE  (\E x \in Record(events, q) : x.route # Queue!Dlq /\ x.event = e) <=> e \in events
    BY <1>1
  <2> QED
    BY <2>1, <2>2
<1>3. UNCHANGED DeadLetters
  BY NoNewLetters DEF ServiceInvariant, RowsOK
<1> QED
  BY <1>2, <1>3 DEF Core!Emit

LEMMA SubmitRefines ==
  ASSUME ServiceInvariant, NEW p \in Payments, Submit(p)
  PROVE  Core!CreatePayment(p)
<1> DEFINE e == Core!FirstEvent(p)
<1>1. e \in Core!Events
  BY ServiceAssumption DEF Core!FirstEvent, Core!Events, Core!Attempts
<1>2. Core!InsertPayment(p) /\ Commit(Record({e}, Queue!Main)) /\ UNCHANGED queued
  BY DEF Submit
<1>3. Queue!Main \in Queue!Queues /\ Queue!Main # Queue!Dlq
  BY QueueNames DEF Queue!Queues
<1> HIDE DEF e
<1>4. Core!Emit({e}) /\ UNCHANGED DeadLetters
  BY <1>1, <1>2, <1>3, FS_Singleton, CommitEmits
<1> QED
  BY <1>2, <1>4 DEF Core!CreatePayment, e

\* A handler that returns leaves the queues alone.
LEMMA AcknowledgementTakesNothing ==
  ASSUME NEW w \in Workers, AcknowledgeWhenDone(w) PROVE UNCHANGED queued
BY DEF AcknowledgeWhenDone, Queue!Acknowledge

LEMMA GatewayFailureRefines ==
  ASSUME ServiceInvariant, NEW w \in Workers, FailGatewayCall(w)
  PROVE  Core!RecordGatewayFailure(w)
<1> DEFINE retries == Core!GatewayRetry(w)
<1>1. /\ Core!GiveUpGatewayCall(w) /\ Commit(Record(retries, Queue!ProcessingRetry))
      /\ UNCHANGED queued
  BY AcknowledgementTakesNothing DEF FailGatewayCall
<1>2. event[w] \in Core!Events
  BY <1>1 DEF Core!GiveUpGatewayCall, ServiceInvariant, OnlyIssued, IssuedEvents, Core!Issued
<1>3. retries \in SUBSET Core!Events /\ IsFiniteSet(retries)
  BY <1>2, FS_EmptySet, FS_Singleton DEF Core!GatewayRetry
<1>4. Queue!ProcessingRetry \in Queue!Queues /\ Queue!ProcessingRetry # Queue!Dlq
  BY QueueNames DEF Queue!Queues, Queue!DelayQueues
<1> HIDE DEF retries
<1>5. Core!Emit(retries) /\ UNCHANGED DeadLetters
  BY <1>1, <1>3, <1>4, CommitEmits
<1> QED
  BY <1>1, <1>5 DEF Core!RecordGatewayFailure, retries

LEMMA RecoveryRefines ==
  ASSUME ServiceInvariant, NEW ps \in SUBSET Payments, Recover(ps)
  PROVE  Core!RecoverStaleClaims(ps)
<1> DEFINE resumed == Core!ResumeEvents(ps)
<1>1. Core!ReleaseStaleClaims(ps) /\ Commit(Record(resumed, Queue!Main)) /\ UNCHANGED queued
  BY DEF Recover
<1>2. resumed \in SUBSET Core!Events
  BY SameState DEF Core!ResumeEvents, Core!Events, ServiceInvariant, Pool!InductiveInvariant, Pool!TypeOK
<1>3. IsFiniteSet(resumed)
  <2>1. IsFiniteSet(ps)
    BY ServiceAssumption, FS_Subset
  <2>2. [p \in ps |-> [payment |-> p, attempt |-> attempts[p]]] \in Surjection(ps, resumed)
    BY DEF Core!ResumeEvents, Surjection
  <2> QED
    BY <2>1, <2>2, FS_Surjection
<1>4. Queue!Main \in Queue!Queues /\ Queue!Main # Queue!Dlq
  BY QueueNames DEF Queue!Queues
<1> HIDE DEF resumed
<1>5. Core!Emit(resumed) /\ UNCHANGED DeadLetters
  BY <1>1, <1>2, <1>3, <1>4, CommitEmits
<1> QED
  BY <1>1, <1>5 DEF Core!RecoverStaleClaims, resumed

LEMMA FailedSendRefines ==
  ASSUME ServiceInvariant, NEW w \in Workers, FailSend(w)
  PROVE  Core!RecordWebhookFailure(w)
<1> DEFINE e == NextEvent(w)
           retries == Core!FollowUp(w, "retry")
           letters == Core!FollowUp(w, "dlq")
<1>1. Core!CountFailedSend(w) /\ UNCHANGED queued
  BY AcknowledgementTakesNothing DEF FailSend
<1>2. Core!EmitToDlq(letters)
  <2>1. Pool!RecordWebhookFailure(w)
    BY FailedSendIsFollowedUp DEF ServiceInvariant, RowsOK
  <2> QED
    BY <2>1, SameHelpers DEF Pool!RecordWebhookFailure, Pool!EmitToDlq, Core!EmitToDlq
<1>3. \A x : x \in PendingEvents' <=>
        x \in PendingEvents \/ \E y \in FollowUpRecords(w) : y.route # Queue!Dlq /\ y.event = x
  BY <1>1, CommitPends, FollowUpCommits DEF ServiceInvariant
<1>4. \A x : (\E y \in FollowUpRecords(w) : y.route # Queue!Dlq /\ y.event = x) <=> x \in retries
  <2>1. ASSUME NEW q, FollowUpRecords(w) = {[event |-> e, route |-> q]}
        PROVE  \A x : (\E y \in FollowUpRecords(w) : y.route # Queue!Dlq /\ y.event = x)
                       <=> q # Queue!Dlq /\ x = e
    BY <2>1
  <2> HIDE DEF e
  <2>2. CASE FollowUpRecords(w) = {[event |-> e, route |-> Queue!Retry(e.attempt)]} /\ retries = {e}
    BY <2>1, <2>2, QueueNames
  <2>3. CASE FollowUpRecords(w) = {[event |-> e, route |-> Queue!Dlq]} /\ retries = {}
    BY <2>1, <2>3
  <2>4. CASE FollowUpRecords(w) = {} /\ retries = {}
    BY <2>4
  <2> QED
    BY <2>2, <2>3, <2>4, FollowUpCases DEF FollowedUp, e, ServiceInvariant
<1>5. Core!Emit(retries)
  BY <1>3, <1>4 DEF Core!Emit
<1> QED
  BY <1>1, <1>2, <1>5 DEF Core!RecordWebhookFailure

\* A delivered message may be the only one for its event, or one of several.
LEMMA DeliveryRefines ==
  ASSUME ServiceInvariant, NEW w \in Workers, NEW r \in Rows, Deliver(w, r)
  PROVE  \E e \in PendingEvents : Core!Receive(w, e)
<1> DEFINE e == outbox[r].event
<1>1. /\ queued[Queue!Main][r] > 0 /\ r \in Committed /\ Core!Take(w, e)
      /\ queued' = [queued EXCEPT ![Queue!Main][r] = queued[Queue!Main][r] - 1]
      /\ UNCHANGED <<outbox, relays>>
  BY DEF Deliver, Queue!Deliver
<1>2. Queue!Main \in Queue!Queues /\ outbox[r].route # Queue!Dlq
  BY <1>1 DEF Queue!Queues, ServiceInvariant, MessagesAreRows
<1>3. queued \in [Queue!Queues -> [Rows -> Nat]] /\ Committed \subseteq Rows
  BY ServiceAssumption DEF ServiceInvariant, QueuesOK, RowsOK, Committed, Rows
<1>4. Queued(r)
  BY <1>1, <1>2 DEF Queued
<1>5. \A m \in Rows : m # r => (Queued(m)' <=> Queued(m))
  <2>1. \A q \in Queue!Queues, m \in Rows : m # r => queued'[q][m] = queued[q][m]
    BY <1>1, <1>2, <1>3
  <2> QED
    BY <2>1, StillQueued DEF Queued
<1>6. Committed' = Committed /\ outbox' = outbox /\ copies' = copies
  BY <1>1 DEF Committed, relays
<1> HIDE DEF e
<1>7. e \in PendingEvents
  BY <1>1, <1>2, <1>4, PendingIsARow DEF e
<1>8. \A x : (x \in PendingEvents' => x \in PendingEvents) /\ (x \in PendingEvents /\ x # e => x \in PendingEvents')
  <2>1. ASSUME NEW x, x \in PendingEvents' PROVE x \in PendingEvents
    <3>1. PICK m \in Committed : /\ outbox[m].route # Queue!Dlq /\ outbox[m].event = x
                                 /\ copies[m] = 0 \/ Queued(m)'
      BY <1>6, <2>1, PendingIsARowNext
    <3> QED
      BY <1>3, <1>4, <1>5, <3>1, PendingIsARow
  <2>2. ASSUME NEW x, x \in PendingEvents, x # e PROVE x \in PendingEvents'
    <3>1. PICK m \in Committed : /\ outbox[m].route # Queue!Dlq /\ outbox[m].event = x
                                 /\ copies[m] = 0 \/ Queued(m)
      BY <2>2, PendingIsARow
    <3>2. m # r
      BY <2>2, <3>1 DEF e
    <3> QED
      BY <1>3, <1>5, <1>6, <3>1, <3>2, PendingIsARowNext
  <2> QED
    BY <2>1, <2>2
<1>9. PendingEvents' \in {PendingEvents, PendingEvents \ {e}}
  <2>1. CASE e \in PendingEvents'
    BY <1>7, <1>8, <2>1
  <2>2. CASE e \notin PendingEvents'
    BY <1>7, <1>8, <2>2
  <2> QED
    BY <2>1, <2>2
<1>10. UNCHANGED DeadLetters
  BY <1>1, SameLetters
<1> QED
  BY <1>1, <1>7, <1>9, <1>10 DEF Core!Receive, e

\* A message put into a queue makes its event pending, unless it is a letter.
LEMMA PutPends ==
  ASSUME ServiceInvariant, UNCHANGED outbox, NEW r \in Committed, NEW q \in Queue!Queues,
         Queue!Put(q, r), \A m \in Rows : m # r => copies'[m] = copies[m]
  PROVE  IF outbox[r].route = Queue!Dlq THEN UNCHANGED PendingEvents
                                        ELSE Core!Emit({outbox[r].event})
<1>1. queued' = [queued EXCEPT ![q][r] = queued[q][r] + 1]
  BY DEF Queue!Put
<1>2. queued \in [Queue!Queues -> [Rows -> Nat]] /\ Committed \subseteq Rows
  BY ServiceAssumption DEF ServiceInvariant, QueuesOK, RowsOK, Committed, Rows
<1>3. Queued(r)'
  <2>1. queued[q][r] + 1 > 0
    BY <1>2
  <2>2. queued'[q][r] = queued[q][r] + 1
    BY <1>1, <1>2
  <2> QED
    BY <2>1, <2>2, StillQueued
<1>4. \A m \in Rows : m # r => (Queued(m)' <=> Queued(m))
  <2>1. \A x \in Queue!Queues, m \in Rows : m # r => queued'[x][m] = queued[x][m]
    BY <1>1, <1>2
  <2> QED
    BY <2>1, StillQueued DEF Queued
<1>5. Committed' = Committed
  BY DEF Committed
<1>6. \A x : x \in PendingEvents' <=>
        x \in PendingEvents \/ (outbox[r].route # Queue!Dlq /\ x = outbox[r].event)
  <2>1. ASSUME NEW x, x \in PendingEvents'
        PROVE  x \in PendingEvents \/ (outbox[r].route # Queue!Dlq /\ x = outbox[r].event)
    <3>1. PICK m \in Committed : /\ outbox[m].route # Queue!Dlq /\ outbox[m].event = x
                                 /\ copies'[m] = 0 \/ Queued(m)'
      BY <1>5, <2>1, PendingIsARowNext
    <3> QED
      BY <1>2, <1>4, <3>1, PendingIsARow
  <2>2. ASSUME NEW x, x \in PendingEvents PROVE x \in PendingEvents'
    <3>1. PICK m \in Committed : /\ outbox[m].route # Queue!Dlq /\ outbox[m].event = x
                                 /\ copies[m] = 0 \/ Queued(m)
      BY <2>2, PendingIsARow
    <3> QED
      BY <1>2, <1>3, <1>4, <1>5, <3>1, PendingIsARowNext
  <2>3. outbox[r].route # Queue!Dlq => outbox[r].event \in PendingEvents'
    BY <1>3, <1>5, PendingIsARowNext
  <2> QED
    BY <2>1, <2>2, <2>3
<1> QED
  BY <1>6 DEF Core!Emit

\* The broker delivers the event of a failing handler again.
LEMMA RequeueRefines ==
  ASSUME ServiceInvariant, NEW w \in Workers, Queue!Requeue(w), UNCHANGED <<outbox, relays>>
  PROVE  Core!Emit({event[w]}) /\ event[w] \in Core!Issued /\ UNCHANGED DeadLetters
<1> DEFINE m == unacked[w]
<1>1. m # None /\ Queue!Put(Queue!Main, m) /\ Queue!Main \in Queue!Queues
  BY DEF Queue!Requeue, Queue!Queues
<1>2. /\ m \in Committed /\ outbox[m].route # Queue!Dlq /\ event[w] = outbox[m].event
      /\ event[w] \in Core!Issued
  BY <1>1 DEF ServiceInvariant, UnackedIsHandled, OnlyIssued, IssuedEvents
<1>3. \A n \in Rows : n # m => copies'[n] = copies[n]
  BY DEF relays
<1> HIDE DEF m
<1>4. Core!Emit({outbox[m].event})
  BY <1>1, <1>2, <1>3, PutPends
<1> QED
  BY <1>2, <1>4, SameLetters

\* What stays in the outbox or in some queue stays pending.
LEMMA NothingMoves ==
  ASSUME UNCHANGED <<handlers, outbox>>,
         \A r \in Committed : (copies'[r] = 0 \/ Queued(r)') <=> (copies[r] = 0 \/ Queued(r))
  PROVE  UNCHANGED Core!vars
<1>1. Committed' = Committed
  BY DEF Committed
<1>2. \A x : x \in PendingEvents' <=> x \in PendingEvents
  BY <1>1, PendingIsARow, PendingIsARowNext
<1>3. PendingEvents' = PendingEvents /\ UNCHANGED DeadLetters
  BY <1>2, SameLetters
<1> QED
  BY <1>3 DEF handlers, Core!vars, Core!row, Core!claims, Core!mailbox, Core!local

LEMMA SameQueuesNothingMoves ==
  ASSUME UNCHANGED <<handlers, outbox, queued, copies>>
  PROVE  UNCHANGED Core!vars
<1>1. \A r : Queued(r)' <=> Queued(r)
  BY StillQueued DEF Queued
<1> QED
  BY <1>1, NothingMoves
\* A relay publishes an event that was issued, or a letter, or does nothing the
\* handlers could notice.
LEMMA RelayRefines ==
  ASSUME ServiceInvariant, NEW v \in Relays, RelayStep(v) \/ RelayFails(v)
  PROVE  UNCHANGED Core!vars \/ \E e \in Core!Issued : Core!Republish(e)
<1> DEFINE m == Outbox!Current(v)
<1>1. UNCHANGED <<handlers, outbox>>
  BY DEF RelayStep, RelayFails
<1>2. copies \in [Rows -> Nat]
  BY DEF ServiceInvariant, Outbox!OutboxInvariant, Outbox!TypeOK
<1>3. CASE UNCHANGED <<queued, copies>>
  BY <1>1, <1>3, SameQueuesNothingMoves
<1>4. CASE /\ relayPc[v] = "publish" /\ Queue!Publish(outbox[m].route, m)
           /\ \E n : copies' = [copies EXCEPT ![m] = n]
  <2>1. m \in Committed
    BY <1>1, <1>4, PublishMoves
  <2>2. /\ Queue!Put(outbox[m].route, m)
        /\ \A r \in Rows : r # m => copies'[r] = copies[r]
    BY <1>2, <1>4 DEF Queue!Publish
  <2>3. outbox[m].route \in Queue!Queues
    <3>1. outbox \in Seq(Records) /\ m \in 1..Len(outbox)
      BY <2>1 DEF ServiceInvariant, RowsOK, Committed
    <3>2. outbox[m] \in Records
      BY <3>1
    <3> QED
      BY <3>2 DEF Records
  <2> HIDE DEF m
  <2>4. IF outbox[m].route = Queue!Dlq THEN UNCHANGED PendingEvents
                                       ELSE Core!Emit({outbox[m].event})
    BY <1>1, <2>1, <2>2, <2>3, PutPends
  <2>5. UNCHANGED DeadLetters
    BY <1>1, SameLetters
  <2>6. CASE outbox[m].route = Queue!Dlq
    BY <1>1, <2>4, <2>5, <2>6 DEF handlers, Core!vars, Core!row, Core!claims, Core!mailbox, Core!local
  <2>7. CASE outbox[m].route # Queue!Dlq
    <3>1. outbox[m].event \in Core!Issued
      BY <2>1, <2>7 DEF ServiceInvariant, OnlyIssued, IssuedEvents
    <3>2. Core!Republish(outbox[m].event)
      BY <1>1, <2>4, <2>5, <2>7, <3>1 DEF Core!Republish, handlers, Core!row, Core!claims, Core!local
    <3> QED
      BY <3>1, <3>2
  <2> QED
    BY <2>6, <2>7
<1>5. CASE RelayStep(v)
  <2>1. CASE /\ Outbox!ClaimPendingEvents(v, {}) \/ Outbox!MarkPublished(v) \/ Outbox!MarkFailed(v)
             /\ UNCHANGED <<queued, unacked>>
    BY <1>3, <2>1 DEF Outbox!ClaimPendingEvents, Outbox!MarkPublished, Outbox!MarkFailed
  <2>2. CASE Outbox!Publish(v) /\ Queue!Publish(outbox[m].route, m)
    BY <1>4, <2>2 DEF Outbox!Publish
  <2> QED
    BY <1>5, <2>1, <2>2, SameRelays DEF RelayStep
<1>6. CASE RelayFails(v)
  <2>1. CASE Outbox!Crash(v) /\ UNCHANGED <<queued, unacked>>
    BY <1>3, <2>1 DEF Outbox!Crash
  <2>2. CASE Outbox!PublishFails(v, 0) /\ UNCHANGED <<queued, unacked>>
    <3>1. copies' = [copies EXCEPT ![m] = copies[m] + 0]
      BY <2>2 DEF Outbox!PublishFails
    <3>2. copies' = copies
      BY <1>2, <3>1
    <3> QED
      BY <1>3, <2>2, <3>2
  <2>3. CASE Outbox!PublishFails(v, 1) /\ Queue!Publish(outbox[m].route, m)
    BY <1>4, <2>3 DEF Outbox!PublishFails
  <2> QED
    BY <1>6, <2>1, <2>2, <2>3, SameRelays DEF RelayFails
<1> QED
  BY <1>5, <1>6

\* A message only moves from one queue to another.
LEMMA TtlRefines ==
  ASSUME ServiceInvariant, NEW q \in Queue!Queues, NEW r \in Rows, TtlExpires(q, r)
  PROVE  UNCHANGED Core!vars
<1>1. /\ q \in Queue!DelayQueues /\ queued[q][r] > 0
      /\ queued' = [queued EXCEPT ![q][r] = @ - 1, ![Queue!Main][r] = @ + 1]
      /\ UNCHANGED <<handlers, outbox, relays>>
  BY DEF TtlExpires, Queue!TtlExpires
<1>2. q # Queue!Main /\ Queue!Main \in Queue!Queues
  BY <1>1, QueueNames DEF Queue!DelayQueues, Queue!Queues
<1>3. queued \in [Queue!Queues -> [Rows -> Nat]] /\ Committed \subseteq Rows
  BY ServiceAssumption DEF ServiceInvariant, QueuesOK, RowsOK, Committed, Rows
<1>4. queued' = [queued EXCEPT ![q] = [queued[q] EXCEPT ![r] = queued[q][r] - 1],
                      ![Queue!Main] = [queued[Queue!Main] EXCEPT ![r] = queued[Queue!Main][r] + 1]]
  BY <1>1, <1>2, <1>3
<1>5. Queued(r) /\ Queued(r)'
  <2>1. queued'[Queue!Main][r] = queued[Queue!Main][r] + 1 /\ queued[Queue!Main][r] + 1 > 0
    BY <1>2, <1>3, <1>4
  <2> QED
    BY <1>1, <1>2, <2>1, StillQueued DEF Queued
<1>6. \A m \in Rows : m # r => (Queued(m)' <=> Queued(m))
  <2>1. ASSUME NEW x \in Queue!Queues, NEW m \in Rows, m # r PROVE queued'[x][m] = queued[x][m]
    BY <1>2, <1>3, <1>4, <2>1
  <2> QED
    BY <2>1, StillQueued DEF Queued
<1>7. UNCHANGED copies
  BY <1>1 DEF relays
<1>8. \A m \in Committed : (copies'[m] = 0 \/ Queued(m)') <=> (copies[m] = 0 \/ Queued(m))
  BY <1>3, <1>5, <1>6, <1>7
<1> QED
  BY <1>1, <1>8, NothingMoves

LEMMA HandlersRefine ==
  ASSUME ServiceInvariant, NEW w \in Workers,
         \/ Work(w) \/ FailGatewayCall(w) \/ Fail(w) \/ LoseConnection(w)
         \/ \E r \in Rows : Deliver(w, r)
  PROVE  Core!Next
<1>1. CASE Proceed(w)
  BY <1>1 DEF Proceed, Core!Step, Core!Next
<1>2. CASE FailSend(w) \/ FailGatewayCall(w)
  <2>1. Core!Step(w)
    BY <1>2, FailedSendRefines, GatewayFailureRefines DEF Core!Step
  <2> QED
    BY <2>1 DEF Core!Next
<1>3. CASE Fail(w)
  BY <1>3, RequeueRefines DEF Fail, Core!Nack, Core!Next
<1>4. CASE LoseConnection(w)
  <2>1. /\ Core!Emit({event[w]}) /\ event[w] \in Core!Issued
        /\ UNCHANGED <<handlers, DeadLetters>>
    BY <1>4, RequeueRefines DEF LoseConnection
  <2>2. Core!Republish(event[w])
    BY <2>1 DEF Core!Republish, handlers, Core!row, Core!claims, Core!local
  <2> QED
    BY <2>1, <2>2 DEF Core!Next
<1>5. CASE \E r \in Rows : Deliver(w, r)
  BY <1>5, DeliveryRefines DEF Core!Next
<1> QED
  BY <1>1, <1>2, <1>3, <1>4, <1>5 DEF Work

LEMMA NextRefinesProcessing ==
  ServiceInvariant /\ [Next]_vars
    => [Core!Next \/ \E w \in Workers : FailUnnoticed(w)]_(Core!vars)
<1> SUFFICES ASSUME ServiceInvariant, [Next]_vars
             PROVE  [Core!Next \/ \E w \in Workers : FailUnnoticed(w)]_(Core!vars)
  OBVIOUS
<1>1. CASE \E p \in Payments : Submit(p) \/ ExpireClaim(p)
  BY <1>1, SubmitRefines DEF ExpireClaim, Core!Next
<1>2. CASE \E ps \in SUBSET Payments : Recover(ps)
  BY <1>2, RecoveryRefines DEF Core!Next
<1>3. ASSUME NEW w \in Workers,
             \/ Work(w) \/ FailGatewayCall(w) \/ Fail(w) \/ LoseConnection(w)
             \/ \E r \in Rows : Deliver(w, r)
      PROVE  Core!Next
  BY <1>3, HandlersRefine
<1>4. CASE \E v \in Relays : RelayStep(v) \/ RelayFails(v)
  <2>1. UNCHANGED Core!vars \/ \E e \in Core!Issued : Core!Republish(e)
    BY <1>4, RelayRefines
  <2> QED
    BY <2>1 DEF Core!Next
<1>5. CASE \E r \in Rows : ExpireLease(r) \/ \E q \in Queue!Queues : TtlExpires(q, r)
  BY <1>5, TtlRefines, SameQueuesNothingMoves DEF ExpireLease, Relay!ExpireLease
<1>6. CASE UNCHANGED vars
  BY <1>6, SameQueuesNothingMoves DEF vars, relays
<1> QED
  BY <1>1, <1>2, <1>3, <1>4, <1>5, <1>6 DEF Next

\* With the events that outbox and queues really hold, every step of the service
\* but the failure of an orphan is a step of PaymentProcessing, or one that the
\* handlers do not notice.
THEOREM ServiceImplementsProcessing == Spec => ImplementsProcessing
<1>1. Init => Core!Init
  BY DEF Init
<1> QED
  BY <1>1, NextRefinesProcessing, ServiceInvariantHolds, PTL DEF Spec, ImplementsProcessing
=============================================================================
