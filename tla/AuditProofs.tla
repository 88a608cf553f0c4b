---------------------------- MODULE AuditProofs ----------------------------
(***************************************************************************)
(* Machine-checked proofs about DeliveryAudit: every call of a receiver's  *)
(* server is accounted for, for any number of payments, workers, attempts  *)
(* and mishaps.  Counting the calls already made is not inductive: a       *)
(* handler whose claim is gone is going to send all the same.              *)
(***************************************************************************)
EXTENDS DeliveryAudit, PaymentProcessingProofs, FiniteSetTheorems

USE DEF row, claims, mailbox, local, OptionOf, Emit, EmitToDlq

-----------------------------------------------------------------------------
(* The inductive invariant *)

\* The handlers that are going to send for p although their claim has run out
\* or is somebody else's by now.  A mishap has made each of them one.
StaleSenders(p) ==
  {w \in Workers : /\ pc[w] \in {"build", "send"} /\ Target(w) = p
                   /\ webhookClaim[p] # w \/ p \in webhookExpired}

\* Handler w is about to count the send it made under a live claim on p.
CountsFor(w, p) == /\ pc[w] = "record" /\ Target(w) = p
                   /\ webhookClaim[p] = w /\ p \notin webhookExpired

Counting(p) == \E w \in Workers : CountsFor(w, p)

\* Calls made and stale calls to come, against what explains them.
Audited(p) ==
  sends[p] + Cardinality(StaleSenders(p))
    <= attempts[p] + mishaps[p] + (IF Counting(p) THEN 1 ELSE 0)

CountersOK == sends \in [Payments -> Nat] /\ mishaps \in [Payments -> Nat]

AuditInvariant ==
  /\ InductiveInvariant
  /\ CountersOK
  /\ \A p \in Payments : Audited(p)

-----------------------------------------------------------------------------
(* Lemmas *)

\* The handlers are finitely many, and so are the stale ones among them.
LEMMA StaleIsFinite ==
  ASSUME NEW p \in Payments
  PROVE  IsFiniteSet(StaleSenders(p)) /\ Cardinality(StaleSenders(p)) \in Nat
<1>1. StaleSenders(p) \subseteq Workers
  BY DEF StaleSenders
<1> QED
  BY <1>1, AuditAssumption, FS_Subset, FS_CardinalityType

LEMMA StaleIsFiniteNext ==
  ASSUME NEW p \in Payments
  PROVE  IsFiniteSet(StaleSenders(p)') /\ Cardinality(StaleSenders(p)') \in Nat
<1>1. StaleSenders(p)' \subseteq Workers
  BY DEF StaleSenders
<1> QED
  BY <1>1, AuditAssumption, FS_Subset, FS_CardinalityType

LEMMA AttemptsAreNumbers ==
  ASSUME TypeOK, NEW p \in Payments PROVE attempts[p] \in Nat
BY ConfigAssumption DEF TypeOK, Attempts

\* Each step of the audited service is a step of PaymentProcessing.
LEMMA AuditStepIsStep == AuditNext => Next
<1>1. ASSUME NEW p \in Payments, Submit(p) \/ Expire(p) \/ Recover(p) PROVE Next
  BY <1>1 DEF Submit, Expire, Recover, Next
<1>2. ASSUME NEW w \in Workers, Work(w) \/ FailedRun(w) PROVE Next
  <2>1. Step(w) \/ Nack(w)
    BY <1>2 DEF Work, QuietStep, CountedSend, FailedRun, Step
  <2> QED
    BY <2>1 DEF Next
<1>3. ASSUME NEW w \in Workers, NEW e \in pendingEvents, CleanReceive(w, e) PROVE Next
  BY <1>3 DEF CleanReceive, Next
<1>4. ASSUME NEW e \in Issued, Duplicate(e) PROVE Next
  BY <1>4 DEF Duplicate, Next
<1> QED
  BY <1>1, <1>2, <1>3, <1>4 DEF AuditNext

\* The balance of a payment for which nobody becomes stale.
LEMMA BalanceKept ==
  ASSUME AuditInvariant, TypeOK', NEW p \in Payments, CountersOK',
         StaleSenders(p)' \subseteq StaleSenders(p),
         sends'[p] = sends[p],
         attempts'[p] >= attempts[p], mishaps'[p] >= mishaps[p],
         \/ ~ Counting(p) \/ Counting(p)'
         \/ attempts'[p] + mishaps'[p] > attempts[p] + mishaps[p]
  PROVE  Audited(p)'
<1> DEFINE stale == Cardinality(StaleSenders(p))
           staleNext == Cardinality(StaleSenders(p)')
<1>1. stale \in Nat /\ staleNext \in Nat /\ staleNext <= stale
  BY StaleIsFinite, StaleIsFiniteNext, FS_Subset
<1>2. /\ attempts[p] \in Nat /\ attempts'[p] \in Nat
      /\ sends[p] \in Nat /\ mishaps[p] \in Nat /\ mishaps'[p] \in Nat
  BY AttemptsAreNumbers, ConfigAssumption DEF AuditInvariant, InductiveInvariant, CountersOK, TypeOK, Attempts
<1>3. sends[p] + stale <= attempts[p] + mishaps[p] + (IF Counting(p) THEN 1 ELSE 0)
  BY DEF AuditInvariant, Audited
<1>4. Audited(p)' <=>
        sends'[p] + staleNext <= attempts'[p] + mishaps'[p] + (IF Counting(p)' THEN 1 ELSE 0)
  BY DEF Audited
<1> HIDE DEF stale, staleNext
<1> QED
  BY <1>1, <1>2, <1>3, <1>4

\* A handler becomes stale only when its claim expires.
LEMMA NobodyGrowsStale ==
  ASSUME AuditInvariant, KeepsLiveClaims, NEW p \in Payments,
         p \in webhookExpired' => p \in webhookExpired,
         \A v \in Workers : pc'[v] \in {"build", "send"} /\ Target(v)' = p =>
           \/ pc[v] \in {"build", "send"} /\ Target(v) = p
           \/ webhookClaim'[p] = v /\ p \notin webhookExpired'
  PROVE  StaleSenders(p)' \subseteq StaleSenders(p)
<1> SUFFICES ASSUME NEW v \in Workers, pc'[v] \in {"build", "send"}, Target(v)' = p,
                    webhookClaim'[p] # v \/ p \in webhookExpired'
             PROVE  v \in StaleSenders(p)
  BY DEF StaleSenders
<1>1. pc[v] \in {"build", "send"} /\ Target(v) = p
  OBVIOUS
<1>2. webhookClaim[p] = v /\ p \notin webhookExpired => webhookClaim'[p] = v
  BY <1>1 DEF KeepsLiveClaims
<1> QED
  BY <1>1, <1>2 DEF StaleSenders

\* A handler about to count its send goes on to do so.
LEMMA CountingKept ==
  ASSUME KeepsLiveClaims, NEW p \in Payments, NEW v \in Workers, CountsFor(v, p),
         pc'[v] = pc[v], event'[v] = event[v], p \in webhookExpired' => p \in webhookExpired
  PROVE  Counting(p)'
<1>1. webhookClaim'[p] = v
  BY DEF KeepsLiveClaims, CountsFor
<1>2. CountsFor(v, p)'
  BY <1>1 DEF CountsFor, Target
<1> QED
  BY <1>2 DEF Counting
\* A step of one handler that sends nothing.
LEMMA OneMoves ==
  ASSUME AuditInvariant, TypeOK', CountersOK', KeepsLiveClaims, NEW w \in Workers,
         webhookExpired' \subseteq webhookExpired,
         \A v \in Workers \ {w} : pc'[v] = pc[v] /\ event'[v] = event[v],
         NEW p \in Payments,
         sends'[p] = sends[p], attempts'[p] >= attempts[p], mishaps'[p] >= mishaps[p],
         pc'[w] \in {"build", "send"} /\ Target(w)' = p =>
           \/ pc[w] \in {"build", "send"} /\ Target(w) = p
           \/ webhookClaim'[p] = w /\ p \notin webhookExpired',
         CountsFor(w, p) => attempts'[p] + mishaps'[p] > attempts[p] + mishaps[p]
  PROVE  Audited(p)'
<1>1. \A v \in Workers : pc'[v] \in {"build", "send"} /\ Target(v)' = p =>
        \/ pc[v] \in {"build", "send"} /\ Target(v) = p
        \/ webhookClaim'[p] = v /\ p \notin webhookExpired'
  BY DEF Target
<1>2. StaleSenders(p)' \subseteq StaleSenders(p)
  BY <1>1, NobodyGrowsStale
<1>3. ASSUME NEW v \in Workers, CountsFor(v, p)
      PROVE  Counting(p)' \/ attempts'[p] + mishaps'[p] > attempts[p] + mishaps[p]
  BY <1>3, CountingKept
<1>4. \/ ~ Counting(p) \/ Counting(p)'
      \/ attempts'[p] + mishaps'[p] > attempts[p] + mishaps[p]
  BY <1>3 DEF Counting
<1> QED
  BY <1>2, <1>4, BalanceKept

\* The handler that counts its send still holds the claim it needs for that.
LEMMA CountedOnce ==
  ASSUME AuditInvariant, NEW w \in Workers, RecordWebhookSuccess(w) \/ RecordWebhookFailure(w),
         NEW p \in Payments
  PROVE  /\ attempts'[p] >= attempts[p]
         /\ CountsFor(w, p) => attempts'[p] = attempts[p] + 1
         /\ webhookExpired' \subseteq webhookExpired
<1> DEFINE q == Target(w)
<1>1. /\ pc[w] = "record"
      /\ \/ /\ HoldsWebhookClaim(w)
            /\ attempts' = [attempts EXCEPT ![q] = AttemptNumber(w)]
            /\ webhookExpired' = webhookExpired \ {q}
         \/ /\ ~ HoldsWebhookClaim(w)
            /\ UNCHANGED <<attempts, webhookExpired>>
  BY DEF RecordWebhookSuccess, RecordWebhookFailure, CountFailedSend, ReleaseWebhookClaim
<1>2. InductiveInvariant /\ RunOK(w) /\ attempts \in [Payments -> Attempts]
  BY DEF AuditInvariant, InductiveInvariant, TypeOK
<1>3. attempts[p] \in Nat /\ q \in Payments
  BY <1>1, <1>2, BusyRun, AttemptsAreNumbers DEF InductiveInvariant
<1>4. CountsFor(w, p) => q = p /\ HoldsWebhookClaim(w)
  BY <1>2 DEF CountsFor, RunOK, HoldsWebhookClaim, SendingLabels
<1>5. HoldsWebhookClaim(w) => AttemptNumber(w) = attempts[q] + 1
  BY DEF HoldsWebhookClaim, AttemptNumber
<1> HIDE DEF q
<1>6. CASE /\ HoldsWebhookClaim(w)
           /\ attempts' = [attempts EXCEPT ![q] = AttemptNumber(w)]
           /\ webhookExpired' = webhookExpired \ {q}
  <2>1. CASE q = p
    BY <1>2, <1>3, <1>5, <1>6, <2>1
  <2>2. CASE q # p
    BY <1>2, <1>3, <1>4, <1>6, <2>2
  <2> QED
    BY <2>1, <2>2
<1>7. CASE ~ HoldsWebhookClaim(w) /\ UNCHANGED <<attempts, webhookExpired>>
  BY <1>3, <1>4, <1>7
<1> QED
  BY <1>1, <1>6, <1>7

LEMMA QuietStepAudited ==
  ASSUME AuditInvariant, TypeOK', KeepsLiveClaims, NEW w \in Workers, QuietStep(w),
         NEW p \in Payments
  PROVE  Audited(p)' /\ CountersOK'
<1>1. UNCHANGED <<sends, mishaps>> /\ CountersOK'
  BY DEF QuietStep, AuditInvariant, CountersOK
<1>2. TypeOK /\ attempts[p] \in Nat /\ mishaps[p] \in Nat
  BY AttemptsAreNumbers DEF AuditInvariant, InductiveInvariant, CountersOK
<1>3. CASE \/ FetchPayment(w) \/ ClaimGateway(w) \/ RefetchPayment(w)
           \/ \E result \in FinalStatuses : FinalizeGateway(w, result)
  <2>1. /\ UNCHANGED <<attempts, webhookExpired>>
        /\ \A v \in Workers \ {w} : pc'[v] = pc[v] /\ event'[v] = event[v]
        /\ pc'[w] \notin {"build", "send"} /\ pc[w] # "record"
    BY <1>2, <1>3 DEF FetchPayment, ClaimGateway, RefetchPayment, FinalizeGateway, CheckDelivery,
       Goto, Return, TypeOK
  <2> QED
    BY <1>1, <1>2, <2>1, OneMoves DEF CountsFor
<1>4. CASE ClaimWebhook(w)
  <2>1. CASE WebhookClaimable(w)
    <3>1. /\ pc' = [pc EXCEPT ![w] = "build"] /\ pc[w] = "claim_webhook" /\ UNCHANGED <<attempts, event>>
          /\ webhookClaim' = [webhookClaim EXCEPT ![Target(w)] = w]
          /\ webhookExpired' = webhookExpired \ {Target(w)}
      BY <1>4, <2>1 DEF ClaimWebhook, Goto
    <3>2. /\ \A v \in Workers \ {w} : pc'[v] = pc[v] /\ event'[v] = event[v]
          /\ Target(w)' = Target(w) /\ webhookExpired' \subseteq webhookExpired
      BY <1>2, <3>1 DEF TypeOK, Target
    <3>3. Target(w) = p => webhookClaim'[p] = w /\ p \notin webhookExpired'
      BY <1>2, <3>1 DEF TypeOK
    <3> QED
      BY <1>1, <1>2, <3>1, <3>2, <3>3, OneMoves DEF CountsFor
  <2>2. CASE ~ WebhookClaimable(w)
    <3>1. /\ UNCHANGED <<attempts, webhookExpired>> /\ pc[w] = "claim_webhook"
          /\ \A v \in Workers \ {w} : pc'[v] = pc[v] /\ event'[v] = event[v]
          /\ pc'[w] = "idle"
      BY <1>2, <1>4, <2>2 DEF ClaimWebhook, Return, TypeOK
    <3> QED
      BY <1>1, <1>2, <3>1, OneMoves DEF CountsFor
  <2> QED
    BY <2>1, <2>2
<1>5. CASE BuildNotification(w)
  <2>1. /\ UNCHANGED <<attempts, webhookExpired, event>> /\ pc[w] = "build"
        /\ \A v \in Workers \ {w} : pc'[v] = pc[v]
    BY <1>2, <1>5 DEF BuildNotification, Goto, TypeOK
  <2> QED
    BY <1>1, <1>2, <2>1, OneMoves DEF CountsFor, Target
<1>6. CASE RecordWebhookSuccess(w) \/ RecordWebhookFailure(w)
  <2>1. /\ pc'[w] = "idle"
        /\ \A v \in Workers \ {w} : pc'[v] = pc[v] /\ event'[v] = event[v]
    BY <1>2, <1>6 DEF RecordWebhookSuccess, RecordWebhookFailure, CountFailedSend, Return, TypeOK
  <2>2. /\ attempts'[p] >= attempts[p] /\ webhookExpired' \subseteq webhookExpired
        /\ CountsFor(w, p) => attempts'[p] = attempts[p] + 1
    BY <1>6, CountedOnce
  <2>3. mishaps'[p] >= mishaps[p] /\ sends'[p] = sends[p]
    BY <1>1, <1>2
  <2>4. CountsFor(w, p) => attempts'[p] + mishaps'[p] > attempts[p] + mishaps[p]
    BY <1>1, <1>2, <2>2
  <2>5. Audited(p)'
    BY <1>1, <2>1, <2>2, <2>3, <2>4, OneMoves
  <2> QED
    BY <1>1, <2>5
<1> QED
  BY <1>3, <1>4, <1>5, <1>6 DEF QuietStep

\* A call made under a live claim is about to be counted; any other was allowed
\* for when its handler became stale.
LEMMA CountedSendAudited ==
  ASSUME AuditInvariant, TypeOK', KeepsLiveClaims, NEW w \in Workers, CountedSend(w),
         NEW p \in Payments
  PROVE  Audited(p)' /\ CountersOK'
<1>1. /\ pc[w] = "send" /\ pc' = [pc EXCEPT ![w] = "record"]
      /\ UNCHANGED <<attempts, webhookClaim, webhookExpired, event, mishaps>>
      /\ sends' = [sends EXCEPT ![Target(w)] = sends[Target(w)] + 1]
  BY DEF CountedSend, SendWebhook, Goto
<1>2. TypeOK /\ attempts[p] \in Nat /\ mishaps[p] \in Nat /\ sends[p] \in Nat /\ CountersOK
  BY AttemptsAreNumbers DEF AuditInvariant, InductiveInvariant, CountersOK
<1>3. CountersOK'
  <2>1. Target(w) \in Payments
    BY <1>1, BusyRun DEF AuditInvariant, InductiveInvariant
  <2> QED
    BY <1>1, <1>2, <2>1 DEF CountersOK
<1>4. /\ \A v \in Workers \ {w} : pc'[v] = pc[v]
      /\ pc'[w] = "record" /\ \A v \in Workers : Target(v)' = Target(v)
  BY <1>1, <1>2 DEF TypeOK, Target
<1>5. CASE Target(w) # p
  <2>1. sends'[p] = sends[p]
    BY <1>1, <1>2, <1>5 DEF CountersOK
  <2>2. ~ CountsFor(w, p)
    BY <1>1 DEF CountsFor
  <2> QED
    BY <1>1, <1>2, <1>3, <1>4, <2>1, <2>2, OneMoves
<1>6. CASE Target(w) = p
  <2> DEFINE stale == Cardinality(StaleSenders(p))
             staleNext == Cardinality(StaleSenders(p)')
  <2>1. sends'[p] = sends[p] + 1 /\ attempts'[p] = attempts[p] /\ mishaps'[p] = mishaps[p]
    BY <1>1, <1>2, <1>6 DEF CountersOK
  <2>2. stale \in Nat /\ staleNext \in Nat
    BY StaleIsFinite, StaleIsFiniteNext
  <2>3. StaleSenders(p)' = StaleSenders(p) \ {w}
    BY <1>1, <1>4 DEF StaleSenders
  <2>4. Counting(p) => Counting(p)'
    <3>1. ASSUME NEW v \in Workers, CountsFor(v, p) PROVE CountsFor(v, p)'
      BY <1>1, <1>4, <3>1 DEF CountsFor
    <3> QED
      BY <3>1 DEF Counting
  <2>5. sends[p] + stale <= attempts[p] + mishaps[p] + (IF Counting(p) THEN 1 ELSE 0)
    BY DEF AuditInvariant, Audited
  <2>6. Audited(p)' <=>
          sends'[p] + staleNext <= attempts'[p] + mishaps'[p] + (IF Counting(p)' THEN 1 ELSE 0)
    BY DEF Audited
  <2>7. CASE w \in StaleSenders(p)
    <3>1. staleNext = stale - 1
      BY <2>3, <2>7, StaleIsFinite, FS_RemoveElement
    <3> HIDE DEF stale, staleNext
    <3> QED
      BY <1>2, <1>3, <2>1, <2>2, <2>4, <2>5, <2>6, <3>1
  <2>8. CASE w \notin StaleSenders(p)
    <3>1. StaleSenders(p)' = StaleSenders(p)
      BY <2>3, <2>8
    <3>2. webhookClaim[p] = w /\ p \notin webhookExpired
      BY <1>1, <1>6, <2>8 DEF StaleSenders
    <3>3. CountsFor(w, p)'
      BY <1>1, <1>4, <1>6, <3>2 DEF CountsFor
    <3>4. ~ Counting(p) /\ Counting(p)'
      BY <1>1, <3>2, <3>3 DEF Counting, CountsFor
    <3>5. staleNext = stale
      BY <3>1
    <3> HIDE DEF stale, staleNext
    <3> QED
      BY <1>2, <1>3, <2>1, <2>2, <2>5, <2>6, <3>4, <3>5
  <2> QED
    BY <2>7, <2>8
<1> QED
  BY <1>5, <1>6
\* A mishap is counted once.
LEMMA RationCounts ==
  ASSUME CountersOK, NEW q \in Payments, Ration(q), UNCHANGED sends
  PROVE  /\ CountersOK' /\ mishaps'[q] = mishaps[q] + 1
         /\ \A p \in Payments : mishaps'[p] >= mishaps[p]
<1>1. mishaps' = [mishaps EXCEPT ![q] = mishaps[q] + 1] /\ mishaps[q] + 1 \in Nat
  BY DEF Ration, CountersOK
<1>2. CountersOK'
  BY <1>1 DEF CountersOK
<1>3. \A p \in Payments : mishaps[p] \in Nat /\ mishaps'[p] = IF p = q THEN mishaps[q] + 1 ELSE mishaps[p]
  BY <1>1 DEF CountersOK
<1> QED
  BY <1>2, <1>3

LEMMA FailedRunAudited ==
  ASSUME AuditInvariant, TypeOK', KeepsLiveClaims, NEW w \in Workers, FailedRun(w),
         NEW p \in Payments
  PROVE  Audited(p)' /\ CountersOK'
<1>1. /\ pc[w] # "idle" /\ Return(w)
      /\ webhookExpired' = webhookExpired /\ attempts' = attempts
      /\ Ration(Target(w)) /\ UNCHANGED sends
  BY DEF FailedRun, Nack, Abandon, RecordGatewayFailure, GiveUpGatewayCall
<1>2. TypeOK /\ attempts[p] \in Nat /\ mishaps[p] \in Nat /\ CountersOK
  BY AttemptsAreNumbers DEF AuditInvariant, InductiveInvariant, CountersOK
<1>3. Target(w) \in Payments
  BY <1>1, BusyRun DEF AuditInvariant, InductiveInvariant
<1>4. /\ CountersOK' /\ mishaps'[Target(w)] = mishaps[Target(w)] + 1
      /\ mishaps'[p] >= mishaps[p]
  BY <1>1, <1>2, <1>3, RationCounts
<1>5. /\ pc'[w] = "idle"
      /\ \A v \in Workers \ {w} : pc'[v] = pc[v] /\ event'[v] = event[v]
  BY <1>1, <1>2 DEF Return, TypeOK
<1>6. CountsFor(w, p) => attempts'[p] + mishaps'[p] > attempts[p] + mishaps[p]
  BY <1>1, <1>2, <1>4 DEF CountsFor
<1>7. Audited(p)'
  BY <1>1, <1>2, <1>4, <1>5, <1>6, OneMoves
<1> QED
  BY <1>4, <1>7

LEMMA CleanReceiveAudited ==
  ASSUME AuditInvariant, TypeOK', KeepsLiveClaims, NEW w \in Workers, NEW e \in pendingEvents,
         CleanReceive(w, e), NEW p \in Payments
  PROVE  Audited(p)' /\ CountersOK'
<1>1. /\ pc[w] = "idle" /\ pc' = [pc EXCEPT ![w] = "fetch"]
      /\ event' = [event EXCEPT ![w] = e]
      /\ UNCHANGED <<attempts, webhookExpired, sends, mishaps>>
  BY DEF CleanReceive, Receive, Take, Goto
<1>2. TypeOK /\ attempts[p] \in Nat /\ mishaps[p] \in Nat /\ CountersOK
  BY AttemptsAreNumbers DEF AuditInvariant, InductiveInvariant, CountersOK
<1>3. /\ pc'[w] = "fetch"
      /\ \A v \in Workers \ {w} : pc'[v] = pc[v] /\ event'[v] = event[v]
  BY <1>1, <1>2 DEF TypeOK
<1>4. CountersOK'
  BY <1>1, <1>2 DEF CountersOK
<1>5. Audited(p)'
  BY <1>1, <1>2, <1>3, <1>4, OneMoves DEF CountsFor
<1> QED
  BY <1>4, <1>5

\* A step that moves no handler and lets no webhook claim of p expire.
LEMMA NobodyMovesAudited ==
  ASSUME AuditInvariant, TypeOK', CountersOK', KeepsLiveClaims,
         UNCHANGED <<pc, event, attempts, sends>>,
         NEW p \in Payments, p \in webhookExpired' => p \in webhookExpired,
         mishaps'[p] >= mishaps[p]
  PROVE  Audited(p)'
<1>1. attempts[p] \in Nat
  BY AttemptsAreNumbers DEF AuditInvariant, InductiveInvariant
<1>2. StaleSenders(p)' \subseteq StaleSenders(p)
  BY NobodyGrowsStale DEF Target
<1>3. ~ Counting(p) \/ Counting(p)'
  BY CountingKept DEF Counting
<1> QED
  BY <1>1, <1>2, <1>3, BalanceKept

\* When the claim of a busy handler runs out, the handler becomes stale, or its
\* send will not be counted: one mishap pays for one of the two.
LEMMA OverrunAudited ==
  ASSUME AuditInvariant, TypeOK', NEW p \in Payments, ExpireWebhookClaim(p), CountersOK',
         UNCHANGED sends, \/ ~ WebhookBusy(p) /\ mishaps'[p] >= mishaps[p]
                          \/ mishaps'[p] = mishaps[p] + 1
  PROVE  Audited(p)'
<1> DEFINE stale == Cardinality(StaleSenders(p))
           staleNext == Cardinality(StaleSenders(p)')
           holder == webhookClaim[p]
<1>1. /\ p \notin webhookExpired /\ webhookExpired' = webhookExpired \cup {p}
      /\ UNCHANGED <<pc, event, attempts, webhookClaim>>
  BY DEF ExpireWebhookClaim
<1>2. /\ attempts[p] \in Nat /\ sends[p] \in Nat /\ mishaps[p] \in Nat /\ mishaps'[p] \in Nat
      /\ stale \in Nat /\ staleNext \in Nat
  BY AttemptsAreNumbers, StaleIsFinite, StaleIsFiniteNext
     DEF AuditInvariant, InductiveInvariant, CountersOK
<1>3. sends[p] + stale <= attempts[p] + mishaps[p] + (IF Counting(p) THEN 1 ELSE 0)
  BY DEF AuditInvariant, Audited
<1>4. Audited(p)' <=>
        sends'[p] + staleNext <= attempts'[p] + mishaps'[p] + (IF Counting(p)' THEN 1 ELSE 0)
  BY DEF Audited
<1>5. StaleSenders(p)' = {w \in Workers : pc[w] \in {"build", "send"} /\ Target(w) = p}
  BY <1>1 DEF StaleSenders, Target
<1>6. CASE \E w \in Workers : pc[w] \in {"build", "send"} /\ Target(w) = p /\ webhookClaim[p] = w
  <2>1. PICK w \in Workers : pc[w] \in {"build", "send"} /\ Target(w) = p /\ webhookClaim[p] = w
    BY <1>6
  <2>2. StaleSenders(p)' = StaleSenders(p) \cup {w} /\ w \notin StaleSenders(p)
    BY <1>1, <1>5, <2>1 DEF StaleSenders
  <2>3. staleNext = stale + 1
    BY <2>2, StaleIsFinite, FS_AddElement
  <2>4. ~ Counting(p) /\ WebhookBusy(p)
    BY <2>1 DEF Counting, CountsFor, WebhookBusy, SendingLabels
  <2> HIDE DEF stale, staleNext
  <2> QED
    BY <1>1, <1>2, <1>3, <1>4, <2>3, <2>4
<1>7. CASE ~ \E w \in Workers : pc[w] \in {"build", "send"} /\ Target(w) = p /\ webhookClaim[p] = w
  <2>1. StaleSenders(p)' = StaleSenders(p)
    BY <1>5, <1>7 DEF StaleSenders
  <2>2. Counting(p) => WebhookBusy(p)
    BY DEF Counting, CountsFor, WebhookBusy, SendingLabels
  <2>3. staleNext = stale
    BY <2>1
  <2> HIDE DEF stale, staleNext
  <2> QED
    BY <1>1, <1>2, <1>3, <1>4, <2>2, <2>3
<1> QED
  BY <1>6, <1>7

LEMMA ExpireAudited ==
  ASSUME AuditInvariant, TypeOK', KeepsLiveClaims, NEW q \in Payments, Expire(q),
         NEW p \in Payments
  PROVE  Audited(p)' /\ CountersOK'
<1>1. CountersOK /\ mishaps[p] \in Nat /\ UNCHANGED sends
  BY DEF AuditInvariant, CountersOK, Expire
<1>2. CASE Ration(q)
  <2>1. CountersOK' /\ mishaps'[q] = mishaps[q] + 1 /\ mishaps'[p] >= mishaps[p]
    BY <1>1, <1>2, RationCounts
  <2>2. CASE p = q /\ ExpireWebhookClaim(q)
    BY <1>1, <2>1, <2>2, OverrunAudited
  <2>3. CASE ~ (p = q /\ ExpireWebhookClaim(q))
    BY <1>1, <2>1, <2>3, NobodyMovesAudited DEF Expire, ExpireGatewayClaim, ExpireWebhookClaim
  <2> QED
    BY <2>1, <2>2, <2>3
<1>3. CASE ~ WebhookBusy(q) /\ UNCHANGED mishaps
  <2>1. CountersOK' /\ mishaps'[p] >= mishaps[p]
    BY <1>1, <1>3 DEF CountersOK
  <2>2. CASE p = q /\ ExpireWebhookClaim(q)
    BY <1>1, <1>3, <2>1, <2>2, OverrunAudited
  <2>3. CASE ~ (p = q /\ ExpireWebhookClaim(q))
    BY <1>1, <2>1, <2>3, NobodyMovesAudited DEF Expire, ExpireGatewayClaim, ExpireWebhookClaim
  <2> QED
    BY <2>1, <2>2, <2>3
<1> QED
  BY <1>2, <1>3 DEF Expire

\* Recovery takes claims from nobody who could still count a send.
LEMMA OthersAudited ==
  ASSUME AuditInvariant, TypeOK', KeepsLiveClaims, NEW p \in Payments,
         \/ \E q \in Payments : Submit(q) \/ Recover(q)
         \/ \E e \in Issued : Duplicate(e)
  PROVE  Audited(p)' /\ CountersOK'
<1>1. CountersOK /\ mishaps[p] \in Nat
  BY DEF AuditInvariant, CountersOK
<1>2. CASE \E q \in Payments : Submit(q) \/ Recover(q)
  <2>1. /\ UNCHANGED <<pc, event, attempts, sends, mishaps>>
        /\ webhookExpired' \subseteq webhookExpired
    BY <1>2 DEF Submit, CreatePayment, InsertPayment, Recover, RecoverStaleClaims, ReleaseStaleClaims
  <2>2. CountersOK'
    BY <1>1, <2>1 DEF CountersOK
  <2> QED
    BY <1>1, <2>1, <2>2, NobodyMovesAudited
<1>3. ASSUME NEW e \in Issued, Duplicate(e) PROVE Audited(p)' /\ CountersOK'
  <2>1. UNCHANGED <<pc, event, attempts, sends, webhookExpired>> /\ Ration(e.payment)
    BY <1>3 DEF Duplicate, Republish
  <2>2. e.payment \in Payments
    BY DEF Issued, Events
  <2>3. CountersOK' /\ mishaps'[p] >= mishaps[p]
    BY <1>1, <2>1, <2>2, RationCounts
  <2> QED
    BY <1>1, <2>1, <2>3, NobodyMovesAudited
<1> QED
  BY <1>2, <1>3

\* Both counters are only ever counted up, at one payment.
LEMMA CountersKept ==
  ASSUME CountersOK, AuditNext PROVE CountersOK'
<1>1. sends' = sends \/ \E q : sends' = [sends EXCEPT ![q] = @ + 1]
  BY DEF AuditNext, Submit, Expire, Recover, Work, QuietStep, CountedSend, FailedRun, CleanReceive,
         Duplicate
<1>2. mishaps' = mishaps \/ \E q : mishaps' = [mishaps EXCEPT ![q] = @ + 1]
  BY DEF AuditNext, Submit, Expire, Recover, Work, QuietStep, CountedSend, FailedRun, CleanReceive,
         Duplicate, Ration
<1>3. sends' \in [Payments -> Nat]
  BY <1>1 DEF CountersOK
<1>4. mishaps' \in [Payments -> Nat]
  BY <1>2 DEF CountersOK
<1> QED
  BY <1>3, <1>4 DEF CountersOK

-----------------------------------------------------------------------------
(* The theorem *)

LEMMA InitAudited == AuditInit => AuditInvariant
<1> SUFFICES ASSUME AuditInit PROVE AuditInvariant
  OBVIOUS
<1>1. InductiveInvariant
  BY InitEstablishes DEF AuditInit
<1>2. CountersOK
  BY DEF AuditInit, CountersOK
<1>3. ASSUME NEW p \in Payments PROVE Audited(p)
  <2>1. StaleSenders(p) = {} /\ ~ Counting(p) /\ sends[p] = 0 /\ attempts[p] = 0 /\ mishaps[p] = 0
    BY DEF AuditInit, Init, StaleSenders, Counting, CountsFor
  <2> QED
    BY <2>1, FS_EmptySet DEF Audited
<1> QED
  BY <1>1, <1>2, <1>3 DEF AuditInvariant

LEMMA NextAudited == AuditInvariant /\ [AuditNext]_auditVars => AuditInvariant'
<1> SUFFICES ASSUME AuditInvariant, [AuditNext]_auditVars PROVE AuditInvariant'
  OBVIOUS
<1>1. CASE AuditNext
  <2>1. Next /\ InductiveInvariant
    BY <1>1, AuditStepIsStep DEF AuditInvariant
  <2>2. InductiveInvariant' /\ TypeOK' /\ KeepsLiveClaims
    BY <2>1, NextPreserves, NextKeepsLiveClaims DEF InductiveInvariant
  <2>3. ASSUME NEW p \in Payments PROVE Audited(p)' /\ CountersOK'
    BY <1>1, <2>2, QuietStepAudited, CountedSendAudited, FailedRunAudited, CleanReceiveAudited,
       ExpireAudited, OthersAudited DEF AuditNext, Work
  <2>4. CountersOK'
    BY <1>1, CountersKept DEF AuditInvariant
  <2> QED
    BY <2>2, <2>3, <2>4 DEF AuditInvariant
<1>2. CASE UNCHANGED auditVars
  <2>1. UNCHANGED vars /\ UNCHANGED <<sends, mishaps>>
    BY <1>2 DEF auditVars
  <2>2. InductiveInvariant'
    BY <2>1, NextPreserves DEF AuditInvariant
  <2>3. ASSUME NEW p \in Payments PROVE Audited(p)'
    <3>1. /\ UNCHANGED <<pc, event, attempts, sends, mishaps, webhookClaim, webhookExpired>>
      BY <2>1 DEF vars
    <3>2. StaleSenders(p)' = StaleSenders(p) /\ (Counting(p)' <=> Counting(p))
      BY <3>1 DEF StaleSenders, Counting, CountsFor, Target
    <3> QED
      BY <3>1, <3>2 DEF Audited, AuditInvariant
  <2> QED
    BY <2>1, <2>2, <2>3 DEF AuditInvariant, CountersOK
<1> QED
  BY <1>1, <1>2

THEOREM AuditInvariantHolds == AuditSpec => []AuditInvariant
<1> QED
  BY InitAudited, NextAudited, PTL DEF AuditSpec

\* Every call of a receiver's server was counted as an attempt, is about to be,
\* or belongs to a run that met a mishap: without crashes, duplicates and
\* overruns a receiver is called at most MaxDeliveryAttempts times.
THEOREM SendsAreAccountedFor == AuditSpec => []SendsAccountedFor
<1>1. ASSUME AuditInvariant PROVE SendsAccountedFor
  <2> SUFFICES ASSUME NEW p \in Payments
               PROVE  sends[p] <= attempts[p] + mishaps[p]
                        + Cardinality({w \in Workers : pc[w] = "record" /\ Target(w) = p})
    BY DEF SendsAccountedFor
  <2> DEFINE recording == {w \in Workers : pc[w] = "record" /\ Target(w) = p}
             stale == Cardinality(StaleSenders(p))
             n == Cardinality(recording)
  <2>1. attempts[p] \in Nat /\ mishaps[p] \in Nat /\ sends[p] \in Nat /\ stale \in Nat
    BY <1>1, AttemptsAreNumbers, StaleIsFinite DEF AuditInvariant, InductiveInvariant, CountersOK
  <2>2. IsFiniteSet(recording) /\ n \in Nat
    BY AuditAssumption, FS_Subset, FS_CardinalityType
  <2>3. Counting(p) => n >= 1
    <3>1. Counting(p) => recording # {}
      BY DEF Counting, CountsFor
    <3>2. n = 0 => recording = {}
      BY <2>2, FS_EmptySet
    <3> QED
      BY <2>2, <3>1, <3>2
  <2>4. sends[p] + stale <= attempts[p] + mishaps[p] + (IF Counting(p) THEN 1 ELSE 0)
    BY <1>1 DEF AuditInvariant, Audited
  <2> HIDE DEF stale, n
  <2>5. sends[p] <= attempts[p] + mishaps[p] + n
    BY <2>1, <2>2, <2>3, <2>4
  <2> QED
    BY <2>5 DEF n
<1> QED
  BY <1>1, AuditInvariantHolds, PTL
\* Without crashes, errors, overruns and duplicates a receiver is called at
\* most MaxDeliveryAttempts times, and each of them costs at most one more call.
MishapsBoundSends == \A p \in Payments : sends[p] <= MaxDeliveryAttempts + mishaps[p]

\* A send about to be counted leaves room for itself among the attempts.
LEMMA CountingLeavesRoom ==
  ASSUME InductiveInvariant, NEW p \in Payments, Counting(p)
  PROVE  attempts[p] + 1 <= MaxDeliveryAttempts
<1>1. PICK w \in Workers : CountsFor(w, p)
  BY DEF Counting
<1>2. pc[w] = "record" /\ Target(w) = p /\ HoldsWebhookClaim(w)
  BY <1>1 DEF CountsFor, HoldsWebhookClaim, InductiveInvariant, RunOK, SendingLabels
<1>3. attempts[p] = event[w].attempt /\ AttemptNumber(w) \in Attempts
  BY <1>2, HeldClaim
<1> QED
  BY <1>3, ConfigAssumption DEF AttemptNumber, Attempts

\* The maximum of delivery attempts bounds the calls a receiver gets, up to one
\* for each mishap (README.md:114 says without exception).
THEOREM MaximumHoldsUpToMishaps == AuditSpec => []MishapsBoundSends
<1>1. ASSUME AuditInvariant PROVE MishapsBoundSends
  <2> SUFFICES ASSUME NEW p \in Payments PROVE sends[p] <= MaxDeliveryAttempts + mishaps[p]
    BY DEF MishapsBoundSends
  <2> DEFINE stale == Cardinality(StaleSenders(p))
             counting == IF Counting(p) THEN 1 ELSE 0
  <2>1. mishaps[p] \in Nat /\ sends[p] \in Nat /\ stale \in Nat
    BY <1>1, StaleIsFinite DEF AuditInvariant, CountersOK
  <2>2. attempts[p] \in Nat /\ attempts[p] <= MaxDeliveryAttempts /\ MaxDeliveryAttempts \in Nat
    BY <1>1, ConfigAssumption DEF AuditInvariant, InductiveInvariant, TypeOK, Attempts
  <2>3. sends[p] + stale <= attempts[p] + mishaps[p] + counting
    BY <1>1 DEF AuditInvariant, Audited
  <2>4. counting \in Nat /\ attempts[p] + counting <= MaxDeliveryAttempts
    BY <1>1, <2>2, CountingLeavesRoom DEF AuditInvariant
  <2> HIDE DEF stale, counting
  <2> QED
    BY <2>1, <2>2, <2>3, <2>4
<1> QED
  BY <1>1, AuditInvariantHolds, PTL

\* The audited service is the service: every theorem about PaymentProcessing
\* holds of it too.
THEOREM AuditIsProcessing == AuditSpec => Spec
<1>1. AuditInit => Init
  BY DEF AuditInit
<1>2. [AuditNext]_auditVars => [Next]_vars
  BY AuditStepIsStep DEF auditVars
<1> QED
  BY <1>1, <1>2, PTL DEF AuditSpec, Spec
=============================================================================
