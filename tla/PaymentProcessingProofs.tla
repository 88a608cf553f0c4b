---------------------- MODULE PaymentProcessingProofs ----------------------
(***************************************************************************)
(* Machine-checked proofs about PaymentProcessing, for any number of       *)
(* payments and workers and any maximum of delivery attempts.              *)
(***************************************************************************)
EXTENDS PaymentProcessing, TLAPS

USE DEF row, claims, mailbox, local, OptionOf, Emit, EmitToDlq

-----------------------------------------------------------------------------
(* What a busy handler knows, and what a step of another one leaves alone *)

\* A busy handler has an event, and the event names a payment.
LEMMA BusyRun ==
  ASSUME TypeOK, NEW w \in Workers, RunOK(w), pc[w] # "idle"
  PROVE  /\ event[w] \in Events
         /\ event[w] = [payment |-> Target(w), attempt |-> event[w].attempt]
         /\ Target(w) \in Payments
         /\ event[w].attempt \in Attempts
         /\ event[w] # None
  BY DEF TypeOK, RunOK, Events, Target

\* RunOK of a handler whose local state and whose row a step leaves alone.
LEMMA OtherRun ==
  ASSUME TypeOK, TypeOK', NEW w \in Workers, RunOK(w),
         pc'[w] = pc[w], event'[w] = event[w], note'[w] = note[w],
         outcome'[w] = outcome[w], received \subseteq received',
         event[w] # None =>
           /\ status'[Target(w)] = status[Target(w)]
           /\ attempts'[Target(w)] = attempts[Target(w)]
           /\ Target(w) \in delivered' => Target(w) \in delivered
           /\ webhookClaim'[Target(w)] = w => webhookClaim[Target(w)] = w
  PROVE  RunOK(w)'
  <1>1. CASE event[w] = None
    BY <1>1 DEF RunOK, SendingLabels, TypeOK
  <1>2. CASE event[w] # None
    BY <1>2 DEF RunOK, SendingLabels, Target, Processed
  <1>3. QED BY <1>1, <1>2

\* A handler that has returned satisfies RunOK.
LEMMA ReturnedRun ==
  ASSUME TypeOK, NEW w \in Workers, Return(w)
  PROVE  RunOK(w)'
  BY DEF RunOK, Return, TypeOK, SendingLabels

\* Anchored for a payment whose row, events and handlers a step leaves alone.
LEMMA OtherPayment ==
  ASSUME TypeOK, NEW q \in Payments, Anchored(q), status'[q] = status[q],
         attempts'[q] = attempts[q], q \in delivered => q \in delivered',
         gatewayClaim[q] # None => gatewayClaim'[q] # None,
         webhookClaim[q] # None => webhookClaim'[q] # None,
         deadLetters \subseteq deadLetters',
         \A e \in pendingEvents : e.payment = q => e \in pendingEvents',
         \A v \in Workers : event[v] # None /\ Target(v) = q =>
           pc'[v] = pc[v] /\ event'[v] = event[v]
  PROVE  Anchored(q)'
<1> DEFINE e == [payment |-> q, attempt |-> attempts[q]]
<1>1. e.payment = q /\ e # None
  BY ConfigAssumption DEF TypeOK, Events
<1>2. ASSUME NEW labels, Carried(q, labels) PROVE Carried(q, labels)'
  BY <1>1, <1>2 DEF Carried, Target
<1>3. QED BY <1>2 DEF Anchored, Processed, Finished, DeadLettered

\* A step that changes nothing but the local state of one handler preserves
\* the invariant as soon as that handler is still sound and nobody is stranded.
LEMMA LocalStep ==
  ASSUME InductiveInvariant, NEW w \in Workers,
         UNCHANGED <<row, claims, mailbox, received>>,
         TypeOK', RunOK(w)', NoStrandedPayment',
         \A v \in Workers \ {w} :
           /\ pc'[v] = pc[v] /\ event'[v] = event[v]
           /\ note'[v] = note[v] /\ outcome'[v] = outcome[v],
         event'[w] \in {event[w], None}
  PROVE  InductiveInvariant'
<1>1. EventsLagRows'
  BY DEF InductiveInvariant, EventsLagRows
<1>2. ASSUME NEW v \in Workers PROVE RunOK(v)'
  BY OtherRun DEF InductiveInvariant
<1>3. ASSUME NEW q \in Payments PROVE RowOK(q)'
  BY DEF InductiveInvariant, RowOK, Processed, Finished, DeadLettered
<1>4. NotificationsAgree' /\ DeliveredWasAccepted'
  BY DEF InductiveInvariant, NotificationsAgree, DeliveredWasAccepted
<1>5. DeadLetterIsFinal'
  BY DEF InductiveInvariant, DeadLetterIsFinal, Processed, Target
<1>6. QED BY <1>1, <1>2, <1>3, <1>4, <1>5 DEF InductiveInvariant

\* In particular a handler may return when it carries nothing, that is unless
\* it is on its way to a claim that is still free.
LEMMA QuietReturn ==
  ASSUME InductiveInvariant, NEW w \in Workers, pc[w] # "idle", Return(w),
         UNCHANGED <<row, claims, mailbox, received>>,
         \/ pc[w] \in {"gateway"} \cup SendingLabels
         \/ pc[w] = "refetch" /\ status[Target(w)] = "pending"
         \/ Target(w) \in delivered
         \/ webhookClaim[Target(w)] # None
         \/ pc[w] = "claim_webhook" /\ attempts[Target(w)] # event[w].attempt
  PROVE  InductiveInvariant'
<1>1. TypeOK' /\ RunOK(w)'
  BY ReturnedRun DEF InductiveInvariant, TypeOK, Return, Labels
<1>2. ASSUME NEW q \in Payments PROVE Anchored(q)'
  <2>1. CASE q # Target(w)
    BY <2>1, OtherPayment DEF InductiveInvariant, NoStrandedPayment, Return, TypeOK
  <2>2. CASE q = Target(w)
    <3>1. ASSUME NEW labels, Carried(q, labels),
                 \/ pc[w] \notin labels
                 \/ event[w].attempt # attempts[q]
          PROVE  Carried(q, labels)'
      BY <3>1 DEF Carried, Return, TypeOK, InductiveInvariant
    <3>2. Anchored(q) /\ RowOK(q)
      BY DEF InductiveInvariant, NoStrandedPayment
    <3>3. CASE Processed(q)
      BY <3>1, <3>2, <3>3, <2>2 DEF Anchored, Processed, Finished, DeadLettered,
         SendingLabels, FinalStatuses
    <3>4. CASE ~Processed(q)
      BY <3>1, <3>2, <3>4, <2>2 DEF Anchored, Processed, Finished, DeadLettered,
         SendingLabels, RowOK, InductiveInvariant, RunOK
    <3>5. QED BY <3>3, <3>4
  <2>3. QED BY <2>1, <2>2
<1>3. QED BY <1>1, <1>2, LocalStep DEF Return, InductiveInvariant, TypeOK, NoStrandedPayment

\* A handler that moves on, towards a claim or with one, strands nobody.
LEMMA HandlerMoves ==
  ASSUME InductiveInvariant, NEW w \in Workers, NEW label, pc[w] # "idle",
         Goto(w, label), UNCHANGED <<row, mailbox, event>>,
         NEW q \in Payments, gatewayClaim[q] # None => gatewayClaim'[q] # None,
         webhookClaim[q] # None => webhookClaim'[q] # None,
         q = Target(w) =>
           \/ pc[w] \in {"gateway"} \cup SendingLabels
           \/ status[q] # "pending" /\ webhookClaim'[q] # None
           \/ status[q] = "pending" /\ label = "claim_gateway"
           \/ status[q] = "pending" /\ gatewayClaim'[q] # None
           \/ status[q] # "pending" /\ label \in {"refetch", "claim_webhook"}
  PROVE  Anchored(q)'
<1>1. CASE q # Target(w)
  BY <1>1, OtherPayment DEF InductiveInvariant, NoStrandedPayment, Goto, TypeOK
<1>2. CASE q = Target(w)
  <2>1. ASSUME NEW labels, Carried(q, labels), label \in labels
        PROVE  Carried(q, labels)'
    BY <2>1 DEF Carried, Goto, TypeOK, InductiveInvariant
  <2>2. ASSUME NEW labels, Carried(q, labels), pc[w] \notin labels
        PROVE  Carried(q, labels)'
    BY <2>2 DEF Carried, Goto, TypeOK, InductiveInvariant
  <2>3. Anchored(q)
    BY DEF InductiveInvariant, NoStrandedPayment
  <2>4. QED
    BY <2>1, <2>2, <2>3, <1>2 DEF Anchored, Processed, Finished, DeadLettered,
       FinalStatuses, SendingLabels
<1>3. QED BY <1>1, <1>2

\* A handler that gives its event back to the queue strands nobody, and may
\* release the gateway claim of a payment that is still pending.
LEMMA HandBack ==
  ASSUME InductiveInvariant, TypeOK', NEW w \in Workers, pc[w] # "idle", Return(w),
         pendingEvents' = pendingEvents \cup {event[w]},
         UNCHANGED <<row, webhookClaim, webhookExpired, deadLetters, received>>,
         \A q \in Payments : gatewayClaim[q] # None =>
           gatewayClaim'[q] # None \/ (q = Target(w) /\ status[q] = "pending")
  PROVE  InductiveInvariant'
<1>a. /\ event[w] \in Events /\ event[w] # None
      /\ Target(w) \in Payments /\ event[w].attempt \in Attempts
  BY BusyRun DEF InductiveInvariant
<1>1. ASSUME NEW v \in Workers PROVE RunOK(v)'
  <2>1. CASE v = w
    BY <2>1, ReturnedRun DEF InductiveInvariant
  <2>2. CASE v # w
    BY <2>2, OtherRun DEF InductiveInvariant, Return, TypeOK
  <2>3. QED BY <2>1, <2>2
<1>2. ASSUME NEW q \in Payments PROVE Anchored(q)'
  <2>1. CASE q # Target(w)
    BY <2>1, OtherPayment DEF InductiveInvariant, NoStrandedPayment, Return, TypeOK
  <2>2. CASE q = Target(w)
    <3>1. ASSUME NEW labels, Carried(q, labels) PROVE Carried(q, labels)'
      BY <3>1 DEF Carried, Return, TypeOK, InductiveInvariant
    <3>2. ASSUME NEW labels, status[q] = "pending" PROVE Carried(q, labels)'
      <4>1. attempts[q] = 0 /\ event[w].attempt <= attempts[q]
        BY <3>2, <2>2 DEF InductiveInvariant, RowOK, Processed, FinalStatuses, RunOK
      <4>2. event[w] = [payment |-> q, attempt |-> attempts[q]]
        BY <4>1, <1>a, <2>2 DEF Events, Attempts, Target
      <4>3. QED BY <4>2 DEF Carried
    <3>3. Anchored(q)
      BY DEF InductiveInvariant, NoStrandedPayment
    <3>4. QED
      BY <3>1, <3>2, <3>3 DEF Anchored, Processed, Finished, DeadLettered
  <2>3. QED BY <2>1, <2>2
<1>3. EventsLagRows' /\ \A q \in Payments : RowOK(q)'
  BY DEF InductiveInvariant, EventsLagRows, RowOK, Processed, Finished,
     DeadLettered, RunOK, Target
<1>4. NotificationsAgree' /\ DeliveredWasAccepted'
  BY DEF InductiveInvariant, NotificationsAgree, DeliveredWasAccepted
<1>5. DeadLetterIsFinal'
  BY <1>a DEF InductiveInvariant, DeadLetterIsFinal, Processed, Target, Return, TypeOK
<1>6. QED BY <1>1, <1>2, <1>3, <1>4, <1>5 DEF InductiveInvariant, NoStrandedPayment

-----------------------------------------------------------------------------
(* One lemma per action *)

\* The first read of the row preserves the invariant.
LEMMA FetchPaymentStep ==
  ASSUME InductiveInvariant, NEW w \in Workers, FetchPayment(w)
  PROVE  InductiveInvariant'
<1>a. /\ TypeOK /\ RunOK(w) /\ pc[w] = "fetch" /\ pc[w] # "idle"
      /\ UNCHANGED <<row, claims, mailbox, received>>
  BY DEF InductiveInvariant, FetchPayment
<1>b. event[w] \in Events /\ Target(w) \in Payments
  BY <1>a, BusyRun
<1>1. ASSUME Goto(w, "claim_gateway"), UNCHANGED local, status[Target(w)] = "pending"
      PROVE  InductiveInvariant'
  <2>1. TypeOK' /\ RunOK(w)'
    BY <1>1, <1>a DEF TypeOK, Goto, Labels, RunOK, SendingLabels, Target
  <2>2. NoStrandedPayment'
    BY <1>1, <1>a, HandlerMoves DEF NoStrandedPayment, Processed, FinalStatuses
  <2>3. QED BY <2>1, <2>2, <1>1, <1>a, LocalStep DEF Goto, TypeOK
<1>2. ASSUME Goto(w, "claim_webhook"), UNCHANGED local, Processed(Target(w)) 
      PROVE  InductiveInvariant'
  <2>1. TypeOK' /\ RunOK(w)'
    BY <1>2, <1>a DEF TypeOK, Goto, Labels, RunOK, SendingLabels, Target, Processed
  <2>2. NoStrandedPayment'
    BY <1>2, <1>a, <1>b, HandlerMoves DEF NoStrandedPayment, Processed, FinalStatuses
  <2>3. QED BY <2>1, <2>2, <1>2, <1>a, LocalStep DEF Goto, TypeOK
<1>3. ASSUME Return(w), ~(Processed(Target(w)) /\ Target(w) \notin delivered),
             status[Target(w)] # "pending"
      PROVE  InductiveInvariant'
  <2>1. Target(w) \in delivered
    BY <1>3, <1>a, <1>b DEF RunOK, TypeOK, Processed, Statuses
  <2>2. QED BY <2>1, <1>3, <1>a, QuietReturn
<1>4. QED BY <1>1, <1>2, <1>3, <1>a DEF FetchPayment, CheckDelivery

\* The read after the gateway half preserves the invariant.
LEMMA RefetchPaymentStep ==
  ASSUME InductiveInvariant, NEW w \in Workers, RefetchPayment(w)
  PROVE  InductiveInvariant'
<1>a. /\ TypeOK /\ RunOK(w) /\ pc[w] = "refetch" /\ pc[w] # "idle"
      /\ UNCHANGED <<row, claims, mailbox, received>>
  BY DEF InductiveInvariant, RefetchPayment
<1>b. event[w] \in Events /\ Target(w) \in Payments
  BY <1>a, BusyRun
<1>1. ASSUME Goto(w, "claim_webhook"), UNCHANGED local, Processed(Target(w))
      PROVE  InductiveInvariant'
  <2>1. TypeOK' /\ RunOK(w)'
    BY <1>1, <1>a DEF TypeOK, Goto, Labels, RunOK, SendingLabels, Target, Processed
  <2>2. NoStrandedPayment'
    BY <1>1, <1>a, <1>b, HandlerMoves DEF NoStrandedPayment, Processed, FinalStatuses
  <2>3. QED BY <2>1, <2>2, <1>1, <1>a, LocalStep DEF Goto, TypeOK
<1>2. ASSUME Return(w), ~(Processed(Target(w)) /\ Target(w) \notin delivered)
      PROVE  InductiveInvariant'
  <2>1. status[Target(w)] = "pending" \/ Target(w) \in delivered
    BY <1>2, <1>a, <1>b DEF RunOK, TypeOK, Processed, Statuses
  <2>2. QED BY <2>1, <1>2, <1>a, QuietReturn
<1>3. QED BY <1>1, <1>2 DEF RefetchPayment, CheckDelivery

\* A gateway claim, won or lost, preserves the invariant.
LEMMA ClaimGatewayStep ==
  ASSUME InductiveInvariant, NEW w \in Workers, ClaimGateway(w)
  PROVE  InductiveInvariant'
<1> DEFINE p == Target(w)
<1>a. /\ TypeOK /\ RunOK(w) /\ pc[w] = "claim_gateway" /\ pc[w] # "idle"
      /\ UNCHANGED <<row, webhookClaim, webhookExpired, mailbox, local, received>>
  BY DEF InductiveInvariant, ClaimGateway
<1>b. event[w] \in Events /\ p \in Payments
  BY <1>a, BusyRun
<1>1. CASE GatewayClaimable(p)
  <2>1. /\ Goto(w, "gateway")
        /\ gatewayClaim' = [gatewayClaim EXCEPT ![p] = w]
        /\ gatewayExpired' = gatewayExpired \ {p}
        /\ status[p] = "pending"
    BY <1>1 DEF ClaimGateway, GatewayClaimable
  <2>2. TypeOK'
    BY <2>1, <1>a, <1>b DEF TypeOK, Goto, Labels
  <2>3. ASSUME NEW v \in Workers PROVE RunOK(v)'
    <3>1. CASE v = w
      BY <3>1, <2>1, <1>a DEF RunOK, Goto, TypeOK, SendingLabels, Target
    <3>2. CASE v # w
      BY <3>2, <2>1, <2>2, <1>a, OtherRun DEF InductiveInvariant, Goto, TypeOK
    <3>3. QED BY <3>1, <3>2
  <2>4. NoStrandedPayment'
    BY <2>1, <1>a, <1>b, HandlerMoves, ConfigAssumption DEF NoStrandedPayment, TypeOK
  <2>5. EventsLagRows' /\ \A q \in Payments : RowOK(q)'
    BY <1>a DEF InductiveInvariant, EventsLagRows, RowOK, Processed, Finished, DeadLettered
  <2>6. NotificationsAgree' /\ DeliveredWasAccepted' /\ DeadLetterIsFinal'
    BY <1>a DEF InductiveInvariant, NotificationsAgree, DeliveredWasAccepted,
       DeadLetterIsFinal, Processed, Target
  <2>7. QED BY <2>2, <2>3, <2>4, <2>5, <2>6 DEF InductiveInvariant
<1>2. CASE ~GatewayClaimable(p)
  <2>1. Goto(w, "refetch") /\ UNCHANGED claims
    BY <1>2, <1>a DEF ClaimGateway
  <2>2. TypeOK' /\ RunOK(w)'
    BY <2>1, <1>a DEF TypeOK, Goto, Labels, RunOK, SendingLabels, Target
  <2>3. NoStrandedPayment'
    BY <1>2, <2>1, <1>a, HandlerMoves DEF NoStrandedPayment, GatewayClaimable
  <2>4. QED BY <2>1, <2>2, <2>3, <1>a, LocalStep DEF Goto, TypeOK
<1>3. QED BY <1>1, <1>2

\* A crash or an error of a handler hands its event back and preserves the invariant.
LEMMA NackStep ==
  ASSUME InductiveInvariant, NEW w \in Workers, Nack(w)
  PROVE  InductiveInvariant'
<1>1. TypeOK'
  BY BusyRun DEF Nack, Abandon, InductiveInvariant, TypeOK, Return, Labels
<1>2. QED BY <1>1, HandBack DEF Nack, Abandon

\* A gateway error, recorded or stale, preserves the invariant.
LEMMA RecordGatewayFailureStep ==
  ASSUME InductiveInvariant, NEW w \in Workers, RecordGatewayFailure(w)
  PROVE  InductiveInvariant'
<1>1. CASE HoldsGatewayClaim(w)
  <2>1. /\ pc[w] = "gateway" /\ Return(w) /\ status[Target(w)] = "pending"
        /\ ReleaseGatewayClaim(Target(w))
        /\ pendingEvents' = pendingEvents \cup {event[w]}
        /\ UNCHANGED <<row, webhookClaim, webhookExpired, deadLetters, received>>
    BY <1>1 DEF RecordGatewayFailure, GiveUpGatewayCall, GatewayRetry, HoldsGatewayClaim
  <2>2. TypeOK'
    BY <2>1, BusyRun DEF InductiveInvariant, TypeOK, Return, Labels, ReleaseGatewayClaim
  <2>3. QED
    BY <2>1, <2>2, HandBack DEF ReleaseGatewayClaim, InductiveInvariant, TypeOK
<1>2. CASE ~HoldsGatewayClaim(w)
  BY <1>2, QuietReturn DEF RecordGatewayFailure, GiveUpGatewayCall, GatewayRetry
<1>3. QED BY <1>1, <1>2

\* The gateway's answer, recorded or stale, preserves the invariant.
LEMMA FinalizeGatewayStep ==
  ASSUME InductiveInvariant, NEW w \in Workers, NEW result \in FinalStatuses,
         FinalizeGateway(w, result)
  PROVE  InductiveInvariant'
<1> DEFINE p == Target(w)
<1>a. /\ TypeOK /\ RunOK(w) /\ pc[w] = "gateway" /\ pc[w] # "idle"
      /\ Goto(w, "refetch")
      /\ UNCHANGED <<attempts, delivered, webhookClaim, webhookExpired, mailbox,
                     local, received>>
  BY DEF InductiveInvariant, FinalizeGateway
<1>b. /\ event[w] \in Events /\ p \in Payments /\ event[w].attempt \in Attempts
      /\ event[w] = [payment |-> p, attempt |-> event[w].attempt]
  BY <1>a, BusyRun
<1>1. CASE ~HoldsGatewayClaim(w)
  <2>1. UNCHANGED <<row, claims, mailbox, received>>
    BY <1>1, <1>a DEF FinalizeGateway
  <2>2. TypeOK' /\ RunOK(w)'
    BY <2>1, <1>a DEF TypeOK, Goto, Labels, RunOK, SendingLabels, Target
  <2>3. NoStrandedPayment'
    BY <2>1, <1>a, HandlerMoves, <1>1 DEF NoStrandedPayment
  <2>4. QED BY <2>1, <2>2, <2>3, <1>a, LocalStep DEF Goto, TypeOK
<1>2. CASE HoldsGatewayClaim(w)
  <2>1. /\ status' = [status EXCEPT ![p] = result] /\ ReleaseGatewayClaim(p)
        /\ status[p] = "pending"
    BY <1>2 DEF FinalizeGateway, HoldsGatewayClaim
  <2>2. TypeOK'
    BY <2>1, <1>a, <1>b DEF TypeOK, Goto, Labels, Statuses, ReleaseGatewayClaim
  <2>3. ASSUME NEW v \in Workers PROVE RunOK(v)'
    <3>1. CASE Target(v) # p /\ v # w
      BY <3>1, <2>1, <2>2, <1>a, OtherRun DEF InductiveInvariant, Goto, TypeOK
    <3>2. CASE Target(v) = p \/ v = w
      BY <3>2, <2>1, <1>a, <1>b DEF InductiveInvariant, RunOK, Goto, TypeOK,
         SendingLabels, Target, Processed, FinalStatuses
    <3>3. QED BY <3>1, <3>2
  <2>4. ASSUME NEW q \in Payments PROVE Anchored(q)'
    <3>1. CASE q # p
      BY <3>1, <2>1, <1>a, OtherPayment DEF InductiveInvariant,
         NoStrandedPayment, Goto, TypeOK, ReleaseGatewayClaim
    <3>2. CASE q = p
      <4>1. attempts[p] = 0 /\ event[w].attempt <= attempts[p]
        BY <2>1, <1>a, <1>b DEF InductiveInvariant, RowOK, Processed, FinalStatuses, RunOK
      <4>2. event[w] = [payment |-> p, attempt |-> attempts[p]]
        BY <4>1, <1>b DEF Attempts
      <4>3. QED
        BY <4>2, <3>2, <2>1, <1>a DEF Anchored, Carried, Goto, TypeOK, FinalStatuses
    <3>3. QED BY <3>1, <3>2
  <2>5. EventsLagRows'
    BY <2>1, <1>a, <1>b DEF InductiveInvariant, EventsLagRows, TypeOK, Events, FinalStatuses
  <2>6. ASSUME NEW q \in Payments PROVE RowOK(q)'
    BY <2>1, <1>a, <1>b DEF InductiveInvariant, RowOK, Processed, Finished,
       DeadLettered, TypeOK, FinalStatuses
  <2>7. NotificationsAgree'
    BY <2>1, <1>a, <1>b DEF InductiveInvariant, NotificationsAgree, TypeOK,
       Notifications, FinalStatuses
  <2>8. DeliveredWasAccepted'
    BY <2>1, <1>a, <1>b DEF InductiveInvariant, DeliveredWasAccepted, TypeOK, RowOK, 
       Processed, FinalStatuses
  <2>9. DeadLetterIsFinal'
    BY <2>1, <1>a, <1>b DEF InductiveInvariant, DeadLetterIsFinal, Processed,
       Target, TypeOK, Events, FinalStatuses
  <2>10. QED
    BY <2>2, <2>3, <2>4, <2>5, <2>6, <2>7, <2>8, <2>9
    DEF InductiveInvariant, NoStrandedPayment
<1>3. QED BY <1>1, <1>2

\* A webhook claim, won or lost, preserves the invariant.
LEMMA ClaimWebhookStep ==
  ASSUME InductiveInvariant, NEW w \in Workers, ClaimWebhook(w)
  PROVE  InductiveInvariant'
<1> DEFINE p == Target(w)
<1>a. /\ TypeOK /\ RunOK(w) /\ pc[w] = "claim_webhook" /\ pc[w] # "idle"
      /\ UNCHANGED <<row, gatewayClaim, gatewayExpired, mailbox, received>>
  BY DEF InductiveInvariant, ClaimWebhook
<1>b. event[w] \in Events /\ p \in Payments
  BY <1>a, BusyRun
<1>1. CASE WebhookClaimable(w)
  <2>1. /\ Goto(w, "build") /\ UNCHANGED local
        /\ webhookClaim' = [webhookClaim EXCEPT ![p] = w]
        /\ webhookExpired' = webhookExpired \ {p}
        /\ Processed(p) /\ p \notin delivered /\ attempts[p] = event[w].attempt
    BY <1>1 DEF ClaimWebhook, WebhookClaimable
  <2>2. TypeOK'
    BY <2>1, <1>a, <1>b DEF TypeOK, Goto, Labels, SendingLabels
  <2>3. ASSUME NEW v \in Workers PROVE RunOK(v)'
    <3>1. CASE v = w
      BY <3>1, <2>1, <1>a DEF RunOK, Goto, TypeOK, SendingLabels, Target, Processed
    <3>2. CASE v # w
      BY <3>2, <2>1, <2>2, <1>a, <1>b, OtherRun DEF InductiveInvariant, Goto, TypeOK
    <3>3. QED BY <3>1, <3>2
  <2>4. NoStrandedPayment'
    BY <2>1, <1>a, HandlerMoves, ConfigAssumption
    DEF NoStrandedPayment, TypeOK, Processed, FinalStatuses
  <2>5. EventsLagRows' /\ NotificationsAgree' /\ DeliveredWasAccepted'
    BY <1>a DEF InductiveInvariant, EventsLagRows, NotificationsAgree, DeliveredWasAccepted
  <2>6. ASSUME NEW q \in Payments PROVE RowOK(q)'
    BY <2>1, <1>a DEF InductiveInvariant, RowOK, Processed, Finished, DeadLettered
  <2>7. DeadLetterIsFinal'
    BY <2>1, <1>a, <1>b, BusyRun DEF InductiveInvariant, DeadLetterIsFinal, Processed,
       Target, TypeOK, Events, Attempts
  <2>8. QED
    BY <2>2, <2>3, <2>4, <2>5, <2>6, <2>7 DEF InductiveInvariant
<1>2. CASE ~WebhookClaimable(w)
  <2>1. Return(w) /\ UNCHANGED claims
    BY <1>2, <1>a DEF ClaimWebhook
  <2>2. \/ p \in delivered \/ webhookClaim[p] # None
        \/ attempts[p] # event[w].attempt
    BY <1>2, <1>a DEF WebhookClaimable, RunOK
  <2>3. QED BY <2>1, <2>2, <1>a, QuietReturn
<1>3. QED BY <1>1, <1>2

\* Copying the row into the notification preserves the invariant.
LEMMA BuildNotificationStep ==
  ASSUME InductiveInvariant, NEW w \in Workers, BuildNotification(w)
  PROVE  InductiveInvariant'
<1>a. /\ TypeOK /\ RunOK(w) /\ pc[w] = "build" /\ pc[w] # "idle" /\ Goto(w, "send")
      /\ note' = [note EXCEPT ![w] = status[Target(w)]]
      /\ UNCHANGED <<row, claims, mailbox, event, outcome, received>>
  BY DEF InductiveInvariant, BuildNotification
<1>1. TypeOK' /\ RunOK(w)'
  BY <1>a DEF TypeOK, Goto, Labels, RunOK, SendingLabels, Target, Processed
<1>2. NoStrandedPayment'
  BY <1>a, HandlerMoves DEF NoStrandedPayment, SendingLabels
<1>3. QED BY <1>1, <1>2, <1>a, LocalStep DEF Goto, TypeOK

\* A send, whatever it meets, preserves the invariant.
LEMMA SendWebhookStep ==
  ASSUME InductiveInvariant, NEW w \in Workers, NEW response \in Responses,
         SendWebhook(w, response)
  PROVE  InductiveInvariant'
<1> DEFINE p == Target(w)
<1>a. /\ TypeOK /\ RunOK(w) /\ pc[w] = "send" /\ pc[w] # "idle" /\ Goto(w, "record")
      /\ outcome' = [outcome EXCEPT ![w] = SendResult(response)]
      /\ received' = received \cup Seen(w, response)
      /\ UNCHANGED <<row, claims, mailbox, event, note>>
  BY DEF InductiveInvariant, SendWebhook
<1>b. p \in Payments /\ note[w] \in FinalStatuses /\ note[w] = status[p]
  BY <1>a, BusyRun DEF RunOK, Processed, SendingLabels
<1>c. /\ SendResult(response) \in Outcomes
      /\ SendResult(response) = "ok" <=> response = "2xx"
  <2>1. CASE response = "2xx"
    BY <2>1 DEF SendResult, Outcomes
  <2>2. CASE response \in {"408_425_429", "5xx", "no_answer", "unreachable"}
    <3>1. SendResult(response) = "retryable"
      BY <2>2 DEF SendResult
    <3>2. QED BY <3>1, <2>2 DEF Outcomes
  <2>3. CASE response \in {"3xx", "4xx", "blocked"}
    <3>1. SendResult(response) = "rejected"
      BY <2>3 DEF SendResult
    <3>2. QED BY <3>1, <2>3 DEF Outcomes
  <2>4. QED BY <2>1, <2>2, <2>3 DEF Responses, Answers
<1>d. Seen(w, response) \subseteq Notifications
  <2>1. ASSUME NEW b \in BOOLEAN
        PROVE  [payment |-> p, status |-> note[w], accepted |-> b] \in Notifications
    BY <1>b DEF Notifications
  <2>2. QED BY <2>1, Zenon DEF Seen
<1>1. TypeOK'
  BY <1>a, <1>c, <1>d DEF TypeOK, Goto, Labels, SendingLabels
<1>2. ASSUME NEW v \in Workers PROVE RunOK(v)'
  <2>1. CASE v = w
    BY <2>1, <1>a, <1>b, <1>c DEF RunOK, Goto, TypeOK, SendingLabels, Target,
       Processed, Seen, ReachesReceiver
  <2>2. CASE v # w
    BY <2>2, <1>1, <1>a, OtherRun DEF InductiveInvariant, Goto, TypeOK
  <2>3. QED BY <2>1, <2>2
<1>3. NoStrandedPayment'
  BY <1>a, HandlerMoves DEF NoStrandedPayment, SendingLabels
<1>4. EventsLagRows' /\ \A q \in Payments : RowOK(q)'
  BY <1>a DEF InductiveInvariant, EventsLagRows, RowOK, Processed, Finished, DeadLettered
<1>5. NotificationsAgree' /\ DeliveredWasAccepted'
  BY <1>a, <1>b DEF InductiveInvariant, NotificationsAgree, DeliveredWasAccepted, Seen
<1>6. DeadLetterIsFinal'
  BY <1>a DEF InductiveInvariant, DeadLetterIsFinal, Processed, Target
<1>7. QED BY <1>1, <1>2, <1>3, <1>4, <1>5, <1>6 DEF InductiveInvariant

\* What the conditional UPDATE of a send's result guarantees when it matches.
LEMMA HeldClaim ==
  ASSUME InductiveInvariant, NEW w \in Workers, pc[w] = "record", HoldsWebhookClaim(w)
  PROVE  LET p == Target(w) IN
         /\ ~DeadLettered(p) /\ p \notin delivered /\ Processed(p)
         /\ webhookClaim[p] = w
         /\ attempts[p] = event[w].attempt
         /\ AttemptNumber(w) \in Attempts
         /\ AttemptNumber(w) > attempts[p]
<1> DEFINE p == Target(w)
<1>1. /\ p \in Payments /\ event[w].attempt \in Attempts
  BY BusyRun DEF InductiveInvariant
<1>2. /\ webhookClaim[p] = w /\ p \notin delivered /\ attempts[p] = event[w].attempt
      /\ Processed(p)
  BY DEF HoldsWebhookClaim, InductiveInvariant, RunOK, SendingLabels
<1>3. ~DeadLettered(p)
  BY <1>2, ConfigAssumption DEF DeadLettered, InductiveInvariant, DeadLetterIsFinal
<1>4. attempts[p] # MaxDeliveryAttempts
  BY <1>1, <1>2, <1>3 DEF InductiveInvariant, RowOK, Finished
<1>5. AttemptNumber(w) \in Attempts /\ AttemptNumber(w) > attempts[p]
  BY <1>1, <1>2, <1>4, ConfigAssumption DEF AttemptNumber, Attempts
<1>6. QED BY <1>2, <1>3, <1>5

\* Every handler after the result of a send was recorded by one of them.
LEMMA RunsAfterRecord ==
  ASSUME InductiveInvariant, TypeOK', NEW w \in Workers, Return(w),
         NEW p \in Payments,
         attempts' = [attempts EXCEPT ![p] = AttemptNumber(w)],
         AttemptNumber(w) \in Attempts, AttemptNumber(w) > attempts[p],
         delivered' \subseteq delivered \cup {p}, ReleaseWebhookClaim(p),
         UNCHANGED <<status, received>>
  PROVE  \A v \in Workers : RunOK(v)'
<1> SUFFICES ASSUME NEW v \in Workers PROVE RunOK(v)'
  OBVIOUS
<1>1. CASE v = w
  BY <1>1, ReturnedRun DEF InductiveInvariant
<1>2. CASE v # w /\ (pc[v] = "idle" \/ Target(v) # p)
  <2>1. /\ pc'[v] = pc[v] /\ event'[v] = event[v] /\ note'[v] = note[v]
        /\ outcome'[v] = outcome[v]
        /\ event[v] # None => Target(v) # p
    BY <1>2 DEF Return, InductiveInvariant, TypeOK, RunOK
  <2>2. event[v] # None => Target(v) \in Payments
    BY DEF InductiveInvariant, TypeOK, Target, Events
  <2>3. event[v] # None => /\ attempts'[Target(v)] = attempts[Target(v)]
                          /\ webhookClaim'[Target(v)] = webhookClaim[Target(v)]
    BY <2>1, <2>2 DEF InductiveInvariant, TypeOK, ReleaseWebhookClaim
  <2>4. QED BY <2>1, <2>3, OtherRun DEF InductiveInvariant
<1>3. CASE v # w /\ pc[v] # "idle" /\ Target(v) = p
  <2>1. RunOK(v) /\ v # None /\ event[v].attempt \in Attempts /\ attempts[p] \in Attempts
    BY <1>3, BusyRun, ConfigAssumption DEF InductiveInvariant, TypeOK
  <2>2. event[v].attempt <= attempts'[p]
    BY <2>1, <1>3, ConfigAssumption DEF RunOK, InductiveInvariant, TypeOK, Attempts
  <2>3. webhookClaim'[p] # v
    BY <2>1 DEF ReleaseWebhookClaim, InductiveInvariant, TypeOK
  <2>4. pc'[v] = pc[v] /\ event'[v] = event[v] /\ note'[v] = note[v] /\ outcome'[v] = outcome[v]
    BY <1>3 DEF Return, InductiveInvariant, TypeOK
  <2>5. QED
    BY <2>1, <2>2, <2>3, <2>4, <1>3 DEF RunOK, SendingLabels, Target, Processed
<1>4. QED BY <1>1, <1>2, <1>3

\* Recording a 2xx, or ignoring a stale one, preserves the invariant.
LEMMA RecordWebhookSuccessStep ==
  ASSUME InductiveInvariant, NEW w \in Workers, RecordWebhookSuccess(w)
  PROVE  InductiveInvariant'
<1> DEFINE p == Target(w)
<1>a. /\ TypeOK /\ RunOK(w) /\ pc[w] = "record" /\ pc[w] # "idle" /\ Return(w)
      /\ outcome[w] = "ok"
      /\ UNCHANGED <<status, gatewayClaim, gatewayExpired, mailbox, received>>
  BY DEF InductiveInvariant, RecordWebhookSuccess
<1>b. event[w] \in Events /\ p \in Payments /\ event[w] # None
  BY <1>a, BusyRun
<1>1. CASE ~HoldsWebhookClaim(w)
  BY <1>1, <1>a, QuietReturn DEF RecordWebhookSuccess, SendingLabels
<1>2. CASE HoldsWebhookClaim(w)
  <2>1. /\ attempts' = [attempts EXCEPT ![p] = AttemptNumber(w)]
        /\ delivered' = delivered \cup {p}
        /\ ReleaseWebhookClaim(p)
    BY <1>2 DEF RecordWebhookSuccess
  <2>a. /\ ~DeadLettered(p) /\ p \notin delivered /\ Processed(p)
        /\ webhookClaim[p] = w
        /\ attempts[p] = event[w].attempt
        /\ AttemptNumber(w) \in Attempts /\ AttemptNumber(w) > attempts[p]
    BY <1>2, <1>a, HeldClaim
  <2>2. TypeOK'
    BY <2>1, <2>a, <1>a, <1>b DEF TypeOK, Return, Labels, ReleaseWebhookClaim
  <2>3. \A v \in Workers : RunOK(v)'
    BY <2>1, <2>2, <2>a, <1>a, <1>b, RunsAfterRecord
  <2>4. ASSUME NEW q \in Payments PROVE Anchored(q)'
    <3>1. CASE q # p
      BY <3>1, <2>1, <1>a, OtherPayment DEF InductiveInvariant,
         NoStrandedPayment, Return, TypeOK, ReleaseWebhookClaim
    <3>2. CASE q = p
      BY <3>2, <2>1, <2>a, <1>a DEF Anchored, Processed, Finished, FinalStatuses
    <3>3. QED BY <3>1, <3>2
  <2>5. EventsLagRows'
    BY <2>1, <2>a, <1>a, <1>b DEF InductiveInvariant, EventsLagRows, TypeOK, Events, Attempts
  <2>6. ASSUME NEW q \in Payments PROVE RowOK(q)'
    BY <2>1, <2>a, <1>a, <1>b DEF InductiveInvariant, RowOK, Processed, Finished,
       DeadLettered, TypeOK, ReleaseWebhookClaim
  <2>7. NotificationsAgree'
    BY <1>a DEF InductiveInvariant, NotificationsAgree
  <2>8. DeliveredWasAccepted'
    BY <2>1, <1>a DEF InductiveInvariant, DeliveredWasAccepted, RunOK
  <2>9. DeadLetterIsFinal'
    BY <2>1, <2>a, <1>a, <1>b DEF InductiveInvariant, DeadLetterIsFinal, DeadLettered,
       Processed, Target, TypeOK, Events, Return, ReleaseWebhookClaim
  <2>10. QED
    BY <2>2, <2>3, <2>4, <2>5, <2>6, <2>7, <2>8, <2>9
    DEF InductiveInvariant, NoStrandedPayment
<1>3. QED BY <1>1, <1>2

\* Recording a failed send with its follow-up event, or ignoring a stale one,
\* preserves the invariant.
LEMMA RecordWebhookFailureStep ==
  ASSUME InductiveInvariant, NEW w \in Workers, RecordWebhookFailure(w)
  PROVE  InductiveInvariant'
<1> DEFINE p == Target(w)
<1> DEFINE e == [payment |-> p, attempt |-> AttemptNumber(w)]
<1> DEFINE routing == NextRouting(outcome[w] = "retryable", AttemptNumber(w))
<1>a. /\ TypeOK /\ RunOK(w) /\ pc[w] = "record" /\ pc[w] # "idle" /\ Return(w)
      /\ UNCHANGED <<status, delivered, gatewayClaim, gatewayExpired, received>>
  BY DEF InductiveInvariant, RecordWebhookFailure, CountFailedSend
<1>b. event[w] \in Events /\ p \in Payments /\ event[w] # None
  BY <1>a, BusyRun
<1>1. CASE ~HoldsWebhookClaim(w)
  BY <1>1, <1>a, QuietReturn DEF RecordWebhookFailure, CountFailedSend, FollowUp,
     SendingLabels
<1>2. CASE HoldsWebhookClaim(w)
  <2>1. /\ attempts' = [attempts EXCEPT ![p] = AttemptNumber(w)]
        /\ ReleaseWebhookClaim(p)
        /\ pendingEvents' = pendingEvents \cup FollowUp(w, "retry")
        /\ deadLetters' = deadLetters \cup FollowUp(w, "dlq")
    BY <1>2 DEF RecordWebhookFailure, CountFailedSend
  <2>a. /\ ~DeadLettered(p) /\ p \notin delivered /\ Processed(p)
        /\ webhookClaim[p] = w
        /\ attempts[p] = event[w].attempt
        /\ AttemptNumber(w) \in Attempts /\ AttemptNumber(w) > attempts[p]
    BY <1>2, <1>a, HeldClaim
  <2>b. \/ /\ pendingEvents' = pendingEvents \cup {e} /\ deadLetters' = deadLetters
           /\ AttemptNumber(w) # MaxDeliveryAttempts
        \/ pendingEvents' = pendingEvents /\ deadLetters' = deadLetters \cup {e}
    <3>1. CASE routing = "retry"
      BY <3>1, <2>1, <2>a, <1>2, ConfigAssumption DEF FollowUp, NextRouting, Attempts
    <3>2. CASE routing = "dlq"
      BY <3>2, <2>1, <1>2 DEF FollowUp
    <3>3. QED BY <3>1, <3>2 DEF NextRouting
  <2>c. e \in Events
    BY <2>a, <1>b DEF Events
  <2>2. TypeOK'
    BY <2>1, <2>a, <2>b, <2>c, <1>a, <1>b DEF TypeOK, Return, Labels, ReleaseWebhookClaim
  <2>3. \A v \in Workers : RunOK(v)'
    BY <2>1, <2>2, <2>a, <1>a, <1>b, RunsAfterRecord
  <2>4. ASSUME NEW q \in Payments PROVE Anchored(q)'
    <3>1. CASE q # p
      BY <3>1, <2>1, <2>b, <1>a, OtherPayment DEF InductiveInvariant,
         NoStrandedPayment, Return, TypeOK, ReleaseWebhookClaim
    <3>2. CASE q = p
      BY <3>2, <2>1, <2>a, <2>b, <1>a, <1>b DEF Anchored, Carried, Processed, Finished,
         DeadLettered, FinalStatuses, TypeOK
    <3>3. QED BY <3>1, <3>2
  <2>5. EventsLagRows'
    BY <2>1, <2>a, <2>b, <1>a, <1>b DEF InductiveInvariant, EventsLagRows, TypeOK,
       Events, Attempts, Processed, FinalStatuses
  <2>6. ASSUME NEW q \in Payments PROVE RowOK(q)'
    <3>1. CASE q # p
      BY <3>1, <2>1, <2>b, <1>a, <1>b DEF InductiveInvariant, RowOK, Processed, Finished,
         DeadLettered, TypeOK, ReleaseWebhookClaim
    <3>2. CASE q = p
      <4>1. e.payment = q
        BY <3>2
      <4>2. attempts'[q] = MaxDeliveryAttempts => DeadLettered(q)'
        BY <4>1, <3>2, <2>1, <2>b, <1>a, <1>b DEF DeadLettered, TypeOK
      <4>3. QED
        BY <4>2, <3>2, <2>a, <1>a DEF RowOK, Processed, Finished
    <3>3. QED BY <3>1, <3>2
  <2>7. NotificationsAgree' /\ DeliveredWasAccepted'
    BY <1>a DEF InductiveInvariant, NotificationsAgree, DeliveredWasAccepted
  <2>8. ASSUME NEW d \in deadLetters, d.payment = p PROVE FALSE
    BY <2>8, <2>a DEF DeadLettered
  <2>9. DeadLetterIsFinal'
    <3> SUFFICES ASSUME NEW d \in deadLetters'
                 PROVE  /\ d.payment \notin delivered'
                        /\ Processed(d.payment)'
                        /\ webhookClaim'[d.payment] = None
                        /\ attempts'[d.payment] = d.attempt
                        /\ \A f \in pendingEvents' : f.payment = d.payment
                                                    => f.attempt < d.attempt
                        /\ \A v \in Workers : event'[v] # None /\ event'[v].payment = d.payment
                                             => event'[v].attempt < d.attempt
      BY DEF DeadLetterIsFinal, Target
    <3>1. CASE d \in deadLetters
      BY <3>1, <2>8, <2>1, <2>b, <2>a, <1>a, <1>b DEF InductiveInvariant, DeadLetterIsFinal,
         Processed, Target, TypeOK, Return, ReleaseWebhookClaim
    <3>2. CASE d \notin deadLetters
      <4>1. d = e /\ pendingEvents' = pendingEvents
        BY <3>2, <2>b
      <4>2. \A f \in pendingEvents : f.payment = p => f.attempt < AttemptNumber(w)
        BY <2>a, <1>a, <1>b DEF InductiveInvariant, EventsLagRows, TypeOK, Events, Attempts
      <4>3. ASSUME NEW v \in Workers, event[v] # None, event[v].payment = p
            PROVE  event[v].attempt < AttemptNumber(w)
        <5>1. RunOK(v) /\ pc[v] # "idle"
          BY <4>3 DEF InductiveInvariant, RunOK
        <5>2. event[v].attempt \in Attempts /\ event[v].attempt <= attempts[p]
          BY <5>1, <4>3, <1>a, BusyRun DEF RunOK, Target
        <5>3. QED
          BY <5>2, <2>a, <1>a, <1>b, ConfigAssumption DEF TypeOK, Attempts
      <4>4. QED
        BY <4>1, <4>2, <4>3, <2>1, <2>a, <1>a, <1>b DEF Processed, TypeOK, Return,
           ReleaseWebhookClaim
    <3>3. QED BY <3>1, <3>2
  <2>10. QED
    BY <2>2, <2>3, <2>4, <2>5, <2>6, <2>7, <2>9
    DEF InductiveInvariant, NoStrandedPayment
<1>3. QED BY <1>1, <1>2

\* A new payment with its first event preserves the invariant.
LEMMA CreatePaymentStep ==
  ASSUME InductiveInvariant, NEW p \in Payments, CreatePayment(p)
  PROVE  InductiveInvariant'
<1> DEFINE e == [payment |-> p, attempt |-> 0]
<1>a. /\ TypeOK /\ status[p] = "absent" /\ ~Processed(p)
      /\ status' = [status EXCEPT ![p] = "pending"]
      /\ pendingEvents' = pendingEvents \cup {e}
      /\ UNCHANGED <<attempts, delivered, claims, deadLetters, pc, local, received>>
  BY DEF InductiveInvariant, CreatePayment, InsertPayment, FirstEvent, Processed,
     FinalStatuses
<1>b. e \in Events /\ attempts[p] = 0 /\ p \notin delivered
  BY <1>a, ConfigAssumption DEF Events, Attempts, InductiveInvariant, RowOK
<1>1. TypeOK'
  BY <1>a, <1>b DEF TypeOK, Statuses
<1>2. ASSUME NEW v \in Workers PROVE RunOK(v)'
  <2>1. event[v] # None => Target(v) # p /\ Target(v) \in Payments
    BY <1>a, BusyRun DEF InductiveInvariant, RunOK
  <2>2. QED BY <2>1, <1>1, <1>a, OtherRun DEF InductiveInvariant, TypeOK
<1>3. ASSUME NEW q \in Payments PROVE Anchored(q)'
  <2>1. CASE q # p
    BY <2>1, <1>a, OtherPayment DEF InductiveInvariant, NoStrandedPayment, TypeOK
  <2>2. CASE q = p
    BY <2>2, <1>a, <1>b DEF Anchored, Carried, Processed, FinalStatuses, TypeOK
  <2>3. QED BY <2>1, <2>2
<1>4. EventsLagRows'
  BY <1>a, <1>b DEF InductiveInvariant, EventsLagRows, TypeOK, Events
<1>5. ASSUME NEW q \in Payments PROVE RowOK(q)'
  BY <1>a DEF InductiveInvariant, RowOK, Processed, Finished, DeadLettered,
     FinalStatuses, TypeOK
<1>6. NotificationsAgree' /\ DeliveredWasAccepted'
  BY <1>a, <1>b DEF InductiveInvariant, NotificationsAgree, DeliveredWasAccepted,
     TypeOK, Notifications, FinalStatuses
<1>7. DeadLetterIsFinal'
  BY <1>a, <1>b DEF InductiveInvariant, DeadLetterIsFinal, Processed, Target,
     TypeOK, Events
<1>8. QED
  BY <1>1, <1>2, <1>3, <1>4, <1>5, <1>6, <1>7 DEF InductiveInvariant, NoStrandedPayment

\* Handing an event to a worker preserves the invariant.
LEMMA ReceiveStep ==
  ASSUME InductiveInvariant, NEW w \in Workers, NEW e \in pendingEvents, Receive(w, e)
  PROVE  InductiveInvariant'
<1>a. /\ TypeOK /\ RunOK(w) /\ pc[w] = "idle" /\ event[w] = None
      /\ Goto(w, "fetch") /\ event' = [event EXCEPT ![w] = e]
      /\ e \in Events /\ e # None
      /\ pendingEvents' \in {pendingEvents, pendingEvents \ {e}}
      /\ UNCHANGED <<row, claims, deadLetters, note, outcome, received>>
  BY ConfigAssumption DEF InductiveInvariant, Receive, Take, RunOK, TypeOK
<1>1. TypeOK'
  BY <1>a DEF TypeOK, Goto, Labels
<1>2. ASSUME NEW v \in Workers PROVE RunOK(v)'
  <2>1. CASE v = w
    BY <2>1, <1>a DEF InductiveInvariant, EventsLagRows, RunOK, Goto, TypeOK,
       SendingLabels, Target
  <2>2. CASE v # w
    BY <2>2, <1>1, <1>a, OtherRun DEF InductiveInvariant, Goto, TypeOK
  <2>3. QED BY <2>1, <2>2
<1>3. ASSUME NEW q \in Payments PROVE Anchored(q)'
  <2>1. ASSUME NEW labels, "fetch" \in labels, Carried(q, labels)
        PROVE  Carried(q, labels)'
    <3>1. [payment |-> q, attempt |-> attempts[q]] # None
      BY <1>a, ConfigAssumption DEF TypeOK, Events
    <3>2. QED BY <2>1, <3>1, <1>a DEF Carried, Goto, TypeOK
  <2>2. Anchored(q)
    BY DEF InductiveInvariant, NoStrandedPayment
  <2>3. QED
    BY <2>1, <2>2, <1>a DEF Anchored, Processed, Finished, DeadLettered
<1>4. EventsLagRows' /\ \A q \in Payments : RowOK(q)'
  BY <1>a DEF InductiveInvariant, EventsLagRows, RowOK, Processed, Finished, DeadLettered
<1>5. NotificationsAgree' /\ DeliveredWasAccepted'
  BY <1>a DEF InductiveInvariant, NotificationsAgree, DeliveredWasAccepted
<1>6. DeadLetterIsFinal'
  BY <1>a DEF InductiveInvariant, DeadLetterIsFinal, Processed, Target, TypeOK
<1>7. QED
  BY <1>1, <1>2, <1>3, <1>4, <1>5, <1>6 DEF InductiveInvariant, NoStrandedPayment

\* An event that turns up again, however late, preserves the invariant.
LEMMA RepublishStep ==
  ASSUME InductiveInvariant, NEW e \in Issued, Republish(e)
  PROVE  InductiveInvariant'
<1>a. /\ TypeOK /\ e \in Events /\ e.payment \in Payments
      /\ status[e.payment] # "absent" /\ e.attempt <= attempts[e.payment]
      /\ Finished(e.payment) => e.attempt < attempts[e.payment]
      /\ pendingEvents' = pendingEvents \cup {e}
      /\ UNCHANGED <<row, claims, deadLetters, pc, local, received>>
  BY DEF InductiveInvariant, Republish, Issued, Events
<1>1. TypeOK'
  BY <1>a DEF TypeOK
<1>2. \A v \in Workers : RunOK(v)'
  BY <1>a, <1>1, OtherRun DEF InductiveInvariant
<1>3. \A q \in Payments : RowOK(q)' /\ Anchored(q)'
  BY <1>a DEF InductiveInvariant, NoStrandedPayment, RowOK, Anchored, Carried,
     Processed, Finished, DeadLettered
<1>4. EventsLagRows' /\ NotificationsAgree' /\ DeliveredWasAccepted'
  BY <1>a DEF InductiveInvariant, EventsLagRows, NotificationsAgree, DeliveredWasAccepted
<1>5. DeadLetterIsFinal'
  BY <1>a DEF InductiveInvariant, DeadLetterIsFinal, Finished, DeadLettered, Processed,
     Target
<1>6. QED BY <1>1, <1>2, <1>3, <1>4, <1>5 DEF InductiveInvariant, NoStrandedPayment

\* The passing of time preserves the invariant.
LEMMA ExpireStep ==
  ASSUME InductiveInvariant, NEW p \in Payments,
         ExpireGatewayClaim(p) \/ ExpireWebhookClaim(p)
  PROVE  InductiveInvariant'
<1>a. /\ gatewayExpired' \subseteq Payments /\ webhookExpired' \subseteq Payments
      /\ UNCHANGED <<row, gatewayClaim, webhookClaim, mailbox, pc, local, received>>
  BY DEF ExpireGatewayClaim, ExpireWebhookClaim, InductiveInvariant, TypeOK
<1>1. TypeOK'
  BY <1>a DEF InductiveInvariant, TypeOK
<1>2. \A v \in Workers : RunOK(v)'
  BY <1>a, <1>1, OtherRun DEF InductiveInvariant
<1>3. \A q \in Payments : RowOK(q)' /\ Anchored(q)'
  BY <1>a DEF InductiveInvariant, NoStrandedPayment, RowOK, Anchored, Carried,
     Processed, Finished, DeadLettered
<1>4. EventsLagRows' /\ NotificationsAgree' /\ DeliveredWasAccepted' /\ DeadLetterIsFinal'
  BY <1>a DEF InductiveInvariant, EventsLagRows, NotificationsAgree,
     DeliveredWasAccepted, DeadLetterIsFinal, Processed, Target
<1>5. QED BY <1>1, <1>2, <1>3, <1>4 DEF InductiveInvariant, NoStrandedPayment

\* Releasing a batch of expired claims with their resume events preserves the
\* invariant.
LEMMA RecoverStaleClaimsStep ==
  ASSUME InductiveInvariant, NEW batch \in SUBSET Payments, RecoverStaleClaims(batch)
  PROVE  InductiveInvariant'
<1> DEFINE stuck == {p \in batch : status[p] = "pending"}
<1> DEFINE idle == batch \ stuck
<1>a. /\ gatewayClaim' = [p \in Payments |-> IF p \in stuck THEN None ELSE gatewayClaim[p]]
      /\ gatewayExpired' = gatewayExpired \ stuck
      /\ webhookClaim' = [p \in Payments |-> IF p \in idle THEN None ELSE webhookClaim[p]]
      /\ webhookExpired' = webhookExpired \ idle
      /\ pendingEvents' = pendingEvents \cup ResumeEvents(batch)
      /\ UNCHANGED <<row, deadLetters, pc, local, received>>
  BY DEF RecoverStaleClaims, ReleaseStaleClaims
<1>b. /\ TypeOK
      /\ \A p \in batch : ~DeadLettered(p) /\ status[p] # "absent"
  <2>1. \A p \in batch : \/ status[p] = "pending"
                         \/ webhookClaim[p] # None /\ Processed(p)
    BY DEF RecoverStaleClaims, ReleaseStaleClaims, Recoverable
  <2>2. QED
    BY <2>1 DEF InductiveInvariant, DeadLetterIsFinal, DeadLettered, Processed, FinalStatuses
<1>c. /\ ResumeEvents(batch) \subseteq Events
      /\ \A e \in ResumeEvents(batch) : e.payment \in batch /\ e.attempt = attempts[e.payment]
      /\ \A p \in batch : [payment |-> p, attempt |-> attempts[p]] \in ResumeEvents(batch)
  BY <1>b DEF ResumeEvents, Events, TypeOK
<1> HIDE DEF stuck, idle
<1>1. TypeOK'
  BY <1>a, <1>b, <1>c DEF TypeOK
<1>2. \A q \in Payments : /\ webhookClaim'[q] \in {None, webhookClaim[q]}
                         /\ q \notin batch => /\ webhookClaim'[q] = webhookClaim[q]
                                            /\ gatewayClaim'[q] = gatewayClaim[q]
  BY <1>a DEF stuck, idle
<1>3. ASSUME NEW v \in Workers PROVE RunOK(v)'
  <2>1. event[v] # None => Target(v) \in Payments /\ v # None
    BY <1>b, ConfigAssumption DEF TypeOK, Target, Events
  <2>2. QED BY <2>1, <1>1, <1>2, <1>a, OtherRun DEF InductiveInvariant
<1>4. ASSUME NEW q \in Payments PROVE Anchored(q)'
  <2>1. CASE q \notin batch
    BY <2>1, <1>a, <1>2, <1>b, OtherPayment DEF InductiveInvariant, NoStrandedPayment
  <2>2. CASE q \in batch
    BY <2>2, <1>a, <1>c DEF Anchored, Carried
  <2>3. QED BY <2>1, <2>2
<1>5. EventsLagRows'
  BY <1>a, <1>b, <1>c DEF InductiveInvariant, EventsLagRows, TypeOK, Attempts
<1>6. ASSUME NEW q \in Payments PROVE RowOK(q)'
  BY <1>a, <1>2 DEF InductiveInvariant, RowOK, Processed, Finished, DeadLettered
<1>7. NotificationsAgree' /\ DeliveredWasAccepted'
  BY <1>a DEF InductiveInvariant, NotificationsAgree, DeliveredWasAccepted
<1>8. DeadLetterIsFinal'
  BY <1>a, <1>b, <1>c, <1>2 DEF InductiveInvariant, DeadLetterIsFinal, DeadLettered,
     Processed, Target, TypeOK, Events
<1>9. QED
  BY <1>1, <1>3, <1>4, <1>5, <1>6, <1>7, <1>8 DEF InductiveInvariant, NoStrandedPayment

-----------------------------------------------------------------------------
(* The invariant and the properties that follow from it *)

\* The initial state satisfies the invariant.
LEMMA InitEstablishes == Init => InductiveInvariant
  <1> SUFFICES ASSUME Init PROVE InductiveInvariant
    OBVIOUS
  <1>1. TypeOK
    BY ConfigAssumption DEF Init, TypeOK, Attempts, Statuses, Labels
  <1>2. /\ EventsLagRows /\ NotificationsAgree /\ DeliveredWasAccepted /\ DeadLetterIsFinal
        /\ NoStrandedPayment
    BY DEF Init, EventsLagRows, NotificationsAgree, DeliveredWasAccepted,
       DeadLetterIsFinal, NoStrandedPayment, Anchored, Processed, FinalStatuses
  <1>3. \A w \in Workers : RunOK(w)
    BY DEF Init, RunOK, SendingLabels
  <1>4. \A p \in Payments : RowOK(p)
    BY ConfigAssumption DEF Init, RowOK, Processed, FinalStatuses
  <1>5. QED BY <1>1, <1>2, <1>3, <1>4 DEF InductiveInvariant

\* Every step of the system preserves the invariant.
LEMMA NextPreserves == InductiveInvariant /\ [Next]_vars => InductiveInvariant'
  <1> SUFFICES ASSUME InductiveInvariant, [Next]_vars PROVE InductiveInvariant'
    OBVIOUS
  <1>1. CASE UNCHANGED vars
    <2>1. TypeOK' /\ EventsLagRows' /\ NotificationsAgree' /\ DeliveredWasAccepted'
          /\ DeadLetterIsFinal'
      BY <1>1 DEF vars, InductiveInvariant, TypeOK, EventsLagRows, NotificationsAgree,
         DeliveredWasAccepted, DeadLetterIsFinal, Processed, Target
    <2>2. \A w \in Workers : RunOK(w)'
      BY <1>1, <2>1, OtherRun DEF vars, InductiveInvariant
    <2>3. \A p \in Payments : RowOK(p)' /\ Anchored(p)'
      BY <1>1 DEF vars, InductiveInvariant, NoStrandedPayment, RowOK, Anchored, Carried,
         Processed, Finished, DeadLettered
    <2>4. QED BY <2>1, <2>2, <2>3 DEF InductiveInvariant, NoStrandedPayment
  <1>2. ASSUME NEW p \in Payments,
               CreatePayment(p) \/ ExpireGatewayClaim(p) \/ ExpireWebhookClaim(p)
        PROVE  InductiveInvariant'
    BY <1>2, CreatePaymentStep, ExpireStep
  <1>3. ASSUME NEW w \in Workers, Step(w) PROVE InductiveInvariant'
    BY <1>3, FetchPaymentStep, ClaimGatewayStep, FinalizeGatewayStep,
       RecordGatewayFailureStep, RefetchPaymentStep, ClaimWebhookStep,
       BuildNotificationStep, SendWebhookStep, RecordWebhookSuccessStep,
       RecordWebhookFailureStep DEF Step
  <1>4. ASSUME NEW w \in Workers, Nack(w) PROVE InductiveInvariant'
    BY <1>4, NackStep
  <1>5. ASSUME NEW w \in Workers, NEW e \in pendingEvents, Receive(w, e)
        PROVE  InductiveInvariant'
    BY <1>5, ReceiveStep
  <1>6. ASSUME NEW batch \in SUBSET Payments, RecoverStaleClaims(batch)
        PROVE  InductiveInvariant'
    BY <1>6, RecoverStaleClaimsStep
  <1>7. ASSUME NEW e \in Issued, Republish(e) PROVE InductiveInvariant'
    BY <1>7, RepublishStep
  <1>8. QED BY <1>1, <1>2, <1>3, <1>4, <1>5, <1>6, <1>7 DEF Next

\* The invariant holds in every reachable state, for any number of payments
\* and workers: it is what the conditional updates of processing.py and the
\* recovery transaction maintain between any two awaits.
THEOREM InvariantHolds == Spec => []InductiveInvariant
  <1>1. QED BY InitEstablishes, NextPreserves, PTL DEF Spec

\* Columns and local variables keep their types; webhook_attempts never
\* exceeds WEBHOOK_MAX_DELIVERY_ATTEMPTS.
THEOREM TypeCorrectness == Spec => []TypeOK
  <1>1. InductiveInvariant => TypeOK
    BY DEF InductiveInvariant
  <1>2. QED BY <1>1, InvariantHolds, PTL

\* Receivers only ever see the one recorded outcome of a payment.
THEOREM NotificationAgreement == Spec => []NotificationsAgree
  <1>1. InductiveInvariant => NotificationsAgree
    BY DEF InductiveInvariant
  <1>2. QED BY <1>1, InvariantHolds, PTL

\* A payment marked delivered was accepted by its receiver with that outcome.
THEOREM DeliveryWasAccepted == Spec => []DeliveredWasAccepted
  <1>1. InductiveInvariant => DeliveredWasAccepted
    BY DEF InductiveInvariant
  <1>2. QED BY <1>1, InvariantHolds, PTL

\* No late, duplicated or recovered event touches a dead-lettered payment.
THEOREM DeadLettersAreFinal == Spec => []DeadLetterIsFinal
  <1>1. InductiveInvariant => DeadLetterIsFinal
    BY DEF InductiveInvariant
  <1>2. QED BY <1>1, InvariantHolds, PTL

\* Whatever crashed or was overtaken, every unfinished payment has a claim for
\* recovery to find or an event that can still make progress.
THEOREM NobodyIsStranded == Spec => []NoStrandedPayment
  <1>1. InductiveInvariant => NoStrandedPayment
    BY DEF InductiveInvariant
  <1>2. QED BY <1>1, InvariantHolds, PTL

-----------------------------------------------------------------------------
(* With claim timeouts that exceed the work they cover, as the settings      *)
(* demand, a claim is a lock: no two handlers are at the gateway, or at the  *)
(* webhook, of one payment.  Crashed handlers leave their claims behind;     *)
(* those expire, and that is no exception.                                   *)

\* A handler at work holds an unexpired claim on its payment.
WorkerHoldsClaim(w) ==
  /\ pc[w] = "gateway" => /\ gatewayClaim[Target(w)] = w
                          /\ Target(w) \notin gatewayExpired
  /\ pc[w] \in SendingLabels => /\ webhookClaim[Target(w)] = w
                                /\ Target(w) \notin webhookExpired

PunctualInvariant ==
  InductiveInvariant /\ \A w \in Workers : WorkerHoldsClaim(w)

\* A handler that a step leaves alone keeps its claims, if nobody touches them.
LEMMA KeepsClaim ==
  ASSUME PunctualInvariant, Punctual, NEW v \in Workers,
         pc'[v] = pc[v], event'[v] = event[v],
         pc[v] = "gateway" => gatewayClaim'[Target(v)] = gatewayClaim[Target(v)],
         pc[v] \in SendingLabels => webhookClaim'[Target(v)] = webhookClaim[Target(v)]
  PROVE  WorkerHoldsClaim(v)'
<1>1. pc[v] # "idle" => Target(v) \in Payments
  BY BusyRun DEF PunctualInvariant, InductiveInvariant
<1>2. QED
  BY <1>1 DEF PunctualInvariant, WorkerHoldsClaim, Punctual, GatewayBusy, WebhookBusy,
     Target, SendingLabels

\* Every punctual step keeps every handler at work in possession of its claim.
LEMMA StepKeepsClaims ==
  ASSUME PunctualInvariant, Punctual, NEW w \in Workers, Step(w), NEW v \in Workers
  PROVE  WorkerHoldsClaim(v)'
<1> DEFINE p == Target(w)
<1>a. TypeOK /\ WorkerHoldsClaim(w) /\ WorkerHoldsClaim(v)
  BY DEF PunctualInvariant, InductiveInvariant
<1>b. pc[w] # "idle" /\ event[w] # None /\ p \in Payments
  <2>1. pc[w] # "idle"
    BY DEF Step, FetchPayment, ClaimGateway, FinalizeGateway, RecordGatewayFailure,
       GiveUpGatewayCall, RefetchPayment, ClaimWebhook, BuildNotification, SendWebhook,
       RecordWebhookSuccess, RecordWebhookFailure, CountFailedSend
  <2>2. QED BY <2>1, BusyRun DEF PunctualInvariant, InductiveInvariant
<1>c. ASSUME Return(w), v = w PROVE WorkerHoldsClaim(v)'
  BY <1>c, <1>a DEF Return, TypeOK, WorkerHoldsClaim, SendingLabels
<1>d. ASSUME Return(w), v # w PROVE pc'[v] = pc[v] /\ event'[v] = event[v]
  BY <1>d, <1>a DEF Return, TypeOK
<1>e. ASSUME NEW label, Goto(w, label)
      PROVE  pc'[w] = label /\ (v # w => pc'[v] = pc[v])
  BY <1>e, <1>a DEF Goto, TypeOK
<1>1. CASE FetchPayment(w) \/ RefetchPayment(w)
  <2>1. /\ UNCHANGED claims
        /\ \/ Return(w)
           \/ UNCHANGED event /\ \E label \in {"claim_gateway", "claim_webhook"} : Goto(w, label)
    BY <1>1 DEF FetchPayment, RefetchPayment, CheckDelivery
  <2>2. CASE v # w
    BY <2>1, <2>2, <1>d, <1>e, KeepsClaim
  <2>3. CASE v = w
    BY <2>1, <2>3, <1>c, <1>e DEF WorkerHoldsClaim, SendingLabels
  <2>4. QED BY <2>2, <2>3
<1>2. CASE ClaimGateway(w)
  <2>1. CASE GatewayClaimable(p)
    <3>1. /\ Goto(w, "gateway") /\ UNCHANGED <<event, webhookClaim>>
          /\ gatewayClaim' = [gatewayClaim EXCEPT ![p] = w]
          /\ gatewayExpired' = gatewayExpired \ {p}
          /\ gatewayClaim[p] = None \/ p \in gatewayExpired
      BY <1>2, <2>1 DEF ClaimGateway, GatewayClaimable
    <3>2. CASE v # w
      <4>1. pc[v] = "gateway" => Target(v) # p
        BY <3>1, <1>a, ConfigAssumption DEF WorkerHoldsClaim
      <4>2. QED BY <4>1, <3>1, <3>2, <1>a, <1>e, KeepsClaim DEF TypeOK
    <3>3. CASE v = w
      BY <3>1, <3>3, <1>a, <1>b, <1>e DEF WorkerHoldsClaim, Target, TypeOK, SendingLabels
    <3>4. QED BY <3>2, <3>3
  <2>2. CASE ~GatewayClaimable(p)
    <3>1. Goto(w, "refetch") /\ UNCHANGED <<event, claims>>
      BY <1>2, <2>2 DEF ClaimGateway
    <3>2. QED BY <3>1, <1>e, KeepsClaim DEF WorkerHoldsClaim, SendingLabels
  <2>3. QED BY <2>1, <2>2
<1>3. CASE (\E result \in FinalStatuses : FinalizeGateway(w, result)) \/ RecordGatewayFailure(w)
  <2>1. /\ pc[w] = "gateway" /\ UNCHANGED webhookClaim
        /\ ReleaseGatewayClaim(p) \/ UNCHANGED gatewayClaim
        /\ Return(w) \/ (UNCHANGED event /\ Goto(w, "refetch"))
    BY <1>3 DEF FinalizeGateway, RecordGatewayFailure, GiveUpGatewayCall
  <2>2. CASE v # w
    <3>1. pc[v] = "gateway" => Target(v) # p
      BY <2>1, <2>2, <1>a DEF WorkerHoldsClaim
    <3>2. pc[v] = "gateway" => gatewayClaim'[Target(v)] = gatewayClaim[Target(v)]
      BY <3>1, <2>1, <1>a, BusyRun
      DEF ReleaseGatewayClaim, TypeOK, PunctualInvariant, InductiveInvariant
    <3>3. QED BY <3>2, <2>1, <2>2, <1>d, <1>e, KeepsClaim
  <2>3. CASE v = w
    BY <2>1, <2>3, <1>c, <1>e DEF WorkerHoldsClaim, SendingLabels
  <2>4. QED BY <2>2, <2>3
<1>4. CASE ClaimWebhook(w)
  <2>1. CASE WebhookClaimable(w)
    <3>1. /\ Goto(w, "build") /\ UNCHANGED <<event, gatewayClaim>>
          /\ webhookClaim' = [webhookClaim EXCEPT ![p] = w]
          /\ webhookExpired' = webhookExpired \ {p}
          /\ webhookClaim[p] = None \/ p \in webhookExpired
      BY <1>4, <2>1 DEF ClaimWebhook, WebhookClaimable
    <3>2. CASE v # w
      <4>1. pc[v] \in SendingLabels => Target(v) # p
        BY <3>1, <1>a, ConfigAssumption DEF WorkerHoldsClaim
      <4>2. QED BY <4>1, <3>1, <3>2, <1>a, <1>e, KeepsClaim DEF TypeOK
    <3>3. CASE v = w
      BY <3>1, <3>3, <1>a, <1>b, <1>e DEF WorkerHoldsClaim, Target, TypeOK, SendingLabels
    <3>4. QED BY <3>2, <3>3
  <2>2. CASE ~WebhookClaimable(w)
    <3>1. Return(w) /\ UNCHANGED claims
      BY <1>4, <2>2 DEF ClaimWebhook
    <3>2. QED BY <3>1, <1>c, <1>d, KeepsClaim
  <2>3. QED BY <2>1, <2>2
<1>5. CASE BuildNotification(w) \/ \E response \in Responses : SendWebhook(w, response)
  <2>1. /\ pc[w] \in SendingLabels /\ UNCHANGED <<event, claims>>
        /\ \E label \in SendingLabels : Goto(w, label)
    BY <1>5 DEF BuildNotification, SendWebhook, SendingLabels
  <2>2. CASE v # w
    BY <2>1, <2>2, <1>e, KeepsClaim
  <2>3. CASE v = w
    BY <2>1, <2>3, <1>a, <1>e DEF WorkerHoldsClaim, SendingLabels, Target
  <2>4. QED BY <2>2, <2>3
<1>6. CASE RecordWebhookSuccess(w) \/ RecordWebhookFailure(w)
  <2>1. /\ pc[w] \in SendingLabels /\ UNCHANGED gatewayClaim /\ Return(w)
        /\ ReleaseWebhookClaim(p) \/ UNCHANGED webhookClaim
    BY <1>6 DEF RecordWebhookSuccess, RecordWebhookFailure, CountFailedSend, SendingLabels
  <2>2. CASE v # w
    <3>1. pc[v] \in SendingLabels => Target(v) # p
      BY <2>1, <2>2, <1>a DEF WorkerHoldsClaim
    <3>2. pc[v] \in SendingLabels => webhookClaim'[Target(v)] = webhookClaim[Target(v)]
      BY <3>1, <2>1, <1>a, BusyRun
      DEF ReleaseWebhookClaim, TypeOK, PunctualInvariant, InductiveInvariant, SendingLabels
    <3>3. QED BY <3>2, <2>1, <2>2, <1>d, KeepsClaim
  <2>3. CASE v = w
    BY <2>1, <2>3, <1>c
  <2>4. QED BY <2>2, <2>3
<1>7. QED BY <1>1, <1>2, <1>3, <1>4, <1>5, <1>6 DEF Step

\* Every punctual step preserves the invariant and the possession of claims.
LEMMA PunctualStepPreserves ==
  PunctualInvariant /\ [Next /\ Punctual]_vars => PunctualInvariant'
<1> SUFFICES ASSUME PunctualInvariant, [Next /\ Punctual]_vars PROVE PunctualInvariant'
  OBVIOUS
<1>a. InductiveInvariant /\ TypeOK /\ InductiveInvariant'
  BY NextPreserves DEF PunctualInvariant, InductiveInvariant
<1> SUFFICES ASSUME NEW v \in Workers PROVE WorkerHoldsClaim(v)'
  BY <1>a DEF PunctualInvariant
<1>1. CASE UNCHANGED vars
  BY <1>1 DEF vars, PunctualInvariant, WorkerHoldsClaim, Target
<1>2. ASSUME Punctual, NEW w \in Workers, Step(w) PROVE WorkerHoldsClaim(v)'
  BY <1>2, StepKeepsClaims
<1>3. ASSUME Punctual,
             \/ \E p \in Payments : \/ CreatePayment(p)
                                    \/ ExpireGatewayClaim(p)
                                    \/ ExpireWebhookClaim(p)
             \/ \E e \in Issued : Republish(e)
      PROVE  WorkerHoldsClaim(v)'
  BY <1>3, KeepsClaim
  DEF CreatePayment, InsertPayment, ExpireGatewayClaim, ExpireWebhookClaim, Republish
<1>4. ASSUME Punctual, NEW w \in Workers, Nack(w) PROVE WorkerHoldsClaim(v)'
  <2>1. CASE v = w
    BY <2>1, <1>4, <1>a DEF Nack, Abandon, Return, TypeOK, WorkerHoldsClaim, SendingLabels
  <2>2. CASE v # w
    BY <2>2, <1>4, <1>a, KeepsClaim DEF Nack, Abandon, Return, TypeOK
  <2>3. QED BY <2>1, <2>2
<1>5. ASSUME Punctual, NEW w \in Workers, NEW e \in pendingEvents, Take(w, e)
      PROVE  WorkerHoldsClaim(v)'
  <2>1. CASE v = w
    BY <2>1, <1>5, <1>a DEF Take, Goto, TypeOK, WorkerHoldsClaim, SendingLabels
  <2>2. CASE v # w
    BY <2>2, <1>5, <1>a, KeepsClaim DEF Take, Goto, TypeOK
  <2>3. QED BY <2>1, <2>2
<1>6. ASSUME Punctual, NEW batch \in SUBSET Payments, RecoverStaleClaims(batch)
      PROVE  WorkerHoldsClaim(v)'
  <2>1. pc[v] # "idle" => Target(v) \in Payments /\ RunOK(v) /\ WorkerHoldsClaim(v)
    BY <1>a, BusyRun DEF InductiveInvariant, PunctualInvariant
  <2>2. /\ batch \subseteq Recoverable
        /\ gatewayClaim' = [q \in Payments |->
             IF q \in {r \in batch : status[r] = "pending"} THEN None ELSE gatewayClaim[q]]
        /\ webhookClaim' = [q \in Payments |->
             IF q \in batch \ {r \in batch : status[r] = "pending"} THEN None ELSE webhookClaim[q]]
        /\ UNCHANGED <<status, pc, event>>
    BY <1>6 DEF RecoverStaleClaims, ReleaseStaleClaims
  <2>3. pc[v] = "gateway" => gatewayClaim'[Target(v)] = gatewayClaim[Target(v)]
    BY <2>1, <2>2 DEF WorkerHoldsClaim, Recoverable, Processed, FinalStatuses
  <2>4. pc[v] \in SendingLabels => webhookClaim'[Target(v)] = webhookClaim[Target(v)]
    BY <2>1, <2>2 DEF WorkerHoldsClaim, Recoverable, Processed, FinalStatuses, SendingLabels
  <2>5. QED BY <2>2, <2>3, <2>4, <1>6, KeepsClaim
<1>7. QED
  BY <1>1, <1>2, <1>3, <1>4, <1>5, <1>6 DEF Next, Receive

\* With punctual holders every handler at work owns its claim.
LEMMA PunctualInvariantHolds == PunctualSpec => []PunctualInvariant
<1>1. Init => PunctualInvariant
  BY InitEstablishes DEF Init, PunctualInvariant, WorkerHoldsClaim, SendingLabels
<1>2. QED BY <1>1, PunctualStepPreserves, PTL DEF PunctualSpec

\* Two handlers are never at the gateway for one payment.
THEOREM GatewayExclusive == PunctualSpec => []ExclusiveGatewayCall
<1>1. PunctualInvariant => ExclusiveGatewayCall
  BY DEF PunctualInvariant, WorkerHoldsClaim, ExclusiveGatewayCall
<1>2. QED BY <1>1, PunctualInvariantHolds, PTL

\* Two handlers are never sending one payment's webhook.
THEOREM WebhookExclusive == PunctualSpec => []ExclusiveWebhookDelivery
<1>1. PunctualInvariant => ExclusiveWebhookDelivery
  BY DEF PunctualInvariant, WorkerHoldsClaim, ExclusiveWebhookDelivery
<1>2. QED BY <1>1, PunctualInvariantHolds, PTL

-----------------------------------------------------------------------------
(* Overtaken handlers, in any execution *)

\* A claim column that a step leaves alone is kept.
LEMMA UntouchedClaims ==
  ASSUME UNCHANGED <<gatewayClaim, webhookClaim>> PROVE KeepsLiveClaims
  BY DEF KeepsLiveClaims

\* Every step of a handler leaves the live claims of the others alone.
LEMMA StepKeepsLiveClaims ==
  ASSUME InductiveInvariant, NEW w \in Workers, Step(w)
  PROVE  KeepsLiveClaims
<1>a. /\ TypeOK /\ (pc[w] # "idle" => Target(w) \in Payments)
  BY BusyRun DEF InductiveInvariant
<1>1. CASE ClaimGateway(w)
  BY <1>1, <1>a, ConfigAssumption
  DEF ClaimGateway, GatewayClaimable, KeepsLiveClaims, TypeOK
<1>2. CASE ClaimWebhook(w)
  BY <1>2, <1>a, ConfigAssumption
  DEF ClaimWebhook, WebhookClaimable, KeepsLiveClaims, TypeOK
<1>3. CASE \E result \in FinalStatuses : FinalizeGateway(w, result)
  BY <1>3, <1>a
  DEF FinalizeGateway, HoldsGatewayClaim, ReleaseGatewayClaim, Goto, KeepsLiveClaims, TypeOK
<1>4. CASE RecordGatewayFailure(w)
  BY <1>4, <1>a
  DEF RecordGatewayFailure, GiveUpGatewayCall, HoldsGatewayClaim, ReleaseGatewayClaim,
      Return, KeepsLiveClaims, TypeOK
<1>5. CASE RecordWebhookSuccess(w) \/ RecordWebhookFailure(w)
  <2>1. /\ pc[w] = "record" /\ Return(w) /\ UNCHANGED gatewayClaim
        /\ \/ HoldsWebhookClaim(w) /\ ReleaseWebhookClaim(Target(w))
           \/ UNCHANGED webhookClaim
    BY <1>5 DEF RecordWebhookSuccess, RecordWebhookFailure, CountFailedSend
  <2>2. QED
    BY <2>1, <1>a
    DEF HoldsWebhookClaim, ReleaseWebhookClaim, Return, KeepsLiveClaims, TypeOK
<1>6. CASE \/ FetchPayment(w) \/ RefetchPayment(w) \/ BuildNotification(w)
           \/ \E response \in Responses : SendWebhook(w, response)
  BY <1>6, UntouchedClaims
  DEF FetchPayment, RefetchPayment, BuildNotification, SendWebhook
<1>7. QED BY <1>1, <1>2, <1>3, <1>4, <1>5, <1>6 DEF Step

LEMMA NextKeepsLiveClaims ==
  ASSUME InductiveInvariant, Next PROVE KeepsLiveClaims
<1>1. ASSUME \/ \E p \in Payments : \/ CreatePayment(p)
                                    \/ ExpireGatewayClaim(p)
                                    \/ ExpireWebhookClaim(p)
             \/ \E e \in Issued : Republish(e)
      PROVE  KeepsLiveClaims
  BY <1>1, UntouchedClaims
  DEF CreatePayment, InsertPayment, ExpireGatewayClaim, ExpireWebhookClaim, Republish
<1>2. ASSUME NEW w \in Workers, Step(w) PROVE KeepsLiveClaims
  BY <1>2, StepKeepsLiveClaims
<1>3. ASSUME NEW w \in Workers,
             Nack(w) \/ \E e \in pendingEvents : Receive(w, e)
      PROVE  KeepsLiveClaims
  BY <1>3, UntouchedClaims DEF Nack, Abandon, Receive, Take
<1>4. ASSUME NEW batch \in SUBSET Payments, RecoverStaleClaims(batch)
      PROVE  KeepsLiveClaims
  BY <1>4 DEF RecoverStaleClaims, ReleaseStaleClaims, Recoverable, KeepsLiveClaims,
     Processed, FinalStatuses
<1>5. QED BY <1>1, <1>2, <1>3, <1>4 DEF Next

\* Late answers, errors and sends, and the recovery of other claims, never take
\* a live claim from its holder.
THEOREM LiveClaimsKept == Spec => LiveClaimsAreKept
<1>1. InductiveInvariant /\ [Next]_vars => [KeepsLiveClaims]_vars
  BY NextKeepsLiveClaims
<1>2. QED BY <1>1, InvariantHolds, PTL DEF Spec, LiveClaimsAreKept

-----------------------------------------------------------------------------
(* PaymentProcessing implements PaymentLifecycle: each step is a step of the *)
(* lifecycle of one payment, or leaves every lifecycle alone.                *)

USE DEF WebhookFate

\* A step that changes neither the row columns nor the dead letters stutters.
LEMMA Stutter ==
  ASSUME UNCHANGED <<status, attempts, delivered, deadLetters>>
  PROVE  UNCHANGED Lifecycle!lifecycle
  BY DEF Lifecycle!lifecycle, DeadLettered

\* Only FinalizeGateway decides, and only a pending payment.
LEMMA FinalizeRefines ==
  ASSUME InductiveInvariant, NEW w \in Workers, NEW result \in FinalStatuses,
         FinalizeGateway(w, result)
  PROVE  [Lifecycle!Next]_(Lifecycle!lifecycle)
<1>1. CASE HoldsGatewayClaim(w)
  <2>1. /\ Target(w) \in Payments /\ status[Target(w)] = "pending"
        /\ status' = [status EXCEPT ![Target(w)] = result]
        /\ UNCHANGED <<attempts, delivered, deadLetters>>
    BY <1>1, BusyRun DEF FinalizeGateway, HoldsGatewayClaim, InductiveInvariant
  <2>2. Lifecycle!Decide(Target(w), result)
    BY <2>1 DEF Lifecycle!Decide, DeadLettered
  <2>3. QED
    BY <2>1, <2>2 DEF Lifecycle!Next, Lifecycle!FinalDecisions, FinalStatuses
<1>2. CASE ~HoldsGatewayClaim(w)
  BY <1>2, Stutter DEF FinalizeGateway
<1>3. QED BY <1>1, <1>2

\* A recorded 2xx delivers a waiting payment, or nothing happens.
LEMMA SuccessRefines ==
  ASSUME InductiveInvariant, NEW w \in Workers, RecordWebhookSuccess(w)
  PROVE  [Lifecycle!Next]_(Lifecycle!lifecycle)
<1> DEFINE p == Target(w)
<1>1. CASE HoldsWebhookClaim(w)
  <2>1. /\ pc[w] = "record"
        /\ attempts' = [attempts EXCEPT ![p] = AttemptNumber(w)]
        /\ delivered' = delivered \cup {p}
        /\ UNCHANGED <<status, deadLetters>>
    BY <1>1 DEF RecordWebhookSuccess
  <2>2. /\ p \in Payments /\ ~DeadLettered(p) /\ p \notin delivered /\ Processed(p)
        /\ attempts[p] \in Attempts /\ attempts[p] # MaxDeliveryAttempts
        /\ AttemptNumber(w) = attempts[p] + 1
    BY <1>1, <2>1, HeldClaim, BusyRun, ConfigAssumption
    DEF InductiveInvariant, TypeOK, AttemptNumber, RowOK, Finished
  <2>3. attempts[p] < MaxDeliveryAttempts
    BY <2>2, ConfigAssumption DEF Attempts
  <2>4. ASSUME NEW q \in Payments, q = p PROVE Lifecycle!Deliver(q)
    <3>1. WebhookFate' = [WebhookFate EXCEPT ![q] = "delivered"]
      BY <2>1, <2>2, <2>4 DEF DeadLettered
    <3>2. WebhookFate[q] = "waiting"
      BY <2>2, <2>4
    <3>3. QED
      BY <3>1, <3>2, <2>1, <2>2, <2>3, <2>4 DEF Lifecycle!Deliver,
         Lifecycle!FinalDecisions, Processed, FinalStatuses, InductiveInvariant, TypeOK
  <2>5. QED BY <2>2, <2>4 DEF Lifecycle!Next
<1>2. CASE ~HoldsWebhookClaim(w)
  BY <1>2, Stutter DEF RecordWebhookSuccess
<1>3. QED BY <1>1, <1>2

\* A recorded failure is a failed attempt of a waiting payment, and the last one
\* allowed gives up; or nothing happens.
LEMMA FailureRefines ==
  ASSUME InductiveInvariant, NEW w \in Workers, RecordWebhookFailure(w)
  PROVE  [Lifecycle!Next]_(Lifecycle!lifecycle)
<1> DEFINE p == Target(w)
<1> DEFINE e == [payment |-> p, attempt |-> AttemptNumber(w)]
<1> DEFINE routing == NextRouting(outcome[w] = "retryable", AttemptNumber(w))
<1>1. CASE HoldsWebhookClaim(w)
  <2>1. /\ pc[w] = "record"
        /\ attempts' = [attempts EXCEPT ![p] = AttemptNumber(w)]
        /\ deadLetters' = deadLetters \cup FollowUp(w, "dlq")
        /\ UNCHANGED <<status, delivered>>
    BY <1>1 DEF RecordWebhookFailure, CountFailedSend
  <2>2. /\ p \in Payments /\ ~DeadLettered(p) /\ p \notin delivered /\ Processed(p)
        /\ attempts[p] \in Attempts /\ attempts[p] # MaxDeliveryAttempts
        /\ AttemptNumber(w) = attempts[p] + 1
    BY <1>1, <2>1, HeldClaim, BusyRun, ConfigAssumption
    DEF InductiveInvariant, TypeOK, AttemptNumber, RowOK, Finished
  <2>3. attempts[p] < MaxDeliveryAttempts
    BY <2>2, ConfigAssumption DEF Attempts
  <2>4. \/ deadLetters' = deadLetters /\ AttemptNumber(w) # MaxDeliveryAttempts
        \/ deadLetters' = deadLetters \cup {e}
    <3>1. CASE routing = "retry"
      BY <3>1, <2>1, <2>2, ConfigAssumption DEF FollowUp, NextRouting, Attempts
    <3>2. CASE routing = "dlq"
      BY <3>2, <2>1, <1>1 DEF FollowUp
    <3>3. QED BY <3>1, <3>2 DEF NextRouting
  <2>5. ASSUME NEW q \in Payments, q = p
        PROVE  \E next \in {"waiting", "given_up"} : Lifecycle!FailAttempt(q, next)
    <3>1. WebhookFate[q] = "waiting"
      BY <2>2, <2>5
    <3>2. CASE deadLetters' = deadLetters /\ AttemptNumber(w) # MaxDeliveryAttempts
      <4>1. WebhookFate' = [WebhookFate EXCEPT ![q] = "waiting"]
        BY <3>1, <3>2, <2>1 DEF DeadLettered
      <4>2. Lifecycle!FailAttempt(q, "waiting")
        BY <4>1, <3>1, <3>2, <2>1, <2>2, <2>3, <2>5 DEF Lifecycle!FailAttempt,
           Lifecycle!FinalDecisions, Processed, FinalStatuses, InductiveInvariant, TypeOK
      <4>3. QED BY <4>2
    <3>3. CASE deadLetters' = deadLetters \cup {e}
      <4>1. e.payment = q
        BY <2>5
      <4>2. WebhookFate' = [WebhookFate EXCEPT ![q] = "given_up"]
        BY <4>1, <3>3, <2>1, <2>2, <2>5 DEF DeadLettered
      <4>3. Lifecycle!FailAttempt(q, "given_up")
        BY <4>2, <3>1, <2>1, <2>2, <2>3, <2>5 DEF Lifecycle!FailAttempt,
           Lifecycle!FinalDecisions, Processed, FinalStatuses, InductiveInvariant, TypeOK
      <4>4. QED BY <4>3
    <3>4. QED BY <3>2, <3>3, <2>4
  <2>6. QED BY <2>2, <2>5 DEF Lifecycle!Next
<1>2. CASE ~HoldsWebhookClaim(w)
  BY <1>2, Stutter DEF RecordWebhookFailure, CountFailedSend, FollowUp
<1>3. QED BY <1>1, <1>2

\* A new payment is accepted.
LEMMA CreateRefines ==
  ASSUME InductiveInvariant, NEW p \in Payments, CreatePayment(p)
  PROVE  [Lifecycle!Next]_(Lifecycle!lifecycle)
<1>1. UNCHANGED WebhookFate
  BY DEF CreatePayment, InsertPayment, DeadLettered
<1>2. Lifecycle!Accept(p)
  BY <1>1 DEF CreatePayment, InsertPayment, Lifecycle!Accept
<1>3. QED BY <1>2 DEF Lifecycle!Next

\* The initial states correspond.
LEMMA InitRefines == Init => Lifecycle!Init
  BY DEF Init, Lifecycle!Init, DeadLettered

\* Every step is a step of the lifecycle or leaves it alone.
LEMMA NextRefines ==
  InductiveInvariant /\ [Next]_vars => [Lifecycle!Next]_(Lifecycle!lifecycle)
<1> SUFFICES ASSUME InductiveInvariant, [Next]_vars
             PROVE  [Lifecycle!Next]_(Lifecycle!lifecycle)
  OBVIOUS
<1>1. CASE UNCHANGED vars
  BY <1>1, Stutter DEF vars
<1>2. ASSUME NEW p \in Payments, ExpireGatewayClaim(p) \/ ExpireWebhookClaim(p)
      PROVE  UNCHANGED Lifecycle!lifecycle
  BY <1>2, Stutter DEF ExpireGatewayClaim, ExpireWebhookClaim
<1>3. ASSUME \/ \E w \in Workers, e \in pendingEvents : Receive(w, e)
             \/ \E e \in Issued : Republish(e)
      PROVE  UNCHANGED Lifecycle!lifecycle
  BY <1>3, Stutter DEF Receive, Take, Republish
<1>4. ASSUME NEW w \in Workers, Nack(w) PROVE UNCHANGED Lifecycle!lifecycle
  BY <1>4, Stutter DEF Nack, Abandon
<1>5. ASSUME NEW batch \in SUBSET Payments, RecoverStaleClaims(batch)
      PROVE  UNCHANGED Lifecycle!lifecycle
  BY <1>5, Stutter DEF RecoverStaleClaims, ReleaseStaleClaims
<1>6. ASSUME NEW w \in Workers, Step(w)
      PROVE  [Lifecycle!Next]_(Lifecycle!lifecycle)
  <2>1. ASSUME \/ FetchPayment(w) \/ ClaimGateway(w) \/ RecordGatewayFailure(w)
               \/ RefetchPayment(w) \/ ClaimWebhook(w) \/ BuildNotification(w)
               \/ \E response \in Responses : SendWebhook(w, response)
        PROVE  UNCHANGED <<status, attempts, delivered, deadLetters>>
    BY <2>1 DEF FetchPayment, ClaimGateway, RecordGatewayFailure, GiveUpGatewayCall,
       RefetchPayment, ClaimWebhook, BuildNotification, SendWebhook
  <2>2. QED
    BY <1>6, <2>1, Stutter, FinalizeRefines, SuccessRefines, FailureRefines DEF Step
<1>7. QED
  BY <1>1, <1>2, <1>3, <1>4, <1>5, <1>6, CreateRefines DEF Next

\* However handlers, crashes, expiries and recovery interleave, a payment is
\* decided once, each attempt counted once, and it ends delivered or given up
\* once, within the configured number of attempts.
THEOREM ProcessingImplementsLifecycle == Spec => ImplementsLifecycle
<1>1. QED
  BY InitRefines, NextRefines, InvariantHolds, PTL DEF Spec, ImplementsLifecycle, Lifecycle!Spec
=============================================================================
