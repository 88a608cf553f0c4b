--------------------------- MODULE DeliveryAudit ---------------------------
(***************************************************************************)
(* PaymentProcessing observed from outside: how often a receiver's server  *)
(* was called for a payment, and how often something went wrong for it.    *)
(* The two counters are history only; they never influence a step, except  *)
(* that mishaps are rationed, which is the assumption the liveness         *)
(* properties need: failures eventually cease.                             *)
(***************************************************************************)
EXTENDS PaymentProcessing

CONSTANT MaxMishaps      \* bound: mishaps per payment

ASSUME AuditAssumption == MaxMishaps \in Nat /\ IsFiniteSet(Workers)

VARIABLES
  sends,      \* sends[p]: calls of HttpWebhookSender.send for p
  mishaps     \* mishaps[p]: crashes, errors, overruns and duplicates met by p

auditVars == <<vars, sends, mishaps>>

AuditInit ==
  /\ Init
  /\ sends   = [p \in Payments |-> 0]
  /\ mishaps = [p \in Payments |-> 0]

-----------------------------------------------------------------------------
(* Steps of the service, with their effect on the counters *)

\* A mishap of p, allowed while p's ration lasts.
Ration(p) ==
  /\ mishaps[p] < MaxMishaps
  /\ mishaps' = [mishaps EXCEPT ![p] = @ + 1]

CountedSend(w) ==
  /\ \E response \in Responses : SendWebhook(w, response)
  /\ sends' = [sends EXCEPT ![Target(w)] = @ + 1]
  /\ UNCHANGED mishaps

\* The steps of a handler that neither send nor fail.
QuietStep(w) ==
  /\ \/ FetchPayment(w)
     \/ ClaimGateway(w)
     \/ \E result \in FinalStatuses : FinalizeGateway(w, result)
     \/ RefetchPayment(w)
     \/ ClaimWebhook(w)
     \/ BuildNotification(w)
     \/ RecordWebhookSuccess(w)
     \/ RecordWebhookFailure(w)
  /\ UNCHANGED <<sends, mishaps>>

Work(w) == QuietStep(w) \/ CountedSend(w)

FailedRun(w) ==
  /\ Nack(w) \/ RecordGatewayFailure(w)
  /\ Ration(Target(w))
  /\ UNCHANGED sends

CleanReceive(w, e) ==
  Receive(w, e) /\ e \notin pendingEvents' /\ UNCHANGED <<sends, mishaps>>

Duplicate(e) ==
  e \notin pendingEvents /\ Republish(e) /\ Ration(e.payment) /\ UNCHANGED sends

\* A claim expires: a mishap when its holder is still at work.
Expire(p) ==
  /\ ExpireGatewayClaim(p) \/ ExpireWebhookClaim(p)
  /\ IF GatewayBusy(p) \/ WebhookBusy(p) THEN Ration(p) ELSE UNCHANGED mishaps
  /\ UNCHANGED sends

Submit(p) == CreatePayment(p) /\ UNCHANGED <<sends, mishaps>>

Recover(p) ==
  /\ \E batch \in SUBSET Payments : p \in batch /\ RecoverStaleClaims(batch)
  /\ UNCHANGED <<sends, mishaps>>

AuditNext ==
  \/ \E p \in Payments : Submit(p) \/ Expire(p) \/ Recover(p)
  \/ \E w \in Workers : \/ Work(w)
                        \/ FailedRun(w)
                        \/ \E e \in pendingEvents : CleanReceive(w, e)
  \/ \E e \in Issued : Duplicate(e)

AuditSpec == AuditInit /\ [][AuditNext]_auditVars

-----------------------------------------------------------------------------
(* Fairness *)

\* The event loop runs every handler on (the gateway simulator sleeps for at
\* most its maximum delay, sends are under asyncio.timeout, statements
\* return); the relay and the broker keep delivering what is unacknowledged,
\* to a pool of consumers in which each event gets its turn; time passes; and
\* run_claim_recovery polls for ever, oldest rows first.
Fairness ==
  /\ \A w \in Workers : WF_auditVars(Work(w))
  /\ \A e \in Events : SF_auditVars(\E w \in Workers : CleanReceive(w, e))
  /\ \A p \in Payments : WF_auditVars(Expire(p)) /\ WF_auditVars(Recover(p))

FairSpec == AuditSpec /\ Fairness

-----------------------------------------------------------------------------
(* Properties *)

\* Every call of the receiver's server is accounted for: it was counted as an
\* attempt, is about to be, or belongs to a run that met a mishap.  So without
\* crashes and overruns a receiver is called at most MaxDeliveryAttempts times.
SendsAccountedFor ==
  \A p \in Payments :
    sends[p] <= attempts[p] + mishaps[p]
                + Cardinality({w \in Workers : pc[w] = "record" /\ Target(w) = p})

\* README.md:114 "maximum delivery attempts per webhook: `3` total".
AtMostMaxSends == \A p \in Payments : sends[p] <= MaxDeliveryAttempts

\* Every accepted payment is eventually delivered or dead-lettered, wherever a
\* crash, a gateway error, an expired claim or a duplicate struck on the way, as
\* long as each failing handler's event comes back (no orphan fails).
EveryPaymentFinishes ==
  \A p \in Payments : status[p] = "pending" ~> Finished(p)

\* Claims are not held for ever: whatever happened to its holder, a claim is
\* released, taken over or used up.
ClaimsAreTemporary ==
  \A p \in Payments, w \in Workers :
    /\ gatewayClaim[p] = w ~> gatewayClaim[p] # w
    /\ webhookClaim[p] = w ~> webhookClaim[p] # w
=============================================================================
