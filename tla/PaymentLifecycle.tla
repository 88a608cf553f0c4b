-------------------------- MODULE PaymentLifecycle --------------------------
(***************************************************************************)
(* What the service promises about one payment, with no claims, events,    *)
(* workers or crashes in sight: the payment is accepted once, decided      *)
(* once, and its webhook is attempted at most MaxDeliveryAttempts times    *)
(* until it is either delivered or given up, after which nothing about it  *)
(* changes any more.  PaymentProcessing implements this specification.     *)
(***************************************************************************)
EXTENDS Naturals

CONSTANTS
  Payments,             \* the payments clients may submit
  MaxDeliveryAttempts   \* WEBHOOK_MAX_DELIVERY_ATTEMPTS

VARIABLES
  decision,             \* decision[p]: what the gateway said about p
  attempts,             \* attempts[p]: webhook attempts recorded so far  
  webhook               \* webhook[p]: what became of p's notification

lifecycle == <<decision, attempts, webhook>>

FinalDecisions == {"succeeded", "failed"}

Init ==
  /\ decision = [p \in Payments |-> "absent"]
  /\ attempts = [p \in Payments |-> 0]
  /\ webhook  = [p \in Payments |-> "waiting"]

\* The API accepts a payment.
Accept(p) ==
  /\ decision[p] = "absent"
  /\ decision' = [decision EXCEPT ![p] = "pending"]
  /\ UNCHANGED <<attempts, webhook>>

\* The gateway's answer is recorded; there is no second answer.
Decide(p, d) ==
  /\ decision[p] = "pending"
  /\ decision' = [decision EXCEPT ![p] = d]
  /\ UNCHANGED <<attempts, webhook>>

\* A failed attempt is counted; the last one allowed also gives up.
FailAttempt(p, next) ==
  /\ decision[p] \in FinalDecisions
  /\ webhook[p] = "waiting"
  /\ attempts[p] < MaxDeliveryAttempts
  /\ attempts[p] + 1 = MaxDeliveryAttempts => next = "given_up"
  /\ attempts' = [attempts EXCEPT ![p] = @ + 1]
  /\ webhook'  = [webhook EXCEPT ![p] = next]
  /\ UNCHANGED decision

\* The receiver's 2xx is recorded, within the allowed number of attempts.
Deliver(p) ==
  /\ decision[p] \in FinalDecisions
  /\ webhook[p] = "waiting"
  /\ attempts[p] < MaxDeliveryAttempts
  /\ attempts' = [attempts EXCEPT ![p] = @ + 1]
  /\ webhook'  = [webhook EXCEPT ![p] = "delivered"]
  /\ UNCHANGED decision

Next ==
  \E p \in Payments :
    \/ Accept(p)
    \/ \E d \in FinalDecisions : Decide(p, d)
    \/ \E next \in {"waiting", "given_up"} : FailAttempt(p, next)
    \/ Deliver(p)

Spec == Init /\ [][Next]_lifecycle
=============================================================================
