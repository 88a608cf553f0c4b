-------------------------- MODULE WebhookDelivery --------------------------
(***************************************************************************)
(* What the event processor takes a call of WebhookSender.send for: one    *)
(* step in which the receiver sees the notification, or does not, and the  *)
(* sender learns how that ended.  SendWebhook of PaymentProcessing is this *)
(* step, for a handler that holds the webhook claim.                       *)
(***************************************************************************)
EXTENDS WebhookAnswers

CONSTANTS
  Sends,  \* calls of send()
  None    \* not returned; nothing said

VARIABLE call  \* how each call ended: [seen, said, result], or None

Init == call = [s \in Sends |-> None]

End(s, seen, said, result) ==
  /\ call[s] = None
  /\ call' = [call EXCEPT ![s] = [seen |-> seen, said |-> said, result |-> result]]

\* An answer counts as what the receiver said; a lost one may have been any.
Said(response) ==
  IF response \in Answers THEN {response}
  ELSE IF ReachesReceiver(response) THEN Answers \cup {None} ELSE {None}

Return(s, response) ==
  \E said \in Said(response) :
    End(s, ReachesReceiver(response), said, SendResult(response))

\* An exception that is not a WebhookDeliveryError: the handler is abandoned.
Raise(s, response) ==
  \E said \in Said(response) : End(s, ReachesReceiver(response), said, "raised")

Next ==
  \E s \in Sends :
    \/ \E response \in Responses : Return(s, response)
    \/ \E response \in {"no_answer", "unreachable"} : Raise(s, response)

Spec == Init /\ [][Next]_call
=============================================================================
