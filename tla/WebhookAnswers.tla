--------------------------- MODULE WebhookAnswers ---------------------------
(***************************************************************************)
(* What an attempt to deliver a webhook can meet, and what the sender      *)
(* makes of it.                                                            *)
(***************************************************************************)

\* Classes of HTTP answers that are told apart.
Answers == {"2xx", "3xx", "4xx", "408_425_429", "5xx"}

\* What an attempt can meet: an answer of some class, a receiver or network
\* that fails before or after taking the request, or an address refused by
\* the resolver check before anything is sent.
Responses == Answers \cup {"no_answer", "unreachable", "blocked"}

\* Mutant: a redirect is taken for a success (no // 100 != 2 check).
RedirectIsSuccess(response) ==
  CASE response \in {"2xx", "3xx"} -> "ok"
    [] response \in {"408_425_429", "5xx", "no_answer", "unreachable"} -> "retryable"
    [] response \in {"4xx", "blocked"} -> "rejected"

\* HttpWebhookSender.send: success, or WebhookDeliveryError(retryable).
SendResult(response) ==
  CASE response = "2xx" -> "ok"
    [] response \in {"408_425_429", "5xx", "no_answer", "unreachable"} -> "retryable"
    [] response \in {"3xx", "4xx", "blocked"} -> "rejected"

\* Whether the receiver got to see the request.
ReachesReceiver(response) == response \notin {"unreachable", "blocked"}
=============================================================================
