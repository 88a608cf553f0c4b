--------------------------- MODULE WebhookSender ---------------------------
(***************************************************************************)
(* HttpWebhookSender.send step by step: check the URL, resolve its host in *)
(* a thread, check every address and pin one, connect, exchange, close the *)
(* client; all of it under one asyncio.timeout.  DNS may change between    *)
(* any two steps; a lookup that is given up keeps its thread until it is   *)
(* over; the receiver may answer too late.                                 *)
(***************************************************************************)
EXTENDS WebhookAnswers, FiniteSets, Naturals

CONSTANTS
  Sends,      \* calls of send(), concurrent or one after the other
  Addresses,  \* what a host may resolve to
  Public,     \* the addresses _validate_public_address accepts
  Threads,    \* size of the executor behind asyncio.to_thread
  None

ASSUME SenderAssumption == Public \subseteq Addresses /\ Threads \in Nat \ {0}

\* The hosts of webhook URLs: a name, an address, one of WEBHOOK_ALLOWED_HOSTS,
\* or a name or address that validate_public_webhook_url refuses.
Targets == {"name", "allowed", "refused"} \cup Public

VARIABLES
  dns,        \* the addresses the name resolves to now
  lookups,    \* the sends whose lookup occupies a thread
  target,     \* the host in the notification's URL
  pc,         \* where each call is
  pinned,     \* the address in the request's URL, or None
  contacted,  \* history: where each call has connected to
  seen,       \* the calls whose request has reached the receiver
  said,       \* what the receiver has answered
  verdict,    \* what the call has met, "error" for an unexpected exception
  result      \* how the call returned

vars == <<dns, lookups, target, pc, pinned, contacted, seen, said, verdict, result>>

Init ==
  /\ dns       \in SUBSET Addresses
  /\ lookups   = {}
  /\ target    = [s \in Sends |-> None]
  /\ pc        = [s \in Sends |-> "idle"]
  /\ pinned    = [s \in Sends |-> None]
  /\ contacted = [s \in Sends |-> None]
  /\ seen      = {}
  /\ said      = [s \in Sends |-> None]
  /\ verdict   = [s \in Sends |-> None]
  /\ result    = [s \in Sends |-> None]

-----------------------------------------------------------------------------
(* Helpers *)

Goto(s, label) == pc' = [pc EXCEPT ![s] = label]

\* The `finally` closes the client, whatever the verdict.
Conclude(s, response) ==
  /\ verdict' = [verdict EXCEPT ![s] = response]
  /\ Goto(s, "close")

\* What an interrupted attempt has met.
Interrupted(s) == IF s \in seen THEN "no_answer" ELSE "unreachable"

-----------------------------------------------------------------------------
(* Actions *)

DnsChanges ==
  /\ \E addresses \in SUBSET Addresses : dns' = addresses
  /\ UNCHANGED <<lookups, target, pc, pinned, contacted, seen, said, verdict, result>>

\* validate_public_webhook_url; only names are resolved.
Begin(s, t) ==
  /\ pc[s] = "idle"
  /\ target' = [target EXCEPT ![s] = t]
  /\ \/ t = "refused" /\ Conclude(s, "blocked")
     \/ t = "name" /\ Goto(s, "resolve") /\ UNCHANGED verdict
     \/ t \notin {"refused", "name"} /\ Goto(s, "connect") /\ UNCHANGED verdict
  /\ UNCHANGED <<dns, lookups, pinned, contacted, seen, said, result>>

\* The executor has a thread for getaddrinfo.
StartLookup(s) ==
  /\ pc[s] = "resolve" /\ s \notin lookups /\ Cardinality(lookups) < Threads
  /\ lookups' = lookups \cup {s}
  /\ UNCHANGED <<dns, target, pc, pinned, contacted, seen, said, verdict, result>>

\* Every address must be public; the first one is pinned.  Nobody waits for a
\* lookup whose send has been given up.
FinishLookup(s) ==
  /\ s \in lookups
  /\ lookups' = lookups \ {s}
  /\ \/ pc[s] # "resolve" /\ UNCHANGED <<pc, pinned, verdict>>
     \/ /\ pc[s] = "resolve"
        /\ \/ dns = {} /\ Conclude(s, "unreachable") /\ UNCHANGED pinned
           \/ ~(dns \subseteq Public) /\ Conclude(s, "blocked") /\ UNCHANGED pinned
           \/ /\ dns # {} /\ dns \subseteq Public
              /\ \E address \in dns : pinned' = [pinned EXCEPT ![s] = address]
              /\ Goto(s, "connect") /\ UNCHANGED verdict
  /\ UNCHANGED <<dns, target, contacted, seen, said, result>>

\* Mutant: the host is resolved again for the connection.
NameAgain(s) == IF target[s] = "name" THEN dns ELSE {target[s]}

\* The address in the request's URL; an allowed host is connected to by name.
Peer(s) == IF target[s] = "name" THEN {pinned[s]} ELSE {target[s]}

Connect(s) ==
  /\ pc[s] = "connect"
  /\ \E peer \in Peer(s) : contacted' = [contacted EXCEPT ![s] = peer]
  /\ Goto(s, "exchange")
  /\ UNCHANGED <<dns, lookups, target, pinned, seen, said, verdict, result>>

\* The request reaches the receiver.
Transmit(s) ==
  /\ pc[s] = "exchange" /\ s \notin seen
  /\ seen' = seen \cup {s}
  /\ UNCHANGED <<dns, lookups, target, pc, pinned, contacted, said, verdict, result>>

\* The receiver has decided on its answer, which may still get lost.
Answer(s, answer) ==
  /\ pc[s] = "exchange" /\ s \in seen /\ said[s] = None
  /\ said' = [said EXCEPT ![s] = answer]
  /\ UNCHANGED <<dns, lookups, target, pc, pinned, contacted, seen, verdict, result>>

\* client.send returns; redirects are not followed.
TakeAnswer(s) ==
  /\ pc[s] = "exchange" /\ said[s] # None
  /\ Conclude(s, said[s])
  /\ UNCHANGED <<dns, lookups, target, pinned, contacted, seen, said, result>>

\* httpx.HTTPError or OSError.
ConnectionFails(s) ==
  /\ pc[s] \in {"resolve", "connect", "exchange"}
  /\ Conclude(s, Interrupted(s))
  /\ UNCHANGED <<dns, lookups, target, pinned, contacted, seen, said, result>>

Return(s, how) ==
  /\ result' = [result EXCEPT ![s] = how]
  /\ Goto(s, "done")

\* Any other exception, or the cancellation of the handler, while the client is
\* being closed too.
UnexpectedError(s) ==
  /\ \/ /\ pc[s] \in {"resolve", "connect", "exchange"}
        /\ Conclude(s, "error")
        /\ UNCHANGED result
     \/ /\ pc[s] = "close"
        /\ Return(s, "raised")
        /\ UNCHANGED verdict
  /\ UNCHANGED <<dns, lookups, target, pinned, contacted, seen, said>>

\* Mutant: the timeout covers the HTTP request only.
TimeoutOfRequest(s) ==
  /\ pc[s] \in {"connect", "exchange"}
  /\ Conclude(s, Interrupted(s))
  /\ UNCHANGED <<dns, lookups, target, pinned, contacted, seen, said, result>>

\* Mutant: a timeout is no reason to try again.
TimeoutIsFinal(s) ==
  /\ pc[s] \in {"resolve", "connect", "exchange"}
  /\ Conclude(s, "blocked")
  /\ UNCHANGED <<dns, lookups, target, pinned, contacted, seen, said, result>>

\* The timeout strikes; while the client is being closed, it strikes out
\* whatever the call has met, a success too.
Timeout(s) ==
  /\ \/ /\ pc[s] \in {"resolve", "connect", "exchange"}
        /\ Conclude(s, Interrupted(s))
        /\ UNCHANGED result
     \/ /\ pc[s] = "close"
        /\ Return(s, SendResult(Interrupted(s)))
        /\ UNCHANGED verdict
  /\ UNCHANGED <<dns, lookups, target, pinned, contacted, seen, said>>

\* The client is closed and the call returns or raises.
Close(s) ==
  /\ pc[s] = "close"
  /\ Return(s, IF verdict[s] = "error" THEN "raised" ELSE SendResult(verdict[s]))
  /\ UNCHANGED <<dns, lookups, target, pinned, contacted, seen, said, verdict>>

Next ==
  \/ DnsChanges
  \/ \E s \in Sends :
       \/ \E t \in Targets : Begin(s, t)
       \/ StartLookup(s)
       \/ FinishLookup(s)
       \/ Connect(s)
       \/ Transmit(s)
       \/ \E answer \in Answers : Answer(s, answer)
       \/ TakeAnswer(s)
       \/ ConnectionFails(s)
       \/ UnexpectedError(s)
       \/ Timeout(s)
       \/ Close(s)

Spec == Init /\ [][Next]_vars

\* Only the event loop is relied on: its timer, and closing the client.
FairSpec == Spec /\ \A s \in Sends : WF_vars(Timeout(s)) /\ WF_vars(Close(s))

-----------------------------------------------------------------------------
(* Properties *)

Call(s) == [seen |-> s \in seen, said |-> said[s], result |-> result[s]]

Delivery == INSTANCE WebhookDelivery
  WITH call <- [s \in Sends |-> IF pc[s] = "done" THEN Call(s) ELSE None]

\* README.md:123: a webhook goes to an address that was found public in this
\* very call, however DNS changes between the check and the connection; only
\* allowed hosts are connected to unchecked.
OnlyCheckedAddresses ==
  \A s \in Sends : \/ contacted[s] \in Public \cup {None}
                   \/ target[s] = "allowed" /\ contacted[s] = "allowed"

\* To its caller a call is one step: a success means that the receiver said 2xx,
\* a rejection that it said so or was never asked, and a call that has returned
\* does nothing more, whatever its thread or the receiver is still up to.
ImplementsDelivery == Delivery!Spec

\* README.md "Total DNS resolution and HTTP delivery timeout": every call
\* returns, even if resolvers, receivers and all threads of the executor hang.
EverySendReturns == \A s \in Sends : pc[s] # "idle" ~> pc[s] = "done"
=============================================================================
