---------------------------- MODULE SenderProofs ----------------------------
(***************************************************************************)
(* Machine-checked proofs about WebhookSender, for any number of calls,    *)
(* addresses and threads and however DNS changes: a call connects only to  *)
(* addresses it has checked, and is one step to its caller.                *)
(***************************************************************************)
EXTENDS WebhookSender, TLAPS

-----------------------------------------------------------------------------
(* The inductive invariant *)

Labels  == {"idle", "resolve", "connect", "exchange", "close", "done"}
Results == {"ok", "retryable", "rejected", "raised"}

TypeOK ==
  /\ dns \in SUBSET Addresses
  /\ lookups \subseteq Sends
  /\ target    \in [Sends -> Targets \cup {None}]
  /\ pc        \in [Sends -> Labels]
  /\ pinned    \in [Sends -> Public \cup {None}]
  /\ contacted \in [Sends -> Public \cup {"allowed", None}]
  /\ seen \subseteq Sends
  /\ said      \in [Sends -> Answers \cup {None}]
  /\ verdict   \in [Sends -> Responses \cup {"error", None}]
  /\ result    \in [Sends -> Results \cup {None}]

\* A call that goes on has a host that is resolved, allowed or a public address,
\* and goes on to connect to a name only with an address pinned.
HostIsChecked(s) ==
  /\ pc[s] = "resolve" => target[s] = "name"
  /\ pc[s] = "connect" => \/ target[s] = "name" /\ pinned[s] \in Public
                          \/ target[s] \in (Public \cup {"allowed"}) \ {"name"}

\* A call that has not begun has connected to nothing; one that has, to an
\* address it has checked or to the allowed host it was given.
ContactIsChecked(s) ==
  /\ pc[s] = "idle" => contacted[s] = None
  /\ \/ contacted[s] \in Public \cup {None}
     \/ target[s] = "allowed" /\ contacted[s] = "allowed"

\* The receiver sees a request once the call has connected, and answers only then.
AnswerNeedsRequest(s) ==
  /\ pc[s] \in {"idle", "resolve", "connect"} => s \notin seen
  /\ s \notin seen => said[s] = None

\* What a call that closes its client takes for its end is what the receiver
\* has seen and said.
VerdictIsTrue(s) ==
  pc[s] = "close" =>
    \/ verdict[s] = "error"
    \/ /\ verdict[s] \in Responses
       /\ ReachesReceiver(verdict[s]) <=> s \in seen
       /\ said[s] \in Delivery!Said(verdict[s])

CallIsSound(s) ==
  /\ HostIsChecked(s)
  /\ ContactIsChecked(s)
  /\ AnswerNeedsRequest(s)
  /\ VerdictIsTrue(s)

SenderInvariant == TypeOK /\ \A s \in Sends : CallIsSound(s)
-----------------------------------------------------------------------------
(* Lemmas about the steps *)

\* What an interrupted call has met agrees with its receiver, whether or not
\* the answer was on its way.
LEMMA InterruptedIsTrue ==
  ASSUME TypeOK, NEW s \in Sends, AnswerNeedsRequest(s)
  PROVE  /\ Interrupted(s) \in {"no_answer", "unreachable"}
         /\ ReachesReceiver(Interrupted(s)) <=> s \in seen
         /\ said[s] \in Delivery!Said(Interrupted(s))
<1>1. said[s] \in Answers \cup {None}
  BY DEF TypeOK
<1>2. CASE s \in seen
  <2>1. Interrupted(s) = "no_answer"
    BY <1>2 DEF Interrupted
  <2>2. Delivery!Said("no_answer") = Answers \cup {None}
    BY DEF Delivery!Said, Delivery!Answers, Delivery!ReachesReceiver, Answers
  <2> QED
    BY <1>1, <1>2, <2>1, <2>2 DEF ReachesReceiver
<1>3. CASE s \notin seen
  <2>1. Interrupted(s) = "unreachable" /\ said[s] = None
    BY <1>3 DEF Interrupted, AnswerNeedsRequest
  <2>2. Delivery!Said("unreachable") = {None}
    BY DEF Delivery!Said, Delivery!Answers, Delivery!ReachesReceiver
  <2> QED
    BY <1>3, <2>1, <2>2 DEF ReachesReceiver
<1> QED
  BY <1>2, <1>3

\* A call none of whose state changes stays sound.
LEMMA UntouchedStaysSound ==
  ASSUME NEW s \in Sends, CallIsSound(s),
         pc'[s] = pc[s], target'[s] = target[s], pinned'[s] = pinned[s],
         contacted'[s] = contacted[s], s \in seen' <=> s \in seen,
         said'[s] = said[s], verdict'[s] = verdict[s]
  PROVE  CallIsSound(s)'
BY DEF CallIsSound, HostIsChecked, ContactIsChecked, AnswerNeedsRequest, VerdictIsTrue

LEMMA DnsChangesKeeps == ASSUME SenderInvariant, DnsChanges PROVE SenderInvariant'
<1>1. TypeOK'
  BY DEF SenderInvariant, TypeOK, DnsChanges
<1>2. \A s \in Sends : CallIsSound(s)'
  BY UntouchedStaysSound DEF SenderInvariant, DnsChanges
<1> QED
  BY <1>1, <1>2 DEF SenderInvariant

LEMMA BeginKeeps ==
  ASSUME SenderInvariant, NEW s \in Sends, NEW t \in Targets, Begin(s, t)
  PROVE  SenderInvariant'
<1>1. TypeOK /\ TypeOK'
  BY DEF SenderInvariant, TypeOK, Begin, Conclude, Goto, Labels, Responses, Targets
<1>2. ASSUME NEW c \in Sends, c # s PROVE CallIsSound(c)'
  BY <1>1, <1>2, UntouchedStaysSound DEF SenderInvariant, TypeOK, Begin, Conclude, Goto
<1>3. CallIsSound(s)'
  <2>1. /\ pc[s] = "idle" /\ contacted[s] = None /\ s \notin seen /\ said[s] = None
        /\ target'[s] = t /\ UNCHANGED <<seen, said, contacted>>
    BY <1>1 DEF SenderInvariant, CallIsSound, ContactIsChecked, AnswerNeedsRequest, TypeOK, Begin
  <2>2. \/ t = "refused" /\ pc'[s] = "close" /\ verdict'[s] = "blocked"
        \/ t = "name" /\ pc'[s] = "resolve"
        \/ t \in (Public \cup {"allowed"}) \ {"name"} /\ pc'[s] = "connect"
    BY <1>1 DEF Begin, Conclude, Goto, TypeOK, Targets
  <2>3. HostIsChecked(s)'
    BY <2>1, <2>2 DEF HostIsChecked
  <2>4. ContactIsChecked(s)' /\ AnswerNeedsRequest(s)'
    BY <2>1, <2>2 DEF ContactIsChecked, AnswerNeedsRequest
  <2>5. VerdictIsTrue(s)'
    BY <2>1, <2>2 DEF VerdictIsTrue, Responses, ReachesReceiver, Delivery!Said, Delivery!Answers,
                      Delivery!ReachesReceiver
  <2> QED
    BY <2>3, <2>4, <2>5 DEF CallIsSound
<1> QED
  BY <1>1, <1>2, <1>3 DEF SenderInvariant

LEMMA StartLookupKeeps ==
  ASSUME SenderInvariant, NEW s \in Sends, StartLookup(s)
  PROVE  SenderInvariant'
<1>1. TypeOK'
  BY DEF SenderInvariant, TypeOK, StartLookup
<1>2. \A c \in Sends : CallIsSound(c)'
  BY UntouchedStaysSound DEF SenderInvariant, StartLookup
<1> QED
  BY <1>1, <1>2 DEF SenderInvariant

\* Only a lookup that found nothing but public addresses leads to a connection.
LEMMA FinishLookupKeeps ==
  ASSUME SenderInvariant, NEW s \in Sends, FinishLookup(s)
  PROVE  SenderInvariant'
<1>1. TypeOK
  BY DEF SenderInvariant
<1>2. TypeOK'
  <2>1. /\ pc' \in [Sends -> Labels]
        /\ verdict' \in [Sends -> Responses \cup {"error", None}]
    BY <1>1 DEF TypeOK, FinishLookup, Conclude, Goto, Labels, Responses
  <2>2. pinned' \in [Sends -> Public \cup {None}]
    BY <1>1 DEF TypeOK, FinishLookup
  <2>3. lookups' \subseteq Sends /\ UNCHANGED <<dns, target, contacted, seen, said, result>>
    BY <1>1 DEF TypeOK, FinishLookup
  <2> QED
    BY <1>1, <2>1, <2>2, <2>3 DEF TypeOK
<1>3. ASSUME NEW c \in Sends, c # s PROVE CallIsSound(c)'
  <2>1. /\ pc'[c] = pc[c] /\ pinned'[c] = pinned[c] /\ verdict'[c] = verdict[c]
        /\ UNCHANGED <<target, contacted, seen, said>>
    BY <1>1, <1>3 DEF TypeOK, FinishLookup, Conclude, Goto
  <2> QED
    BY <2>1, UntouchedStaysSound DEF SenderInvariant
<1>4. CallIsSound(s)'
  <2>1. UNCHANGED <<target, contacted, seen, said>>
    BY DEF FinishLookup
  <2>2. CASE pc[s] # "resolve"
    <3>1. UNCHANGED <<pc, pinned, verdict>>
      BY <2>2 DEF FinishLookup
    <3> QED
      BY <2>1, <3>1, UntouchedStaysSound DEF SenderInvariant
  <2>3. CASE pc[s] = "resolve"
    <3>1. /\ target[s] = "name" /\ s \notin seen /\ said[s] = None
          /\ ContactIsChecked(s)
      BY <2>3 DEF SenderInvariant, CallIsSound, HostIsChecked, AnswerNeedsRequest
    <3>2. \/ pc'[s] = "close" /\ verdict'[s] \in {"unreachable", "blocked"}
          \/ pc'[s] = "connect" /\ pinned'[s] \in Public
      BY <1>1, <2>3 DEF TypeOK, FinishLookup, Conclude, Goto
    <3>3. HostIsChecked(s)' /\ AnswerNeedsRequest(s)'
      BY <2>1, <3>1, <3>2 DEF HostIsChecked, AnswerNeedsRequest
    <3>4. ContactIsChecked(s)'
      BY <2>1, <3>1, <3>2 DEF ContactIsChecked
    <3>5. VerdictIsTrue(s)'
      BY <2>1, <3>1, <3>2 DEF VerdictIsTrue, Responses, ReachesReceiver, Delivery!Said,
                              Delivery!Answers, Delivery!ReachesReceiver
    <3> QED
      BY <3>3, <3>4, <3>5 DEF CallIsSound
  <2> QED
    BY <2>2, <2>3
<1> QED
  BY <1>2, <1>3, <1>4 DEF SenderInvariant
\* A name is connected to by the address pinned for it.
LEMMA ConnectKeeps ==
  ASSUME SenderInvariant, NEW s \in Sends, Connect(s)
  PROVE  SenderInvariant'
<1>1. TypeOK /\ HostIsChecked(s) /\ AnswerNeedsRequest(s) /\ pc[s] = "connect"
  BY DEF SenderInvariant, CallIsSound, Connect
<1>2. PICK peer \in Peer(s) : contacted' = [contacted EXCEPT ![s] = peer]
  BY DEF Connect
<1>3. peer \in Public \/ (target[s] = "allowed" /\ peer = "allowed")
  BY <1>1, <1>2 DEF HostIsChecked, Peer
<1>4. TypeOK'
  BY <1>1, <1>2, <1>3 DEF TypeOK, Connect, Goto, Labels
<1>5. ASSUME NEW c \in Sends, c # s PROVE CallIsSound(c)'
  BY <1>1, <1>2, <1>5, UntouchedStaysSound DEF SenderInvariant, TypeOK, Connect, Goto
<1>6. CallIsSound(s)'
  <2>1. pc'[s] = "exchange" /\ contacted'[s] = peer /\ UNCHANGED <<target, seen, said>>
    BY <1>1, <1>2 DEF TypeOK, Connect, Goto
  <2> QED
    BY <1>1, <1>3, <2>1
       DEF CallIsSound, HostIsChecked, ContactIsChecked, AnswerNeedsRequest, VerdictIsTrue
<1> QED
  BY <1>4, <1>5, <1>6 DEF SenderInvariant

LEMMA TransmitKeeps ==
  ASSUME SenderInvariant, NEW s \in Sends, Transmit(s)
  PROVE  SenderInvariant'
<1>1. TypeOK'
  BY DEF SenderInvariant, TypeOK, Transmit
<1>2. ASSUME NEW c \in Sends, c # s PROVE CallIsSound(c)'
  BY <1>2, UntouchedStaysSound DEF SenderInvariant, Transmit
<1>3. CallIsSound(s)'
  BY DEF SenderInvariant, Transmit, CallIsSound, HostIsChecked, ContactIsChecked,
         AnswerNeedsRequest, VerdictIsTrue
<1> QED
  BY <1>1, <1>2, <1>3 DEF SenderInvariant

LEMMA AnswerKeeps ==
  ASSUME SenderInvariant, NEW s \in Sends, NEW answer \in Answers, Answer(s, answer)
  PROVE  SenderInvariant'
<1>1. TypeOK /\ TypeOK'
  BY DEF SenderInvariant, TypeOK, Answer
<1>2. ASSUME NEW c \in Sends, c # s PROVE CallIsSound(c)'
  BY <1>1, <1>2, UntouchedStaysSound DEF SenderInvariant, TypeOK, Answer
<1>3. CallIsSound(s)'
  BY DEF SenderInvariant, Answer, CallIsSound, HostIsChecked, ContactIsChecked,
         AnswerNeedsRequest, VerdictIsTrue
<1> QED
  BY <1>1, <1>2, <1>3 DEF SenderInvariant

\* Whatever ends an exchange or an earlier part of a call: the verdict it gives
\* is true of the receiver.
LEMMA ConcludeKeeps ==
  ASSUME SenderInvariant, NEW s \in Sends, NEW response \in Responses \cup {"error"},
         pc[s] \in {"resolve", "connect", "exchange"}, Conclude(s, response),
         UNCHANGED <<dns, lookups, target, pinned, contacted, seen, said, result>>,
         \/ response = "error"
         \/ /\ response \in Responses
            /\ ReachesReceiver(response) <=> s \in seen
            /\ said[s] \in Delivery!Said(response)
  PROVE  SenderInvariant'
<1>1. TypeOK /\ TypeOK'
  BY DEF SenderInvariant, TypeOK, Conclude, Goto, Labels
<1>2. ASSUME NEW c \in Sends, c # s PROVE CallIsSound(c)'
  BY <1>1, <1>2, UntouchedStaysSound DEF SenderInvariant, TypeOK, Conclude, Goto
<1>3. CallIsSound(s)'
  <2>1. pc'[s] = "close" /\ verdict'[s] = response
    BY <1>1 DEF TypeOK, Conclude, Goto
  <2>2. VerdictIsTrue(s)'
    BY <2>1 DEF VerdictIsTrue
  <2> QED
    BY <2>1, <2>2 DEF SenderInvariant, CallIsSound, HostIsChecked, ContactIsChecked,
                      AnswerNeedsRequest
<1> QED
  BY <1>1, <1>2, <1>3 DEF SenderInvariant

LEMMA TakeAnswerKeeps ==
  ASSUME SenderInvariant, NEW s \in Sends, TakeAnswer(s)
  PROVE  SenderInvariant'
<1>1. /\ pc[s] = "exchange" /\ said[s] # None /\ Conclude(s, said[s])
      /\ UNCHANGED <<dns, lookups, target, pinned, contacted, seen, said, result>>
  BY DEF TakeAnswer
<1>2. s \in seen /\ said[s] \in Answers
  BY <1>1 DEF SenderInvariant, TypeOK, CallIsSound, AnswerNeedsRequest
<1>3. said[s] \in Responses /\ ReachesReceiver(said[s])
  BY <1>2 DEF Answers, Responses, ReachesReceiver
<1>4. said[s] \in Delivery!Said(said[s])
  BY <1>2 DEF Delivery!Said, Delivery!Answers, Answers
<1> QED
  BY <1>1, <1>2, <1>3, <1>4, ConcludeKeeps

LEMMA InterruptionKeeps ==
  ASSUME SenderInvariant, NEW s \in Sends, NEW response \in {Interrupted(s), "error"},
         pc[s] \in {"resolve", "connect", "exchange"}, Conclude(s, response),
         UNCHANGED <<dns, lookups, target, pinned, contacted, seen, said, result>>
  PROVE  SenderInvariant'
<1>1. /\ Interrupted(s) \in {"no_answer", "unreachable"}
      /\ ReachesReceiver(Interrupted(s)) <=> s \in seen
      /\ said[s] \in Delivery!Said(Interrupted(s))
  BY InterruptedIsTrue DEF SenderInvariant, CallIsSound
<1> QED
  BY <1>1, ConcludeKeeps DEF Responses

\* A call that returns has closed its client.
LEMMA ReturnKeeps ==
  ASSUME SenderInvariant, NEW s \in Sends, NEW how \in Results,
         pc[s] = "close", Return(s, how),
         UNCHANGED <<dns, lookups, target, pinned, contacted, seen, said, verdict>>
  PROVE  SenderInvariant'
<1>1. TypeOK /\ TypeOK'
  BY DEF SenderInvariant, TypeOK, Return, Goto, Labels
<1>2. ASSUME NEW c \in Sends, c # s PROVE CallIsSound(c)'
  BY <1>1, <1>2, UntouchedStaysSound DEF SenderInvariant, TypeOK, Return, Goto
<1>3. CallIsSound(s)'
  <2>1. pc'[s] = "done"
    BY <1>1 DEF TypeOK, Return, Goto
  <2> QED
    BY <2>1 DEF SenderInvariant, CallIsSound, HostIsChecked, ContactIsChecked,
                AnswerNeedsRequest, VerdictIsTrue
<1> QED
  BY <1>1, <1>2, <1>3 DEF SenderInvariant

-----------------------------------------------------------------------------
(* How a call ends *)

\* How a call may return, and what its caller may take it for.
Ends(s, how) ==
  \/ \E response \in Responses :
       /\ how = SendResult(response)
       /\ ReachesReceiver(response) <=> s \in seen
       /\ said[s] \in Delivery!Said(response)
  \/ /\ how = "raised"
     /\ ReachesReceiver(Interrupted(s)) <=> s \in seen
     /\ said[s] \in Delivery!Said(Interrupted(s))

\* The steps in which a call returns.
Returns(s, how) ==
  /\ pc[s] = "close" /\ Return(s, how)
  /\ UNCHANGED <<dns, lookups, target, pinned, contacted, seen, said, verdict>>

LEMMA SendResultIsResult ==
  ASSUME NEW response \in Responses PROVE SendResult(response) \in {"ok", "retryable", "rejected"}
BY DEF Responses, Answers, SendResult

LEMMA ReturnsTruly ==
  ASSUME SenderInvariant, NEW s \in Sends, pc[s] = "close"
  PROVE  /\ UnexpectedError(s) => Returns(s, "raised") /\ Ends(s, "raised")
         /\ Timeout(s) => \E how \in Results : Returns(s, how) /\ Ends(s, how)
         /\ Close(s) => \E how \in Results : Returns(s, how) /\ Ends(s, how)
<1>1. /\ Interrupted(s) \in {"no_answer", "unreachable"}
      /\ ReachesReceiver(Interrupted(s)) <=> s \in seen
      /\ said[s] \in Delivery!Said(Interrupted(s))
  BY InterruptedIsTrue DEF SenderInvariant, CallIsSound
<1>2. Interrupted(s) \in Responses
  BY <1>1 DEF Responses
<1>3. Ends(s, "raised") /\ "raised" \in Results
  BY <1>1 DEF Ends, Results
<1>4. Ends(s, SendResult(Interrupted(s))) /\ SendResult(Interrupted(s)) \in Results
  BY <1>1, <1>2, SendResultIsResult DEF Ends, Results
<1>5. UnexpectedError(s) => Returns(s, "raised")
  BY DEF UnexpectedError, Returns
<1>6. Timeout(s) => Returns(s, SendResult(Interrupted(s)))
  BY DEF Timeout, Returns
<1>7. ASSUME Close(s) PROVE \E how \in Results : Returns(s, how) /\ Ends(s, how)
  <2>1. CASE verdict[s] = "error"
    BY <1>3, <1>7, <2>1 DEF Close, Returns
  <2>2. CASE verdict[s] # "error"
    <3>1. /\ verdict[s] \in Responses
          /\ ReachesReceiver(verdict[s]) <=> s \in seen
          /\ said[s] \in Delivery!Said(verdict[s])
      BY <2>2 DEF SenderInvariant, CallIsSound, VerdictIsTrue
    <3>2. Ends(s, SendResult(verdict[s])) /\ SendResult(verdict[s]) \in Results
      BY <3>1, SendResultIsResult DEF Ends, Results
    <3> QED
      BY <1>7, <2>2, <3>2 DEF Close, Returns
  <2> QED
    BY <2>1, <2>2
<1> QED
  BY <1>3, <1>4, <1>5, <1>6, <1>7
\* The other steps leave alone how calls have ended: what is still under way
\* for a call that has returned touches none of it.
LEMMA EndedStaysEnded ==
  ASSUME SenderInvariant,
         \/ DnsChanges
         \/ \E s \in Sends :
              \/ \E t \in Targets : Begin(s, t)
              \/ StartLookup(s) \/ FinishLookup(s) \/ Connect(s) \/ Transmit(s)
              \/ \E answer \in Answers : Answer(s, answer)
              \/ TakeAnswer(s) \/ ConnectionFails(s)
              \/ pc[s] # "close" /\ (UnexpectedError(s) \/ Timeout(s))
  PROVE  \A c \in Sends : /\ pc'[c] = "done" <=> pc[c] = "done"
                          /\ pc[c] = "done" => Call(c)' = Call(c)
<1> SUFFICES ASSUME NEW c \in Sends
             PROVE  /\ pc'[c] = "done" <=> pc[c] = "done"
                    /\ pc[c] = "done" => Call(c)' = Call(c)
  OBVIOUS
<1>1. TypeOK
  BY DEF SenderInvariant
<1>2. CASE DnsChanges
  BY <1>2 DEF DnsChanges, Call
<1>3. ASSUME NEW s \in Sends, \E t \in Targets : Begin(s, t)
      PROVE  /\ pc'[c] = "done" <=> pc[c] = "done"
             /\ pc[c] = "done" => Call(c)' = Call(c)
  BY <1>1, <1>3 DEF TypeOK, Begin, Conclude, Goto, Call
<1>4. ASSUME NEW s \in Sends, StartLookup(s) \/ FinishLookup(s) \/ Connect(s)
      PROVE  /\ pc'[c] = "done" <=> pc[c] = "done"
             /\ pc[c] = "done" => Call(c)' = Call(c)
  BY <1>1, <1>4 DEF TypeOK, StartLookup, FinishLookup, Connect, Conclude, Goto, Call
<1>5. ASSUME NEW s \in Sends, Transmit(s) \/ \E answer \in Answers : Answer(s, answer)
      PROVE  /\ pc'[c] = "done" <=> pc[c] = "done"
             /\ pc[c] = "done" => Call(c)' = Call(c)
  BY <1>1, <1>5 DEF TypeOK, Transmit, Answer, Call
<1>6. ASSUME NEW s \in Sends,
             \/ TakeAnswer(s) \/ ConnectionFails(s)
             \/ pc[s] # "close" /\ (UnexpectedError(s) \/ Timeout(s))
      PROVE  /\ pc'[c] = "done" <=> pc[c] = "done"
             /\ pc[c] = "done" => Call(c)' = Call(c)
  BY <1>1, <1>6
     DEF TypeOK, TakeAnswer, ConnectionFails, UnexpectedError, Timeout, Conclude, Goto, Call
<1> QED
  BY <1>2, <1>3, <1>4, <1>5, <1>6

-----------------------------------------------------------------------------
(* The invariant *)

LEMMA InitIsSound == Init => SenderInvariant
<1> SUFFICES ASSUME Init PROVE SenderInvariant
  OBVIOUS
<1>1. TypeOK
  BY DEF Init, TypeOK, Labels
<1>2. \A s \in Sends : CallIsSound(s)
  BY DEF Init, CallIsSound, HostIsChecked, ContactIsChecked, AnswerNeedsRequest, VerdictIsTrue
<1> QED
  BY <1>1, <1>2 DEF SenderInvariant

\* A step of a call, but for its return, is one of these.
LEMMA NextKeepsSound == SenderInvariant /\ [Next]_vars => SenderInvariant'
<1> SUFFICES ASSUME SenderInvariant, [Next]_vars PROVE SenderInvariant'
  OBVIOUS
<1>1. CASE DnsChanges
  BY <1>1, DnsChangesKeeps
<1>2. ASSUME NEW s \in Sends, \E t \in Targets : Begin(s, t) PROVE SenderInvariant'
  BY <1>2, BeginKeeps
<1>3. ASSUME NEW s \in Sends, StartLookup(s) \/ FinishLookup(s) \/ Connect(s) \/ Transmit(s)
      PROVE  SenderInvariant'
  BY <1>3, StartLookupKeeps, FinishLookupKeeps, ConnectKeeps, TransmitKeeps
<1>4. ASSUME NEW s \in Sends, \/ \E answer \in Answers : Answer(s, answer)
                              \/ TakeAnswer(s)
      PROVE  SenderInvariant'
  BY <1>4, AnswerKeeps, TakeAnswerKeeps
<1>5. ASSUME NEW s \in Sends, ConnectionFails(s) PROVE SenderInvariant'
  BY <1>5, InterruptionKeeps DEF ConnectionFails
<1>6. ASSUME NEW s \in Sends, UnexpectedError(s) \/ Timeout(s), pc[s] # "close"
      PROVE  SenderInvariant'
  <2>1. \E response \in {Interrupted(s), "error"} :
          /\ pc[s] \in {"resolve", "connect", "exchange"} /\ Conclude(s, response)
          /\ UNCHANGED <<dns, lookups, target, pinned, contacted, seen, said, result>>
    BY <1>6 DEF UnexpectedError, Timeout
  <2> QED
    BY <2>1, InterruptionKeeps
<1>7. ASSUME NEW s \in Sends, UnexpectedError(s) \/ Timeout(s) \/ Close(s), pc[s] = "close"
      PROVE  SenderInvariant'
  <2>1. PICK how \in Results : Returns(s, how)
    BY <1>7, ReturnsTruly DEF Results
  <2> QED
    BY <2>1, ReturnKeeps DEF Returns
<1>8. CASE UNCHANGED vars
  <2>1. TypeOK' /\ \A s \in Sends : CallIsSound(s)'
    BY <1>8, UntouchedStaysSound DEF vars, SenderInvariant, TypeOK
  <2> QED
    BY <2>1 DEF SenderInvariant
<1> QED
  BY <1>1, <1>2, <1>3, <1>4, <1>5, <1>6, <1>7, <1>8 DEF Next, Close

\* Every call has checked what it connects to, and takes for its end what its
\* receiver has seen and said, whatever happens between any two of its steps.
THEOREM SenderInvariantHolds == Spec => []SenderInvariant
<1> QED
  BY InitIsSound, NextKeepsSound, PTL DEF Spec

\* A webhook goes to an address found public in this very call, or to an
\* allowed host.
THEOREM OnlyCheckedAddressesContacted == Spec => []OnlyCheckedAddresses
<1>1. SenderInvariant => OnlyCheckedAddresses
  BY DEF SenderInvariant, CallIsSound, ContactIsChecked, OnlyCheckedAddresses
<1> QED
  BY <1>1, SenderInvariantHolds, PTL

-----------------------------------------------------------------------------
(* The refinement *)

\* A returning call is one step of WebhookDelivery.
LEMMA ReturnIsDelivery ==
  ASSUME SenderInvariant, NEW s \in Sends, NEW how \in Results, Returns(s, how), Ends(s, how)
  PROVE  Delivery!Next
<1> DEFINE ended == [c \in Sends |-> IF pc[c] = "done" THEN Call(c) ELSE None]
<1>1. /\ pc[s] = "close" /\ pc' = [pc EXCEPT ![s] = "done"] /\ TypeOK
      /\ result' = [result EXCEPT ![s] = how] /\ UNCHANGED <<seen, said>>
  BY DEF SenderInvariant, Returns, Return, Goto
<1>2. ended[s] = None
  BY <1>1
<1>3. ended' = [ended EXCEPT ![s] = [seen |-> s \in seen, said |-> said[s], result |-> how]]
  <2>1. \A c \in Sends \ {s} : pc'[c] = pc[c] /\ Call(c)' = Call(c)
    BY <1>1 DEF TypeOK, Call
  <2>2. pc'[s] = "done" /\ Call(s)' = [seen |-> s \in seen, said |-> said[s], result |-> how]
    BY <1>1 DEF TypeOK, Call
  <2> QED
    BY <2>1, <2>2
<1>4. Delivery!End(s, s \in seen, said[s], how)
  BY <1>2, <1>3 DEF Delivery!End
<1>5. ASSUME NEW response \in Responses, how = SendResult(response),
             ReachesReceiver(response) <=> s \in seen, said[s] \in Delivery!Said(response)
      PROVE  Delivery!Next
  <2>1. Delivery!SendResult(response) = SendResult(response)
    BY DEF SendResult, Delivery!SendResult
  <2>2. Delivery!ReachesReceiver(response) = (s \in seen)
    BY <1>5 DEF ReachesReceiver, Delivery!ReachesReceiver
  <2>3. Delivery!Return(s, response)
    BY <1>4, <1>5, <2>1, <2>2 DEF Delivery!Return
  <2>4. response \in Delivery!Responses
    BY DEF Responses, Answers, Delivery!Responses, Delivery!Answers
  <2> QED
    BY <2>3, <2>4 DEF Delivery!Next
<1>6. CASE /\ how = "raised"
           /\ ReachesReceiver(Interrupted(s)) <=> s \in seen
           /\ said[s] \in Delivery!Said(Interrupted(s))
  <2>1. Delivery!ReachesReceiver(Interrupted(s)) = (s \in seen)
    BY <1>6 DEF ReachesReceiver, Delivery!ReachesReceiver
  <2>2. Delivery!Raise(s, Interrupted(s))
    BY <1>4, <1>6, <2>1 DEF Delivery!Raise
  <2>3. Interrupted(s) \in {"no_answer", "unreachable"}
    BY DEF Interrupted
  <2> QED
    BY <2>2, <2>3 DEF Delivery!Next
<1> QED
  BY <1>5, <1>6 DEF Ends

\* How every call has ended so far: the abstract state.
Ended == [s \in Sends |-> IF pc[s] = "done" THEN Call(s) ELSE None]

LEMMA StepIsDelivery ==
  SenderInvariant /\ [Next]_vars => Delivery!Next \/ UNCHANGED Ended
<1> SUFFICES ASSUME SenderInvariant, [Next]_vars PROVE Delivery!Next \/ UNCHANGED Ended
  OBVIOUS
<1>1. ASSUME NEW s \in Sends, UnexpectedError(s) \/ Timeout(s) \/ Close(s), pc[s] = "close"
      PROVE  Delivery!Next
  <2>1. PICK how \in Results : Returns(s, how) /\ Ends(s, how)
    BY <1>1, ReturnsTruly DEF Results
  <2> QED
    BY <2>1, ReturnIsDelivery
<1>2. CASE \A c \in Sends : /\ pc'[c] = "done" <=> pc[c] = "done"
                            /\ pc[c] = "done" => Call(c)' = Call(c)
  BY <1>2 DEF Ended
<1>3. CASE UNCHANGED vars
  BY <1>3 DEF vars, Ended, Call
<1>4. Next => \/ \E s \in Sends : /\ UnexpectedError(s) \/ Timeout(s) \/ Close(s)
                                  /\ pc[s] = "close"
              \/ \A c \in Sends : /\ pc'[c] = "done" <=> pc[c] = "done"
                                  /\ pc[c] = "done" => Call(c)' = Call(c)
  BY EndedStaysEnded DEF Next, Close
<1> QED
  BY <1>1, <1>2, <1>3, <1>4

\* To its caller a call of send is one step, in which the sender learns what
\* its receiver has seen and said, or that it cannot know.
THEOREM SenderImplementsDelivery == Spec => ImplementsDelivery
<1>1. Init => Delivery!Init
  BY DEF Init, Delivery!Init
<1>2. SenderInvariant /\ [Next]_vars => Delivery!Next \/ UNCHANGED Ended
  BY StepIsDelivery
<1> QED
  BY <1>1, <1>2, SenderInvariantHolds, PTL DEF Spec, ImplementsDelivery, Delivery!Spec, Ended
=============================================================================
