----------------------------- MODULE ApiProofs -----------------------------
(***************************************************************************)
(* Machine-checked proofs about PaymentApi, for any requests, reads, keys  *)
(* and payloads.                                                           *)
(***************************************************************************)
EXTENDS PaymentApi, TLAPS

USE DEF posts, gets

-----------------------------------------------------------------------------
(* The inductive invariant *)

\* A row with the key and the digest of request r.
Row(r, id) ==
  [id |-> id, key |-> request[r].key, hash |-> RequestHash(request[r].payload)]

\* The row that request r would insert.
OwnRow(r) == Row(r, r)

\* What a request knows of the table at each point of create_payment, and what
\* its answer has told the client.
RequestOK(r) ==
  /\ pc[r] = "refresh" => OwnRow(r) \in payments
  /\ pc[r] = "recheck" => Existing(r) # {}
  /\ Answered(r, 202) \/ Answered(r, 409) => request[r] # None
  /\ Answered(r, 202) => Row(r, answer[r].payment) \in payments
  /\ Answered(r, 409) => \E row \in Existing(r) :
                           row.hash # RequestHash(request[r].payload)
  /\ ~Answered(r, 500)

Stored(id) == \E row \in payments : row.id = id

ReadOK(g) ==
  /\ query[g] # None /\ query[g].known => Stored(query[g].payment) /\ found[g] # 404
  /\ found[g] = 200 => query[g] # None /\ Stored(query[g].payment)

ApiInvariant ==
  /\ TypeOK
  /\ OnePaymentPerKey
  /\ \A r \in Requests : RequestOK(r)
  /\ \A g \in Reads : ReadOK(g)

-----------------------------------------------------------------------------
(* Facts about the operators *)

LEMMA HashType ==
  ASSUME NEW payload \in Payloads PROVE RequestHash(payload) \in Hashes
  BY DEF Payloads, RequestHash, Hashes

\* Two payloads with one digest differ at most in how they spell an exponent.
LEMMA EqualHashes ==
  ASSUME NEW a \in Payloads, NEW b \in Payloads, RequestHash(a) = RequestHash(b)
  PROVE  a.rest = b.rest /\ (a.amount = "10.00" <=> b.amount = "10.00")
  BY DEF Payloads, RequestHash

\* A refused request is told the code of one of its faults.
LEMMA RefusalCodes ==
  ASSUME NEW faults \in SUBSET DOMAIN Codes, faults # {}
  PROVE  /\ \E fault \in faults : RefusalCode(faults) = Codes[fault]
         /\ RefusalCode(faults) \in {400, 401, 422}
<1> DEFINE First(j) ==
      Faults[j] \in faults /\ \A i \in 1..(j - 1) : Faults[i] \notin faults
<1>1. DOMAIN Faults = 1..5 /\ Faults[1] = "json" /\ Faults[2] = "api_key"
      /\ Faults[3] = "idempotency_key" /\ Faults[4] = "webhook_url" /\ Faults[5] = "body"
  BY DEF Faults
<1>2. DOMAIN Codes = {"json", "api_key", "idempotency_key", "webhook_url", "body"}
  BY DEF Codes
<1>3. \E j \in 1..5 : First(j)
  <2>1. CASE Faults[1] \in faults
    BY <2>1
  <2>2. CASE Faults[1] \notin faults /\ Faults[2] \in faults
    <3>1. First(2) BY <2>2
    <3>2. QED BY <3>1
  <2>3. CASE Faults[1] \notin faults /\ Faults[2] \notin faults /\ Faults[3] \in faults
    <3>1. First(3) BY <2>3
    <3>2. QED BY <3>1
  <2>4. CASE /\ Faults[1] \notin faults /\ Faults[2] \notin faults
             /\ Faults[3] \notin faults /\ Faults[4] \in faults
    <3>1. First(4) BY <2>4
    <3>2. QED BY <3>1
  <2>5. CASE /\ Faults[1] \notin faults /\ Faults[2] \notin faults
             /\ Faults[3] \notin faults /\ Faults[4] \notin faults
    <3>1. Faults[5] \in faults BY <2>5, <1>1, <1>2
    <3>2. First(5) BY <3>1, <2>5
    <3>3. QED BY <3>2
  <2>6. QED BY <2>1, <2>2, <2>3, <2>4, <2>5
<1>4. PICK j \in 1..5 : j = CHOOSE k \in 1..5 : First(k)
  BY <1>3
<1>5. RefusalCode(faults) = Codes[Faults[j]]
  BY <1>4, <1>1 DEF RefusalCode
<1>6. Faults[j] \in faults
  BY <1>3, <1>4
<1>7. \A fault \in DOMAIN Codes : Codes[fault] \in {400, 401, 422}
  BY DEF Codes
<1>8. QED BY <1>5, <1>6, <1>7
-----------------------------------------------------------------------------
(* What a step leaves alone *)

\* A request whose own state a step leaves alone; rows are never deleted.
LEMMA OtherRequest ==
  ASSUME NEW r \in Requests, RequestOK(r), payments \subseteq payments',
         pc'[r] = pc[r], request'[r] = request[r], answer'[r] = answer[r]
  PROVE  RequestOK(r)'
<1>1. /\ OwnRow(r)' = OwnRow(r) /\ Existing(r) \subseteq Existing(r)'
      /\ Row(r, answer[r].payment)' = Row(r, answer[r].payment)
  BY DEF OwnRow, Row, Existing
<1>2. /\ Answered(r, 202)' = Answered(r, 202)
      /\ Answered(r, 409)' = Answered(r, 409)
      /\ Answered(r, 500)' = Answered(r, 500)
  BY DEF Answered
<1>3. QED BY <1>1, <1>2 DEF RequestOK

LEMMA OtherRead ==
  ASSUME NEW g \in Reads, ReadOK(g), payments \subseteq payments',
         query'[g] = query[g], found'[g] = found[g]
  PROVE  ReadOK(g)'
  BY DEF ReadOK, Stored

\* A request that is still without an answer, and promises nothing yet.
LEMMA UnansweredRequest ==
  ASSUME TypeOK', NEW r \in Requests, pc'[r] \in {"unsent", "lookup", "insert"}
  PROVE  RequestOK(r)'
  BY DEF TypeOK, RequestOK, Answered

\* A step of one request that leaves the tables and the reads alone.
LEMMA LocalStep ==
  ASSUME ApiInvariant, NEW r \in Requests, UNCHANGED <<payments, outbox, gets>>,
         TypeOK', RequestOK(r)',
         \A s \in Requests \ {r} :
           pc'[s] = pc[s] /\ request'[s] = request[s] /\ answer'[s] = answer[s]
  PROVE  ApiInvariant'
<1>1. \A s \in Requests : RequestOK(s)'
  BY OtherRequest DEF ApiInvariant
<1>2. \A g \in Reads : ReadOK(g)'
  BY OtherRead DEF ApiInvariant
<1>3. OnePaymentPerKey'
  BY DEF ApiInvariant, OnePaymentPerKey
<1>4. QED BY <1>1, <1>2, <1>3 DEF ApiInvariant

\* A request that is busy has been sent.
LEMMA BusyRequest ==
  ASSUME TypeOK, NEW r \in Requests, pc[r] \notin {"unsent", "done"}
  PROVE  /\ request[r] # None /\ request[r].key \in Keys
         /\ request[r].payload \in Payloads
         /\ request[r] = [key |-> request[r].key, payload |-> request[r].payload]
         /\ answer[r] = None
  BY DEF TypeOK

-----------------------------------------------------------------------------
(* One lemma per action *)

LEMMA InitHolds == Init => ApiInvariant
  BY ApiAssumption DEF Init, ApiInvariant, TypeOK, Labels, OnePaymentPerKey,
     RequestOK, ReadOK, Answered

LEMMA SendStep ==
  ASSUME ApiInvariant, NEW r \in Requests, NEW key \in Keys, NEW payload \in Payloads,
         Send(r, key, payload)
  PROVE  ApiInvariant'
<1>1. [key |-> key, payload |-> payload] # None
  BY ApiAssumption
<1>2. TypeOK'
  BY <1>1 DEF ApiInvariant, TypeOK, Send, Labels
<1>3. RequestOK(r)'
  BY <1>2, UnansweredRequest DEF Send, ApiInvariant, TypeOK
<1>4. QED BY <1>2, <1>3, LocalStep DEF Send, ApiInvariant, TypeOK

\* An answer that claims nothing about the table.
LEMMA RefuseStep ==
  ASSUME ApiInvariant, NEW r \in Requests, NEW faults \in SUBSET DOMAIN Codes,
         faults # {}, Refuse(r, faults)
  PROVE  ApiInvariant'
<1> DEFINE code == RefusalCode(faults)
<1>1. code \in {400, 401, 422}
  BY RefusalCodes
<1> HIDE DEF code
<1>2. /\ pc[r] = "unsent" /\ pc' = [pc EXCEPT ![r] = "done"]
      /\ answer' = [answer EXCEPT ![r] = [code |-> code, payment |-> None]]
      /\ UNCHANGED <<payments, outbox, request, gets>>
  BY DEF Refuse, Respond, code
<1>3. TypeOK'
  BY <1>1, <1>2 DEF ApiInvariant, TypeOK, Labels, Answers
<1>4. RequestOK(r)'
  BY <1>1, <1>2 DEF ApiInvariant, TypeOK, RequestOK, Answered
<1>5. QED BY <1>2, <1>3, <1>4, LocalStep DEF ApiInvariant, TypeOK

\* Replaying or refusing tells the truth about the row it is done for.
LEMMA ReplayStep ==
  ASSUME ApiInvariant, NEW r \in Requests, pc[r] \in {"lookup", "recheck"},
         NEW row \in Existing(r), Replay(r, row),
         UNCHANGED <<payments, outbox, request, gets>>
  PROVE  ApiInvariant'
<1>1. /\ row \in payments /\ row.id \in Requests /\ row.key = request[r].key
      /\ row = [id |-> row.id, key |-> row.key, hash |-> row.hash]
  BY DEF Existing, ApiInvariant, TypeOK
<1>2. request[r] # None
  BY BusyRequest DEF ApiInvariant
<1>3. CASE row.hash = RequestHash(request[r].payload) /\ Respond(r, 202, row.id)
  <2>1. TypeOK'
    BY <1>1, <1>3 DEF ApiInvariant, TypeOK, Respond, Labels, Answers
  <2>2. RequestOK(r)'
    BY <1>1, <1>2, <1>3 DEF ApiInvariant, TypeOK, Respond, RequestOK, Answered, OwnRow, Row
  <2>3. QED BY <1>3, <2>1, <2>2, LocalStep DEF Respond, ApiInvariant, TypeOK
<1>4. CASE row.hash # RequestHash(request[r].payload) /\ Respond(r, 409, None)
  <2>1. TypeOK'
    BY <1>4 DEF ApiInvariant, TypeOK, Respond, Labels, Answers
  <2>2. row \in Existing(r)'
    BY DEF Existing
  <2>3. RequestOK(r)'
    BY <1>2, <1>4, <2>2 DEF ApiInvariant, TypeOK, Respond, RequestOK, Answered
  <2>4. QED BY <1>4, <2>1, <2>3, LocalStep DEF Respond, ApiInvariant, TypeOK
<1>5. QED BY <1>3, <1>4 DEF Replay

LEMMA LookupStep ==
  ASSUME ApiInvariant, NEW r \in Requests, Lookup(r)
  PROVE  ApiInvariant'
<1>1. CASE Existing(r) = {} /\ pc' = [pc EXCEPT ![r] = "insert"] /\ UNCHANGED answer
  <2>1. TypeOK'
    BY <1>1 DEF ApiInvariant, TypeOK, Lookup, Labels
  <2>2. RequestOK(r)'
    BY <1>1, <2>1, UnansweredRequest DEF ApiInvariant, TypeOK
  <2>3. QED BY <1>1, <2>1, <2>2, LocalStep DEF Lookup, ApiInvariant, TypeOK
<1>2. CASE \E row \in Existing(r) : Replay(r, row)
  BY <1>2, ReplayStep DEF Lookup
<1>3. QED BY <1>1, <1>2 DEF Lookup

\* A new row joins a table without that key; its event joins the outbox.
LEMMA InsertStep ==
  ASSUME ApiInvariant, NEW r \in Requests, Insert(r)
  PROVE  ApiInvariant'
<1>1. /\ request[r].key \in Keys /\ request[r].payload \in Payloads
      /\ request[r] # None /\ answer[r] = None
  BY BusyRequest DEF ApiInvariant, Insert
<1>2. CASE ~ViolatesUnique(r) /\ pc' = [pc EXCEPT ![r] = "refresh"]
  <2>1. payments' = payments \cup {OwnRow(r)} /\ outbox' = outbox \cup {r}
    BY <1>2 DEF Insert, OwnRow, Row
  <2>2. OwnRow(r) \in [id : Requests, key : Keys, hash : Hashes]
    BY <1>1, HashType DEF OwnRow, Row
  <2>3. UNCHANGED <<request, answer, gets>> BY DEF Insert
  <2>4. TypeOK'
    BY <1>1, <1>2, <2>1, <2>2, <2>3 DEF ApiInvariant, TypeOK, Labels
  <2>5. OnePaymentPerKey'
    <3>1. \A row \in payments : row.key # OwnRow(r).key
      BY <1>2 DEF ViolatesUnique, OwnRow, Row
    <3>2. OwnRow(r).id = r BY DEF OwnRow, Row
    <3>3. QED BY <2>1, <3>1, <3>2 DEF ApiInvariant, OnePaymentPerKey
  <2>6. ASSUME NEW s \in Requests PROVE RequestOK(s)'
    <3>1. CASE s = r
      <4>1. OwnRow(r)' = OwnRow(r) BY <2>3 DEF OwnRow, Row
      <4>2. pc'[r] = "refresh" BY <1>2 DEF ApiInvariant, TypeOK
      <4>3. QED BY <1>1, <2>1, <2>3, <3>1, <4>1, <4>2 DEF RequestOK, Answered
    <3>2. CASE s # r
      BY <1>2, <2>1, <2>3, <3>2, OtherRequest DEF ApiInvariant, TypeOK
    <3>3. QED BY <3>1, <3>2
  <2>7. ASSUME NEW g \in Reads PROVE ReadOK(g)'
    BY <2>1, <2>3, OtherRead DEF ApiInvariant
  <2>8. QED BY <2>4, <2>5, <2>6, <2>7 DEF ApiInvariant
<1>3. CASE ViolatesUnique(r) /\ pc' = [pc EXCEPT ![r] = "recheck"]
           /\ UNCHANGED <<payments, outbox>>
  <2>1. UNCHANGED <<request, answer, gets>> BY DEF Insert
  <2>2. TypeOK'
    BY <1>1, <1>3, <2>1 DEF ApiInvariant, TypeOK, Labels
  <2>3. Existing(r)' # {}
    BY <1>3, <2>1 DEF ViolatesUnique, Existing
  <2>4. RequestOK(r)'
    BY <1>1, <1>3, <2>1, <2>3 DEF ApiInvariant, TypeOK, RequestOK, Answered
  <2>5. QED BY <1>3, <2>1, <2>2, <2>4, LocalStep DEF ApiInvariant, TypeOK
<1>4. QED BY <1>2, <1>3 DEF Insert

LEMMA RefreshStep ==
  ASSUME ApiInvariant, NEW r \in Requests, Refresh(r)
  PROVE  ApiInvariant'
<1>1. request[r] # None /\ Row(r, r) \in payments
  BY BusyRequest DEF ApiInvariant, Refresh, RequestOK, OwnRow, Row
<1>2. TypeOK'
  BY DEF ApiInvariant, TypeOK, Refresh, Respond, Labels, Answers
<1>3. Row(r, r)' = Row(r, r)
  BY DEF Row, Refresh
<1>4. RequestOK(r)'
  BY <1>1, <1>3 DEF ApiInvariant, TypeOK, Refresh, Respond, RequestOK, Answered
<1>5. QED BY <1>2, <1>4, LocalStep DEF Refresh, Respond, ApiInvariant, TypeOK

\* The winner of the race is there, so that the error is not raised again.
LEMMA RecheckStep ==
  ASSUME ApiInvariant, NEW r \in Requests, Recheck(r)
  PROVE  ApiInvariant'
<1>1. Existing(r) # {}
  BY DEF ApiInvariant, Recheck, RequestOK
<1>2. QED BY <1>1, ReplayStep DEF Recheck

LEMMA FailStep ==
  ASSUME ApiInvariant, NEW r \in Requests, Fail(r)
  PROVE  ApiInvariant'
<1>1. TypeOK'
  BY DEF ApiInvariant, TypeOK, Fail, Labels
<1>2. RequestOK(r)'
  BY BusyRequest DEF ApiInvariant, TypeOK, Fail, RequestOK, Answered
<1>3. QED BY <1>1, <1>2, LocalStep DEF Fail, ApiInvariant, TypeOK

\* What some client has been told of is in the table.
LEMMA KnownIsStored ==
  ASSUME ApiInvariant, NEW id, Known(id)
  PROVE  Stored(id)
<1>1. CASE \E r \in Requests : Answered(r, 202) /\ answer[r].payment = id
  <2>1. PICK r \in Requests : Answered(r, 202) /\ answer[r].payment = id
    BY <1>1
  <2>2. Row(r, id) \in payments /\ Row(r, id).id = id
    BY <2>1 DEF ApiInvariant, RequestOK, Row
  <2>3. QED BY <2>2 DEF Stored
<1>2. CASE \E g \in Reads : found[g] = 200 /\ query[g].payment = id
  BY <1>2 DEF ApiInvariant, ReadOK
<1>3. QED BY <1>1, <1>2 DEF Known

\* A step of one read.
LEMMA ReadStep ==
  ASSUME ApiInvariant, NEW g \in Reads, UNCHANGED <<payments, outbox, posts>>,
         TypeOK', ReadOK(g)',
         \A h \in Reads \ {g} : query'[h] = query[h] /\ found'[h] = found[h]
  PROVE  ApiInvariant'
<1>1. \A r \in Requests : RequestOK(r)'
  BY OtherRequest DEF ApiInvariant
<1>2. \A h \in Reads : ReadOK(h)'
  BY OtherRead DEF ApiInvariant
<1>3. OnePaymentPerKey'
  BY DEF ApiInvariant, OnePaymentPerKey
<1>4. QED BY <1>1, <1>2, <1>3 DEF ApiInvariant

LEMMA AskStep ==
  ASSUME ApiInvariant, NEW g \in Reads, NEW id \in Requests, Ask(g, id)
  PROVE  ApiInvariant'
<1>1. Known(id) \in BOOLEAN
  BY DEF Known
<1>2. TypeOK'
  BY <1>1 DEF ApiInvariant, TypeOK, Ask
<1>3. ReadOK(g)'
  <2>1. query'[g] = [payment |-> id, known |-> Known(id)] /\ found'[g] = None
    BY DEF Ask, ApiInvariant, TypeOK
  <2>2. Known(id) => Stored(id)'
    BY KnownIsStored DEF Ask, Stored
  <2>3. QED BY <2>1, <2>2, ApiAssumption DEF ReadOK, Stored
<1>4. QED BY <1>2, <1>3, ReadStep DEF Ask, ApiInvariant, TypeOK

LEMMA GetPaymentStep ==
  ASSUME ApiInvariant, NEW g \in Reads, GetPayment(g)
  PROVE  ApiInvariant'
<1>1. TypeOK'
  BY DEF ApiInvariant, TypeOK, GetPayment
<1>2. ReadOK(g)'
  BY DEF ApiInvariant, TypeOK, GetPayment, ReadOK, Stored
<1>3. QED BY <1>1, <1>2, ReadStep DEF GetPayment, ApiInvariant, TypeOK

LEMMA RefuseReadStep ==
  ASSUME ApiInvariant, NEW g \in Reads, RefuseRead(g)
  PROVE  ApiInvariant'
<1>1. PICK code \in {401, 422} : found' = [found EXCEPT ![g] = code]
  <2>1. PICK fault \in {"api_key", "body"} :
          found' = [found EXCEPT ![g] = RefusalCode({fault})]
    BY DEF RefuseRead
  <2>2. {fault} \in SUBSET DOMAIN Codes /\ Codes[fault] \in {401, 422}
    BY <2>1 DEF Codes
  <2>3. RefusalCode({fault}) = Codes[fault]
    BY <2>2, RefusalCodes
  <2>4. RefusalCode({fault}) \in {401, 422}
    BY <2>2, <2>3
  <2>5. QED BY <2>1, <2>4
<1>2. TypeOK'
  BY <1>1 DEF ApiInvariant, TypeOK, RefuseRead
<1>3. ReadOK(g)'
  BY <1>1 DEF ApiInvariant, TypeOK, RefuseRead, ReadOK
<1>4. QED BY <1>1, <1>2, <1>3, ReadStep DEF RefuseRead, ApiInvariant, TypeOK

-----------------------------------------------------------------------------
(* The theorems *)

LEMMA NextPreserves == ApiInvariant /\ [Next]_vars => ApiInvariant'
<1> SUFFICES ASSUME ApiInvariant, [Next]_vars PROVE ApiInvariant'
  OBVIOUS
<1>1. CASE UNCHANGED vars
  <2>1. \A r \in Requests : RequestOK(r)'
    BY <1>1, OtherRequest DEF ApiInvariant, vars
  <2>2. \A g \in Reads : ReadOK(g)'
    BY <1>1, OtherRead DEF ApiInvariant, vars
  <2>3. TypeOK' /\ OnePaymentPerKey'
    BY <1>1 DEF ApiInvariant, vars, TypeOK, OnePaymentPerKey
  <2>4. QED BY <2>1, <2>2, <2>3 DEF ApiInvariant
<1>2. ASSUME NEW r \in Requests,
             \/ \E key \in Keys, payload \in Payloads : Send(r, key, payload)
             \/ \E faults \in (SUBSET DOMAIN Codes) \ {{}} : Refuse(r, faults)
             \/ Lookup(r) \/ Insert(r) \/ Refresh(r) \/ Recheck(r) \/ Fail(r)
      PROVE  ApiInvariant'
  <2>1. CASE \E key \in Keys, payload \in Payloads : Send(r, key, payload)
    BY <2>1, SendStep
  <2>2. CASE \E faults \in (SUBSET DOMAIN Codes) \ {{}} : Refuse(r, faults)
    <3>1. PICK faults \in (SUBSET DOMAIN Codes) \ {{}} : Refuse(r, faults)
      BY <2>2
    <3>2. faults \in SUBSET DOMAIN Codes /\ faults # {}
      OBVIOUS
    <3>3. QED BY <3>1, <3>2, RefuseStep
  <2>3. CASE Lookup(r) \/ Insert(r) \/ Refresh(r) \/ Recheck(r) \/ Fail(r)
    BY <2>3, LookupStep, InsertStep, RefreshStep, RecheckStep, FailStep
  <2>4. QED BY <1>2, <2>1, <2>2, <2>3
<1>3. ASSUME NEW g \in Reads,
             (\E id \in Requests : Ask(g, id)) \/ GetPayment(g) \/ RefuseRead(g)
      PROVE  ApiInvariant'
  BY <1>3, AskStep, GetPaymentStep, RefuseReadStep
<1>4. QED BY <1>1, <1>2, <1>3 DEF Next

\* PaymentService.create_payment and get_payment keep the invariant, however
\* requests race, repeat and fail.
THEOREM ApiInvariantHolds == Spec => []ApiInvariant
  BY InitHolds, NextPreserves, PTL DEF Spec

\* Rows, requests and answers stay in their domains.
THEOREM ApiTypeCorrectness == Spec => []TypeOK
<1>1. ApiInvariant => TypeOK BY DEF ApiInvariant
<1>2. QED BY <1>1, ApiInvariantHolds, PTL

\* An idempotency key names one payment, with one first event in the outbox.
THEOREM KeysAreUnique == Spec => []OnePaymentPerKey
<1>1. ApiInvariant => OnePaymentPerKey BY DEF ApiInvariant
<1>2. QED BY <1>1, ApiInvariantHolds, PTL

\* A client that is told 202 is told the row its key and its payload stand for.
THEOREM AnswersAreTrue == Spec => []AcceptedIsStored
<1>1. ApiInvariant => AcceptedIsStored
  BY DEF ApiInvariant, AcceptedIsStored, RequestOK, Row
<1>2. QED BY <1>1, ApiInvariantHolds, PTL

\* Of two equal requests never one is accepted and the other refused.
THEOREM RepetitionIsSafe == Spec => []RetriesAreReplayed
<1>1. ApiInvariant => RetriesAreReplayed
  <2> SUFFICES ASSUME ApiInvariant, NEW r \in Requests, NEW s \in Requests,
                      Answered(r, 202), Answered(s, 409), request[r] = request[s]
               PROVE  FALSE
    BY DEF RetriesAreReplayed
  <2>1. Row(r, answer[r].payment) \in payments
    BY DEF ApiInvariant, RequestOK
  <2>2. PICK row \in payments : row.key = request[s].key
                                /\ row.hash # RequestHash(request[s].payload)
    BY DEF ApiInvariant, RequestOK, Existing
  <2>3. row = Row(r, answer[r].payment)
    BY <2>1, <2>2 DEF ApiInvariant, OnePaymentPerKey, Row
  <2>4. QED BY <2>2, <2>3 DEF Row
<1>2. QED BY <1>1, ApiInvariantHolds, PTL

\* The loser of the race for a key finds the winner's row.
THEOREM RacesAreDecided == Spec => []RaceHasAWinner
<1>1. ApiInvariant => RaceHasAWinner BY DEF ApiInvariant, RequestOK, RaceHasAWinner
<1>2. QED BY <1>1, ApiInvariantHolds, PTL

\* A payment some client was told of is found by every later read.
THEOREM ReadsFollowAnswers == Spec => []KnownIsNeverMissing
<1>1. ApiInvariant => KnownIsNeverMissing
  BY DEF ApiInvariant, ReadOK, KnownIsNeverMissing
<1>2. QED BY <1>1, ApiInvariantHolds, PTL

\* Payloads accepted under one key have the same text, up to exponents.
THEOREM AcceptedTexts == Spec => []AcceptedTextsAgree
<1>1. ApiInvariant => AcceptedTextsAgree
  <2> SUFFICES ASSUME ApiInvariant, NEW r \in Requests, NEW s \in Requests,
                      Answered(r, 202), Answered(s, 202),
                      request[r].key = request[s].key
               PROVE  /\ request[r].payload.rest = request[s].payload.rest
                      /\ request[r].payload.amount = "10.00"
                           <=> request[s].payload.amount = "10.00"
    BY DEF AcceptedTextsAgree
  <2>1. /\ Row(r, answer[r].payment) \in payments
        /\ Row(s, answer[s].payment) \in payments
        /\ request[r].payload \in Payloads /\ request[s].payload \in Payloads
    BY DEF ApiInvariant, RequestOK, TypeOK
  <2>2. Row(r, answer[r].payment) = Row(s, answer[s].payment)
    BY <2>1 DEF ApiInvariant, OnePaymentPerKey, Row
  <2>3. RequestHash(request[r].payload) = RequestHash(request[s].payload)
    BY <2>2 DEF Row
  <2>4. QED BY <2>1, <2>3, EqualHashes
<1>2. QED BY <1>1, ApiInvariantHolds, PTL
=============================================================================
