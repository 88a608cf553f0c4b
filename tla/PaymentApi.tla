----------------------------- MODULE PaymentApi -----------------------------
(***************************************************************************)
(* The two operations of /api/v1/payments.                                 *)
(*                                                                         *)
(* POST is PaymentService.create_payment under concurrent and repeated     *)
(* requests.  Between looking an idempotency key up and committing a new   *)
(* row another request may commit the same key; the unique constraint then *)
(* fails the commit and the service looks again.  A request may fail       *)
(* anywhere, after the commit too, and the client may send the same key    *)
(* again, with the same payload or another one.                            *)
(*                                                                         *)
(* GET reads one row, at any time between the client's asking and the      *)
(* response.  Both refuse faulty requests before the service sees them.    *)
(***************************************************************************)
EXTENDS Naturals, Sequences

CONSTANTS
  Requests,  \* the POSTs clients ever send; also the id each would mint
  Reads,     \* the GETs clients ever send
  Keys,      \* idempotency keys
  Rests,     \* the payload but for the amount
  None       \* no row, nothing asked, and no answer yet

\* Three texts a client may send for one amount, as the string of the JSON body.
Payloads == [amount : {"10", "1e1", "10.00"}, rest : Rests]

ASSUME ApiAssumption ==
  /\ None \notin Requests
  /\ None \notin [key : Keys, payload : Payloads]
  /\ None \notin Nat

VARIABLES
  payments,  \* the payments table: [id, key, hash] per row
  outbox,    \* the payments whose first event is in the outbox table
  pc,        \* where each request is
  request,   \* what the client sent: [key, payload]
  answer,    \* the response: [code, payment]
  query,     \* what a GET asks for: [payment, known]
  found      \* the code of its response

posts == <<pc, request, answer>>
gets  == <<query, found>>
vars  == <<payments, outbox, posts, gets>>

Labels == {"unsent", "lookup", "insert", "refresh", "recheck", "done"}

Init ==
  /\ payments = {}
  /\ outbox   = {}
  /\ pc       = [r \in Requests |-> "unsent"]
  /\ request  = [r \in Requests |-> None]
  /\ answer   = [r \in Requests |-> None]
  /\ query    = [g \in Reads |-> None]
  /\ found    = [g \in Reads |-> None]

-----------------------------------------------------------------------------
(* Helpers *)

\* Mutant: the amount is compared as a number.
NumericHash(payload) == [amount |-> "10", rest |-> payload.rest]

\* build_request_hash digests format(amount, "f"), which spells exponents out
\* and keeps trailing zeros.
RequestHash(payload) ==
  [amount |-> IF payload.amount = "1e1" THEN "10" ELSE payload.amount,
   rest   |-> payload.rest]

\* _get_by_idempotency_key.
Existing(r) == {row \in payments : row.key = request[r].key}

\* Mutant: any committed row with the same payload fails the commit, too.
UniquePayloads(r) ==
  \E row \in payments : \/ row.key = request[r].key
                        \/ row.hash = RequestHash(request[r].payload)

\* The unique constraint on idempotency_key.
ViolatesUnique(r) == \E row \in payments : row.key = request[r].key

\* Mutant: the handler goes on after it has responded.
RespondOnly(r, code, id) ==
  /\ answer' = [answer EXCEPT ![r] = [code |-> code, payment |-> id]]
  /\ UNCHANGED pc

Respond(r, code, id) ==
  /\ answer' = [answer EXCEPT ![r] = [code |-> code, payment |-> id]]
  /\ pc' = [pc EXCEPT ![r] = "done"]

\* Mutant: any row of the key is replayed.
ReplayAnyPayload(r, row) == Respond(r, 202, row.id)

\* Mutant: the digest is compared with the text as it was sent.
ReplaySentText(r, row) ==
  \/ row.hash = request[r].payload /\ Respond(r, 202, row.id)
  \/ row.hash # request[r].payload /\ Respond(r, 409, None)

\* _ensure_same_payload: replay the row, or refuse.
Replay(r, row) ==
  \/ /\ row.hash = RequestHash(request[r].payload)
     /\ Respond(r, 202, row.id)
  \/ /\ row.hash # RequestHash(request[r].payload)
     /\ Respond(r, 409, None)

\* What can be wrong with a request, in the order it is noticed: the body is
\* decoded first, then come the dependencies of the router and of the endpoint;
\* an unsafe webhook URL cuts the validation of the body short.
Faults == <<"json", "api_key", "idempotency_key", "webhook_url", "body">>

\* RequestValidationError, UnauthorizedError and BadRequestError.
Codes == [json |-> 422, api_key |-> 401, idempotency_key |-> 400,
          webhook_url |-> 400, body |-> 422]

RefusalCode(faults) ==
  LET first == CHOOSE j \in DOMAIN Faults :
                 Faults[j] \in faults /\ \A i \in 1..(j - 1) : Faults[i] \notin faults
  IN  Codes[Faults[first]]

Answered(r, code) == answer[r] # None /\ answer[r].code = code

\* Some client has been told that this payment exists.
Known(id) ==
  \/ \E r \in Requests : Answered(r, 202) /\ answer[r].payment = id
  \/ \E g \in Reads : found[g] = 200 /\ query[g].payment = id

-----------------------------------------------------------------------------
(* Actions *)

\* A request with these faults never reaches the service.
Refuse(r, faults) ==
  /\ pc[r] = "unsent"
  /\ Respond(r, RefusalCode(faults), None)
  /\ UNCHANGED <<payments, outbox, request, gets>>

\* A client sends a request: a first one, or a retry of an earlier one.
Send(r, key, payload) ==
  /\ pc[r] = "unsent"
  /\ pc' = [pc EXCEPT ![r] = "lookup"]
  /\ request' = [request EXCEPT ![r] = [key |-> key, payload |-> payload]]
  /\ UNCHANGED <<payments, outbox, answer, gets>>

Lookup(r) ==
  /\ pc[r] = "lookup"
  /\ \/ /\ Existing(r) = {}
        /\ pc' = [pc EXCEPT ![r] = "insert"]
        /\ UNCHANGED answer
     \/ \E row \in Existing(r) : Replay(r, row)
  /\ UNCHANGED <<payments, outbox, request, gets>>

\* Mutant: the event is added although the payment's insert was rolled back.
InsertEventAnyway(r) ==
  /\ pc[r] = "insert"
  /\ outbox' = outbox \cup {r}
  /\ \/ /\ ~ViolatesUnique(r)
        /\ payments' = payments \cup
             {[id |-> r, key |-> request[r].key, hash |-> RequestHash(request[r].payload)]}
        /\ pc' = [pc EXCEPT ![r] = "refresh"]
     \/ /\ ViolatesUnique(r)
        /\ pc' = [pc EXCEPT ![r] = "recheck"]
        /\ UNCHANGED payments
  /\ UNCHANGED <<request, answer, gets>>

\* Mutant: the rows are flushed, and the transaction is never committed.
InsertOnlyFlushes(r) ==
  /\ pc[r] = "insert"
  /\ pc' = [pc EXCEPT ![r] = IF ViolatesUnique(r) THEN "recheck" ELSE "refresh"]
  /\ UNCHANGED <<payments, outbox, request, answer, gets>>

\* One transaction inserts the payment and its event, or neither.
Insert(r) ==
  /\ pc[r] = "insert"
  /\ \/ /\ ~ViolatesUnique(r)
        /\ payments' = payments \cup
             {[id |-> r, key |-> request[r].key, hash |-> RequestHash(request[r].payload)]}
        /\ outbox' = outbox \cup {r}
        /\ pc' = [pc EXCEPT ![r] = "refresh"]
     \/ /\ ViolatesUnique(r)
        /\ pc' = [pc EXCEPT ![r] = "recheck"]
        /\ UNCHANGED <<payments, outbox>>
  /\ UNCHANGED <<request, answer, gets>>

\* The row is read back and returned.
Refresh(r) ==
  /\ pc[r] = "refresh"
  /\ Respond(r, 202, r)
  /\ UNCHANGED <<payments, outbox, request, gets>>

\* After the lost race: the winner's row, or the IntegrityError once more.
Recheck(r) ==
  /\ pc[r] = "recheck"
  /\ IF Existing(r) = {} THEN Respond(r, 500, None)
     ELSE \E row \in Existing(r) : Replay(r, row)
  /\ UNCHANGED <<payments, outbox, request, gets>>

\* The process or the connection dies; the client learns nothing.
Fail(r) ==
  /\ pc[r] \in {"lookup", "insert", "refresh", "recheck"}
  /\ pc' = [pc EXCEPT ![r] = "done"]
  /\ UNCHANGED <<payments, outbox, request, answer, gets>>

\* A client asks for a payment, which may not exist.
Ask(g, id) ==
  /\ query[g] = None /\ found[g] = None
  /\ query' = [query EXCEPT ![g] = [payment |-> id, known |-> Known(id)]]
  /\ UNCHANGED <<payments, outbox, posts, found>>

\* get_payment: the row, or NotFoundError.
GetPayment(g) ==
  /\ query[g] # None /\ found[g] = None
  /\ found' = [found EXCEPT ![g] =
       IF \E row \in payments : row.id = query[g].payment THEN 200 ELSE 404]
  /\ UNCHANGED <<payments, outbox, posts, query>>

\* No API key, or no UUID in the path.
RefuseRead(g) ==
  /\ query[g] = None /\ found[g] = None
  /\ \E fault \in {"api_key", "body"} :
       found' = [found EXCEPT ![g] = RefusalCode({fault})]
  /\ UNCHANGED <<payments, outbox, posts, query>>

Next ==
  \/ \E r \in Requests :
       \/ \E key \in Keys, payload \in Payloads : Send(r, key, payload)
       \/ \E faults \in (SUBSET DOMAIN Codes) \ {{}} : Refuse(r, faults)
       \/ Lookup(r)
       \/ Insert(r)
       \/ Refresh(r)
       \/ Recheck(r)
       \/ Fail(r)
  \/ \E g \in Reads :
       \/ \E id \in Requests : Ask(g, id)
       \/ GetPayment(g)
       \/ RefuseRead(g)

Spec == Init /\ [][Next]_vars

-----------------------------------------------------------------------------
(* Properties *)

Answers == [code : {202, 400, 401, 409, 422, 500}, payment : Requests \cup {None}]

Hashes == [amount : {"10", "10.00"}, rest : Rests]

\* Type correctness, and the local state each label implies.
TypeOK ==
  /\ payments \subseteq [id : Requests, key : Keys, hash : Hashes]
  /\ outbox \subseteq Requests
  /\ pc \in [Requests -> Labels]
  /\ request \in [Requests -> [key : Keys, payload : Payloads] \cup {None}]
  /\ answer \in [Requests -> Answers \cup {None}]
  /\ query \in [Reads -> [payment : Requests, known : BOOLEAN] \cup {None}]
  /\ found \in [Reads -> {200, 401, 404, 422, None}]
  /\ \A r \in Requests : pc[r] \notin {"unsent", "done"} => request[r] # None
  /\ \A r \in Requests : pc[r] # "done" => answer[r] = None

\* However requests race, an idempotency key names at most one payment, and
\* each payment has exactly its own first event in the outbox.
OnePaymentPerKey ==
  /\ \A a, b \in payments : a.key = b.key => a = b
  /\ outbox = {row.id : row \in payments}

\* A client that is told 202 is told the payment its key stands for, and that
\* payment was made from the very payload it sent.
AcceptedIsStored ==
  \A r \in Requests : Answered(r, 202) =>
    [id   |-> answer[r].payment,
     key  |-> request[r].key,
     hash |-> RequestHash(request[r].payload)] \in payments

\* Repeating a request is safe: of two requests with one key and one payload
\* never one is accepted and the other refused.
RetriesAreReplayed ==
  \A r, s \in Requests :
    Answered(r, 202) /\ Answered(s, 409) => request[r] # request[s]

\* The error that is raised again after a lost race never reaches a client:
\* whoever won the race is visible to the second lookup.
RaceHasAWinner == \A r \in Requests : ~Answered(r, 500)

\* What a client has been told exists is never missing afterwards: not in a GET
\* that is sent after another client was answered 202, or 200, for the payment.
KnownIsNeverMissing ==
  \A g \in Reads : query[g] # None /\ query[g].known => found[g] # 404

\* A key that has been accepted once never accepts a payload with another text.
\* (An exponent is no other text; a trailing zero is.)
AcceptedTextsAgree ==
  \A r, s \in Requests :
    /\ Answered(r, 202) /\ Answered(s, 202) /\ request[r].key = request[s].key
    => /\ request[r].payload.rest = request[s].payload.rest
       /\ request[r].payload.amount = "10.00" <=> request[s].payload.amount = "10.00"
=============================================================================
