---------------------------- MODULE OutboxRelay ----------------------------
(***************************************************************************)
(* The transactional outbox and the relay processes that empty it          *)
(* (OutboxRelayService.publish_pending_events, run for ever by             *)
(* messaging/outbox_relay.py).  A relay leases the oldest unpublished      *)
(* rows, publishes them one after the other and marks each; it may fail or *)
(* die anywhere, and the lease of a row may run out while the relay is     *)
(* still busy with earlier rows of the same batch.                         *)
(*                                                                         *)
(* As in PaymentProcessing a lease timestamp is the relay that wrote it    *)
(* plus membership in the set of leases older than the cutoff: a relay     *)
(* compares timestamps only for rows it leased in its current iteration.   *)
(***************************************************************************)
EXTENDS Naturals, FiniteSets

CONSTANTS
  Rows,        \* outbox rows, numbered in the order of created_at
  Relays,      \* concurrent relay processes
  BatchSize,   \* OUTBOX_BATCH_SIZE
  Poison,      \* rows the broker always refuses
  MaxMishaps,  \* bound: mishaps per row (history)
  None         \* SQL NULL

ASSUME OutboxAssumption ==
  /\ Rows \subseteq Nat
  /\ Poison \subseteq Rows
  /\ BatchSize \in Nat \ {0}
  /\ MaxMishaps \in Nat
  /\ None \notin Relays
  /\ IsFiniteSet(Relays)

VARIABLES
  committed,  \* rows whose business transaction has committed
  published,  \* rows with published_at set
  lease,      \* the relay behind outbox.claimed_at, or None
  expired,    \* rows whose lease is older than the cutoff
  pc,         \* where each relay is: between iterations, publishing, marking
  batch,      \* the rows a relay has leased and not yet dealt with
  copies,     \* how many messages for a row the broker has taken
  mishaps     \* history: crashes, publish errors and overrun leases per row

relayState == <<pc, batch>>
vars == <<committed, published, lease, expired, relayState, copies, mishaps>>

Labels == {"idle", "publish", "mark_published", "mark_failed"}

Init ==
  /\ committed = {}
  /\ published = {}
  /\ lease     = [r \in Rows |-> None]
  /\ expired   = {}
  /\ pc        = [w \in Relays |-> "idle"]
  /\ batch     = [w \in Relays |-> {}]
  /\ copies    = [r \in Rows |-> 0]
  /\ mishaps   = [r \in Rows |-> 0]

-----------------------------------------------------------------------------
(* Helpers *)

\* Mutant: one row less than the limit.
OneFewer(S, n) == {r \in S : Cardinality({s \in S : s < r}) < n - 1}

\* ORDER BY created_at ASC LIMIT n.
OldestFew(S, n) == {r \in S : Cardinality({s \in S : s < r}) < n}

\* The record the for loop is at.
Current(w) == CHOOSE r \in batch[w] : \A s \in batch[w] : r <= s

Mishap(S) ==
  /\ \A r \in S : mishaps[r] < MaxMishaps
  /\ mishaps' = [r \in Rows |-> IF r \in S THEN mishaps[r] + 1 ELSE mishaps[r]]

\* Mutant: the loop does not end with the last record.
AlwaysAnotherRecord(w) ==
  /\ batch' = [batch EXCEPT ![w] = @ \ {Current(w)}]
  /\ pc' = [pc EXCEPT ![w] = "publish"]

\* The loop goes on to the next record, or the iteration is over.
Advance(w) ==
  LET rest == batch[w] \ {Current(w)} IN
  /\ batch' = [batch EXCEPT ![w] = rest]
  /\ pc' = [pc EXCEPT ![w] = IF rest = {} THEN "idle" ELSE "publish"]

-----------------------------------------------------------------------------
(* Actions *)

\* A business transaction commits with its outbox row.  created_at is taken
\* before the commit, so rows need not become visible in its order.
Commit(r) ==
  /\ r \notin committed
  /\ committed' = committed \cup {r}
  /\ UNCHANGED <<published, lease, expired, relayState, copies, mishaps>>

\* Mutant: claimed_at is not looked at.
AnyUnpublished == {r \in committed : r \notin published}

\* Mutant: published_at is not looked at.
AnyUnleased == {r \in committed : lease[r] = None \/ r \in expired}

Claimable ==
  {r \in committed : r \notin published /\ (lease[r] = None \/ r \in expired)}

\* One transaction leases a batch.  SKIP LOCKED passes over the rows that
\* another transaction has locked at that moment.
ClaimPendingEvents(w, locked) ==
  LET records == OldestFew(Claimable \ locked, BatchSize) IN
  /\ pc[w] = "idle" /\ records # {}
  /\ pc' = [pc EXCEPT ![w] = "publish"]
  /\ batch' = [batch EXCEPT ![w] = records]
  /\ lease' = [r \in Rows |-> IF r \in records THEN w ELSE lease[r]]
  /\ expired' = expired \ records
  /\ UNCHANGED <<committed, published, copies, mishaps>>

\* The broker confirms the message.
Publish(w) ==
  /\ pc[w] = "publish" /\ Current(w) \notin Poison
  /\ copies' = [copies EXCEPT ![Current(w)] = @ + 1]
  /\ pc' = [pc EXCEPT ![w] = "mark_published"]
  /\ UNCHANGED <<committed, published, lease, expired, batch, mishaps>>

\* publish() raises; the broker may have taken the message all the same.
PublishFails(w, taken) ==
  /\ pc[w] = "publish" /\ Current(w) \notin Poison
  /\ copies' = [copies EXCEPT ![Current(w)] = @ + taken]
  /\ pc' = [pc EXCEPT ![w] = "mark_failed"]
  /\ Mishap({Current(w)})
  /\ UNCHANGED <<committed, published, lease, expired, batch>>

\* publish() raises for this row whenever it is tried.
PublishRefused(w) ==
  /\ pc[w] = "publish" /\ Current(w) \in Poison
  /\ pc' = [pc EXCEPT ![w] = "mark_failed"]
  /\ UNCHANGED <<committed, published, lease, expired, batch, copies, mishaps>>

\* Mutant: the lease timestamp is not compared.
AnyoneMarks(w) == Current(w) \notin published

\* The WHERE clause shared by _mark_published and _mark_failed.
HoldsLease(w) == Current(w) \notin published /\ lease[Current(w)] = w

ReleaseLease(r) ==
  /\ lease' = [lease EXCEPT ![r] = None]
  /\ expired' = expired \ {r}

MarkPublished(w) ==
  /\ pc[w] = "mark_published"
  /\ \/ /\ HoldsLease(w)
        /\ published' = published \cup {Current(w)}
        /\ ReleaseLease(Current(w))
     \/ /\ ~HoldsLease(w)
        /\ UNCHANGED <<published, lease, expired>>
  /\ Advance(w)
  /\ UNCHANGED <<committed, copies, mishaps>>

\* Mutant: a failed publish is marked like a successful one.
MarkFailedAsPublished(w) ==
  /\ pc[w] = "mark_failed"
  /\ HoldsLease(w) /\ ReleaseLease(Current(w))
  /\ published' = published \cup {Current(w)}
  /\ Advance(w)
  /\ UNCHANGED <<committed, copies, mishaps>>

MarkFailed(w) ==
  /\ pc[w] = "mark_failed"
  /\ \/ HoldsLease(w) /\ ReleaseLease(Current(w))
     \/ ~HoldsLease(w) /\ UNCHANGED <<lease, expired>>
  /\ Advance(w)
  /\ UNCHANGED <<committed, published, copies, mishaps>>

\* The process dies, or a statement raises and the iteration is abandoned:
\* the rest of the batch stays leased.
Crash(w) ==
  /\ pc[w] # "idle"
  /\ Mishap(batch[w])
  /\ pc' = [pc EXCEPT ![w] = "idle"]
  /\ batch' = [batch EXCEPT ![w] = {}]
  /\ UNCHANGED <<committed, published, lease, expired, copies>>

\* The relay that leased r has not dealt with it yet.
Busy(r) == \E w \in Relays : lease[r] = w /\ r \in batch[w]

\* A lease runs out; a mishap when its relay is still on the way to the row.
ExpireLease(r) ==
  /\ lease[r] # None /\ r \notin expired
  /\ expired' = expired \cup {r}
  /\ IF Busy(r) THEN Mishap({r}) ELSE UNCHANGED mishaps
  /\ UNCHANGED <<committed, published, lease, relayState, copies>>

-----------------------------------------------------------------------------
(* Specification *)

Work(w) ==
  \/ ClaimPendingEvents(w, {})
  \/ Publish(w)
  \/ PublishRefused(w)
  \/ MarkPublished(w)
  \/ MarkFailed(w)

Next ==
  \/ \E r \in Rows : Commit(r) \/ ExpireLease(r)
  \/ \E w \in Relays :
       \/ Work(w)
       \/ \E locked \in SUBSET Claimable : ClaimPendingEvents(w, locked)
       \/ \E taken \in {0, 1} : PublishFails(w, taken)
       \/ Crash(w)

Spec == Init /\ [][Next]_vars

\* Relays loop for ever, publish() and the statements return, time passes; row
\* locks last one statement and do not meet a relay's every query.  Mishaps are
\* rationed: eventually the broker and the database are up.
FairSpec ==
  /\ Spec
  /\ \A w \in Relays : WF_vars(Work(w)) /\ SF_vars(ClaimPendingEvents(w, {}))
  /\ \A r \in Rows : WF_vars(ExpireLease(r))

-----------------------------------------------------------------------------
(* Properties *)

\* Type correctness; a relay has a batch exactly while it is in an iteration.
TypeOK ==
  /\ committed \subseteq Rows
  /\ published \subseteq committed
  /\ lease \in [Rows -> Relays \cup {None}]
  /\ expired \subseteq Rows
  /\ pc \in [Relays -> Labels]
  /\ batch \in [Relays -> SUBSET committed]
  /\ \A w \in Relays : pc[w] = "idle" <=> batch[w] = {}
  /\ copies \in [Rows -> Nat]
  /\ mishaps \in [Rows -> 0..MaxMishaps]

\* A row is marked published only after the broker took its message: a crash,
\* a lost confirmation or an overrun lease never loses an event.
PublishedWasSent == \A r \in published : copies[r] >= 1

\* A published row is never leased again, although stale relays may still
\* have it in their batches.
PublishedIsReleased == \A r \in published : lease[r] = None

\* Only its relay, having dealt with the row, may give up a live lease.
KeepsLiveLeases ==
  \A r \in Rows, w \in Relays :
    lease[r] = w /\ r \notin expired /\ lease'[r] # w
      => pc[w] \in {"mark_published", "mark_failed"} /\ r = Current(w) /\ r \notin batch'[w]

\* A relay whose lease ran out mid-batch takes nothing away from the relay that
\* has leased the row since.
LiveLeasesAreKept == [][KeepsLiveLeases]_vars

\* Every message beyond the first is the work of a mishap: a row that met no
\* crash, no publish error and no overrun lease reaches the broker once.
CopiesAccountedFor ==
  \A r \in Rows :
    copies[r] <= mishaps[r]
                 + (IF r \in published THEN 1 ELSE 0)
                 + (IF \E w \in Relays : /\ pc[w] = "mark_published"
                                         /\ Current(w) = r /\ lease[r] = w
                    THEN 1 ELSE 0)

\* Every event the broker takes is eventually published, however old rows and
\* full batches, crashed relays and expired leases get in each other's way, and
\* although the oldest rows are claimed first and refused rows come back at once.
\* (That takes fewer refused rows than a batch holds.)
EveryRowIsPublished == \A r \in Rows \ Poison : r \in committed ~> r \in published
=============================================================================
