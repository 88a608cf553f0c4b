---------------------------- MODULE OutboxProofs ----------------------------
(***************************************************************************)
(* Machine-checked proofs about OutboxRelay, for any rows, any number of   *)
(* relays, any batch size and any number of mishaps.                       *)
(***************************************************************************)
EXTENDS OutboxRelay, FiniteSetTheorems, TLAPS

-----------------------------------------------------------------------------
(* The inductive invariant *)

\* Relay w has leased row r and not tried to publish it yet.
Ahead(w, r) == r \in batch[w] /\ (pc[w] = "publish" \/ r # Current(w))

\* The relays that are going to publish r although their lease has run out or
\* is somebody else's by now.  A mishap has made each of them one.
Stale(r) == {w \in Relays : Ahead(w, r) /\ (lease[r] # w \/ r \in expired)}

\* A live lease will turn the last message for r into its publication.
Confirmed(r) ==
  \E w \in Relays : /\ pc[w] = "mark_published" /\ Current(w) = r
                    /\ lease[r] = w /\ r \notin expired

\* Messages sent and duplicates to come, against the mishaps that explain them.
Accounted(r) ==
  copies[r] + Cardinality(Stale(r))
    <= mishaps[r] + (IF r \in published THEN 1 ELSE 0) + (IF Confirmed(r) THEN 1 ELSE 0)

\* What a relay is about to mark published the broker has.
MarksWhatWasSent ==
  \A w \in Relays : pc[w] = "mark_published" => copies[Current(w)] >= 1

OutboxInvariant ==
  /\ TypeOK
  /\ PublishedWasSent
  /\ PublishedIsReleased
  /\ MarksWhatWasSent
  /\ \A r \in Rows : Accounted(r)

-----------------------------------------------------------------------------
(* Lemmas about the helpers *)

\* Numbers have a least one among them.
LEMMA LeastNumber ==
  ASSUME NEW T, T \subseteq Nat, T # {}
  PROVE  \E r \in T : \A s \in T : r <= s
<1>1. PICK r \in T : \A s \in T : ~ (<<s, r>> \in OpToRel(<, Nat))
  BY NatLessThanWellFounded, WFMin, Zenon
<1>2. OpToRel(<, Nat) = {ss \in Nat \X Nat : ss[1] < ss[2]}
  BY Zenon DEF OpToRel
<1>3. \A s \in T : s \in Nat /\ ~ (s < r)
  BY <1>1, <1>2
<1> QED
  BY <1>3

USE OutboxAssumption DEF relayState

\* The record the loop is at is the oldest one of the batch.
LEMMA CurrentIsOldest ==
  ASSUME TypeOK, NEW w \in Relays, pc[w] # "idle"
  PROVE  Current(w) \in batch[w] /\ \A s \in batch[w] : Current(w) <= s
<1>1. batch[w] # {} /\ batch[w] \subseteq Nat
  BY DEF TypeOK
<1> QED
  BY <1>1, LeastNumber DEF Current

\* A relay whose batch stays as it is stays at its record.
LEMMA SameBatchSameCurrent ==
  ASSUME NEW w \in Relays, batch'[w] = batch[w]
  PROVE  Current(w)' = Current(w)
BY DEF Current

\* Relays are finitely many, and so are the stale ones.
LEMMA StaleIsFinite ==
  ASSUME NEW r \in Rows
  PROVE  /\ IsFiniteSet(Stale(r)) /\ Cardinality(Stale(r)) \in Nat
         /\ IsFiniteSet(Stale(r)') /\ Cardinality(Stale(r)') \in Nat
<1>1. Stale(r) \in SUBSET Relays /\ Stale(r)' \in SUBSET Relays
  BY DEF Stale
<1> QED
  BY <1>1, FS_Subset, FS_CardinalityType

LEMMA StaleShrinks ==
  ASSUME NEW r \in Rows, Stale(r)' \subseteq Stale(r)
  PROVE  Cardinality(Stale(r)') <= Cardinality(Stale(r))
BY StaleIsFinite, FS_Subset

LEMMA StaleLosesOne ==
  ASSUME NEW r \in Rows, NEW w \in Stale(r), Stale(r)' \subseteq Stale(r) \ {w}
  PROVE  Cardinality(Stale(r)') <= Cardinality(Stale(r)) - 1
<1>1. /\ IsFiniteSet(Stale(r) \ {w})
      /\ Cardinality(Stale(r) \ {w}) = Cardinality(Stale(r)) - 1
  BY StaleIsFinite, FS_RemoveElement
<1> QED
  BY <1>1, FS_Subset

LEMMA StaleGainsOne ==
  ASSUME NEW r \in Rows, NEW w \in Relays, Stale(r)' \subseteq Stale(r) \cup {w}
  PROVE  Cardinality(Stale(r)') <= Cardinality(Stale(r)) + 1
<1>1. /\ IsFiniteSet(Stale(r) \cup {w})
      /\ Cardinality(Stale(r) \cup {w}) <= Cardinality(Stale(r)) + 1
  BY StaleIsFinite, FS_AddElement
<1>2. Cardinality(Stale(r)') <= Cardinality(Stale(r) \cup {w})
  BY <1>1, FS_Subset
<1> QED
  BY <1>1, <1>2, StaleIsFinite, FS_CardinalityType

\* The books balance after a step that sends nothing for r, makes no relay
\* stale and costs r neither its publication nor its confirmation.
LEMMA CalmSteps ==
  ASSUME OutboxInvariant, TypeOK', NEW r \in Rows,
         copies'[r] = copies[r], mishaps[r] <= mishaps'[r],
         r \in published => r \in published',
         Confirmed(r) => Confirmed(r)' \/ r \in published' \ published,
         Stale(r)' \subseteq Stale(r)
  PROVE  Accounted(r)'
<1>1. Cardinality(Stale(r)') <= Cardinality(Stale(r))
  BY StaleShrinks
<1>2. /\ copies[r] \in Nat /\ mishaps[r] \in Nat /\ mishaps'[r] \in Nat
      /\ Cardinality(Stale(r)') \in Nat /\ Cardinality(Stale(r)) \in Nat
  BY StaleIsFinite DEF TypeOK, OutboxInvariant
<1>3. copies[r] + Cardinality(Stale(r))
        <= mishaps[r] + (IF r \in published THEN 1 ELSE 0) + (IF Confirmed(r) THEN 1 ELSE 0)
  BY DEF OutboxInvariant, Accounted
<1> HIDE DEF Accounted
<1> SUFFICES copies'[r] + Cardinality(Stale(r)')
        <= mishaps'[r] + (IF r \in published' THEN 1 ELSE 0) + (IF Confirmed(r)' THEN 1 ELSE 0)
  BY DEF Accounted
<1> QED
  BY <1>1, <1>2, <1>3

-----------------------------------------------------------------------------
(* Type correctness *)

LEMMA TypeInductive ==
  ASSUME TypeOK, [Next]_vars
  PROVE  TypeOK'
<1>1. ASSUME NEW r \in Rows, Commit(r) PROVE TypeOK'
  BY <1>1 DEF Commit, TypeOK
<1>2. ASSUME NEW r \in Rows, ExpireLease(r) PROVE TypeOK'
  BY <1>2 DEF ExpireLease, Mishap, TypeOK
<1>3. ASSUME NEW w \in Relays, NEW locked, ClaimPendingEvents(w, locked) PROVE TypeOK'
  <2>1. OldestFew(Claimable \ locked, BatchSize) \subseteq committed
    BY DEF OldestFew, Claimable
  <2> QED
    BY <1>3, <2>1 DEF ClaimPendingEvents, TypeOK, Labels
<1>4. ASSUME NEW w \in Relays, Publish(w) PROVE TypeOK'
  <2>1. Current(w) \in Rows
    BY <1>4, CurrentIsOldest DEF Publish, TypeOK
  <2>2. copies' \in [Rows -> Nat]
    <3>1. copies[Current(w)] + 1 \in Nat
      BY ONLY <2>1, TypeOK DEF TypeOK
    <3> QED
      BY <1>4, <3>1 DEF Publish, TypeOK
  <2> QED
    BY <1>4, <2>2 DEF Publish, TypeOK, Labels
<1>5. ASSUME NEW w \in Relays, NEW taken \in {0, 1}, PublishFails(w, taken) PROVE TypeOK'
  <2>1. mishaps' \in [Rows -> 0..MaxMishaps]
    BY <1>5 DEF PublishFails, Mishap, TypeOK
  <2>2. Current(w) \in Rows
    BY <1>5, CurrentIsOldest DEF PublishFails, TypeOK
  <2>3. copies' \in [Rows -> Nat]
    <3>1. copies[Current(w)] + taken \in Nat
      BY ONLY <2>2, TypeOK, taken \in {0, 1} DEF TypeOK
    <3> QED
      BY <1>5, <3>1 DEF PublishFails, TypeOK
  <2> QED
    BY <1>5, <2>1, <2>3 DEF PublishFails, TypeOK, Labels
<1>6. ASSUME NEW w \in Relays, PublishRefused(w) PROVE TypeOK'
  BY <1>6 DEF PublishRefused, TypeOK, Labels
<1>7. ASSUME NEW w \in Relays, MarkPublished(w) \/ MarkFailed(w) PROVE TypeOK'
  <2>1. Current(w) \in committed /\ Current(w) \in Rows
    BY <1>7, CurrentIsOldest DEF TypeOK, MarkPublished, MarkFailed
  <2>2. CASE MarkPublished(w)
    BY <2>1, <2>2 DEF MarkPublished, ReleaseLease, Advance, TypeOK, Labels
  <2>3. CASE MarkFailed(w)
    BY <2>1, <2>3 DEF MarkFailed, ReleaseLease, Advance, TypeOK, Labels
  <2> QED
    BY <1>7, <2>2, <2>3
<1>8. ASSUME NEW w \in Relays, Crash(w) PROVE TypeOK'
  <2>1. mishaps' \in [Rows -> 0..MaxMishaps]
    BY <1>8 DEF Crash, Mishap, TypeOK
  <2> QED
    BY <1>8, <2>1 DEF Crash, TypeOK, Labels
<1>9. CASE UNCHANGED vars
  BY <1>9 DEF vars, TypeOK
<1> QED
  BY <1>1, <1>2, <1>3, <1>4, <1>5, <1>6, <1>7, <1>8, <1>9 DEF Next, Work

-----------------------------------------------------------------------------
(* What is published was sent, and is nobody's any more *)

\* Sent messages stay sent, and a relay marks a row only after its own send.
LEMMA SendingInductive ==
  ASSUME TypeOK, TypeOK', PublishedWasSent, MarksWhatWasSent, [Next]_vars
  PROVE  PublishedWasSent' /\ MarksWhatWasSent'
<1>1. CASE UNCHANGED <<published, copies, pc, batch>>
  BY <1>1, SameBatchSameCurrent DEF PublishedWasSent, MarksWhatWasSent
<1>2. ASSUME NEW w \in Relays, NEW locked, ClaimPendingEvents(w, locked)
      PROVE  PublishedWasSent' /\ MarksWhatWasSent'
  <2>1. \A v \in Relays : pc'[v] = "mark_published" => pc[v] = pc'[v] /\ batch'[v] = batch[v]
    BY <1>2 DEF ClaimPendingEvents, TypeOK
  <2> QED
    BY <1>2, <2>1, SameBatchSameCurrent
       DEF ClaimPendingEvents, PublishedWasSent, MarksWhatWasSent
<1>3. ASSUME NEW w \in Relays,
             Publish(w) \/ PublishRefused(w) \/ \E taken \in {0, 1} : PublishFails(w, taken)
      PROVE  PublishedWasSent' /\ MarksWhatWasSent'
  <2>1. Current(w) \in Rows /\ \A v \in Relays : pc[v] # "idle" => Current(v) \in Rows
    BY <1>3, CurrentIsOldest DEF Publish, PublishRefused, PublishFails, TypeOK
  <2>2. \A r \in Rows : copies[r] <= copies'[r]
    <3>1. \A n \in Nat, d \in {0, 1} : n <= n + d
      OBVIOUS
    <3> QED
      BY <1>3, <2>1, <3>1 DEF Publish, PublishRefused, PublishFails, TypeOK
  <2>3. Publish(w) => copies'[Current(w)] >= 1
    BY ONLY <2>1, TypeOK DEF Publish, TypeOK
  <2>4. \A v \in Relays : pc'[v] = "mark_published" => pc[v] = pc'[v] \/ (v = w /\ Publish(w))
    BY <1>3 DEF Publish, PublishRefused, PublishFails, TypeOK
  <2>5. \A v \in Relays : Current(v)' = Current(v)
    BY <1>3, SameBatchSameCurrent DEF Publish, PublishRefused, PublishFails
  <2>6. published' = published
    BY <1>3 DEF Publish, PublishRefused, PublishFails
  <2>7. \A r \in Rows : copies[r] \in Nat /\ copies'[r] \in Nat
    BY DEF TypeOK
  <2>8. PublishedWasSent'
    BY <2>2, <2>6, <2>7 DEF PublishedWasSent, TypeOK
  <2>9. ASSUME NEW v \in Relays, pc'[v] = "mark_published" PROVE copies'[Current(v)'] >= 1
    <3>1. CASE v = w /\ Publish(w)
      BY <2>3, <2>5, <3>1
    <3>2. CASE pc[v] = "mark_published"
      <4>1. Current(v) \in Rows /\ copies[Current(v)] >= 1
        BY <2>1, <3>2 DEF MarksWhatWasSent
      <4>2. copies[Current(v)] <= copies'[Current(v)]
        BY <2>2, <4>1
      <4> QED
        BY ONLY <2>5, <2>7, <4>1, <4>2
    <3> QED
      BY <2>4, <2>9, <3>1, <3>2
  <2> QED
    BY <2>8, <2>9 DEF MarksWhatWasSent
<1>4. ASSUME NEW w \in Relays, MarkPublished(w) \/ MarkFailed(w) \/ Crash(w)
      PROVE  PublishedWasSent' /\ MarksWhatWasSent'
  <2>1. \A v \in Relays : pc'[v] = "mark_published" => pc[v] = pc'[v] /\ batch'[v] = batch[v]
    BY <1>4 DEF MarkPublished, MarkFailed, Crash, Advance, TypeOK
  <2>2. copies' = copies
    BY <1>4 DEF MarkPublished, MarkFailed, Crash
  <2>3. \A r \in published' : r \in published \/ (pc[w] = "mark_published" /\ r = Current(w))
    BY <1>4 DEF MarkPublished, MarkFailed, Crash
  <2> QED
    BY <2>1, <2>2, <2>3, SameBatchSameCurrent DEF PublishedWasSent, MarksWhatWasSent
<1>5. ASSUME NEW r \in Rows, Commit(r) \/ ExpireLease(r)
      PROVE  PublishedWasSent' /\ MarksWhatWasSent'
  BY <1>1, <1>5 DEF Commit, ExpireLease
<1>6. CASE UNCHANGED vars
  BY <1>1, <1>6 DEF vars
<1> QED
  BY <1>2, <1>3, <1>4, <1>5, <1>6 DEF Next, Work

\* Publication releases the lease, and only unpublished rows are leased.
LEMMA ReleaseInductive ==
  ASSUME TypeOK, PublishedIsReleased, [Next]_vars
  PROVE  PublishedIsReleased'
<1>1. CASE UNCHANGED <<published, lease>>
  BY <1>1 DEF PublishedIsReleased
<1>2. ASSUME NEW w \in Relays, NEW locked, ClaimPendingEvents(w, locked)
      PROVE  PublishedIsReleased'
  <2>1. \A r \in OldestFew(Claimable \ locked, BatchSize) : r \notin published
    BY DEF OldestFew, Claimable
  <2> QED
    BY <1>2, <2>1 DEF ClaimPendingEvents, PublishedIsReleased, TypeOK
<1>3. ASSUME NEW w \in Relays, MarkPublished(w) PROVE PublishedIsReleased'
  <2>1. Current(w) \in Rows
    BY <1>3, CurrentIsOldest DEF MarkPublished, TypeOK
  <2>2. \/ /\ published' = published \cup {Current(w)}
           /\ lease' = [lease EXCEPT ![Current(w)] = None]
        \/ UNCHANGED <<published, lease>>
    BY <1>3 DEF MarkPublished, ReleaseLease
  <2> QED
    BY ONLY TypeOK, PublishedIsReleased, <2>1, <2>2 DEF PublishedIsReleased, TypeOK
<1>4. ASSUME NEW w \in Relays, MarkFailed(w) PROVE PublishedIsReleased'
  BY <1>4 DEF MarkFailed, ReleaseLease, PublishedIsReleased, TypeOK
<1>5. ASSUME NEW w \in Relays,
             \/ Publish(w) \/ PublishRefused(w) \/ Crash(w)
             \/ \E taken \in {0, 1} : PublishFails(w, taken)
      PROVE  PublishedIsReleased'
  BY <1>1, <1>5 DEF Publish, PublishRefused, PublishFails, Crash
<1>6. ASSUME NEW r \in Rows, Commit(r) \/ ExpireLease(r) PROVE PublishedIsReleased'
  BY <1>1, <1>6 DEF Commit, ExpireLease
<1>7. CASE UNCHANGED vars
  BY <1>1, <1>7 DEF vars
<1> QED
  BY <1>2, <1>3, <1>4, <1>5, <1>6, <1>7 DEF Next, Work

-----------------------------------------------------------------------------
(* The books, action by action *)

LEMMA CommitAccounted ==
  ASSUME OutboxInvariant, TypeOK', NEW x \in Rows, Commit(x), NEW r \in Rows
  PROVE  Accounted(r)'
<1>1. \A v \in Relays : Current(v)' = Current(v)
  BY SameBatchSameCurrent DEF Commit
<1>2. Stale(r)' \subseteq Stale(r)
  BY <1>1 DEF Commit, Stale, Ahead
<1>3. Confirmed(r) => Confirmed(r)'
  BY <1>1 DEF Commit, Confirmed
<1> QED
  BY <1>2, <1>3, CalmSteps DEF Commit, OutboxInvariant, TypeOK

\* Whoever is still on the way to a claimable row is stale already.
LEMMA ClaimAccounted ==
  ASSUME OutboxInvariant, TypeOK', NEW w \in Relays, NEW locked,
         ClaimPendingEvents(w, locked), NEW r \in Rows
  PROVE  Accounted(r)'
<1> DEFINE records == OldestFew(Claimable \ locked, BatchSize)
<1>1. records \subseteq Claimable
  BY DEF OldestFew
<1> HIDE DEF records
<1>2. /\ pc[w] = "idle" /\ pc' = [pc EXCEPT ![w] = "publish"]
      /\ batch' = [batch EXCEPT ![w] = records]
      /\ lease' = [x \in Rows |-> IF x \in records THEN w ELSE lease[x]]
      /\ expired' = expired \ records
      /\ UNCHANGED <<committed, published, copies, mishaps>>
  BY DEF ClaimPendingEvents, records
<1>3. \A v \in Relays \ {w} : Current(v)' = Current(v) /\ pc'[v] = pc[v] /\ batch'[v] = batch[v]
  BY <1>2, SameBatchSameCurrent DEF OutboxInvariant, TypeOK
<1>4. r \in records => lease[r] = None \/ r \in expired
  BY <1>1 DEF Claimable
<1>5. w \notin Stale(r)'
  BY <1>2 DEF Stale, Ahead, OutboxInvariant, TypeOK
<1>6. \A v \in Relays \ {w} : v \in Stale(r)' => v \in Stale(r)
  BY <1>2, <1>3, <1>4 DEF Stale, Ahead, OutboxInvariant, TypeOK
<1>7. Stale(r)' \subseteq Stale(r)
  <2>1. \A v : v \in Stale(r)' => v \in Relays
    BY DEF Stale
  <2> QED
    BY <1>5, <1>6, <2>1
<1>8. Confirmed(r) => Confirmed(r)'
  BY <1>2, <1>3, <1>4 DEF Confirmed, OutboxInvariant, TypeOK
<1> QED
  BY <1>2, <1>7, <1>8, CalmSteps DEF OutboxInvariant, TypeOK

\* The relay with the live lease gains a confirmation with its message; any
\* other relay was stale and has now used up its mishap.
LEMMA PublishAccounted ==
  ASSUME OutboxInvariant, TypeOK', NEW w \in Relays, Publish(w), NEW r \in Rows
  PROVE  Accounted(r)'
<1> DEFINE c == Current(w)
<1>1. \A v \in Relays : Current(v)' = Current(v)
  BY SameBatchSameCurrent DEF Publish
<1>2. c \in batch[w] /\ c \in Rows
  BY CurrentIsOldest DEF Publish, OutboxInvariant, TypeOK
<1> HIDE DEF c
<1>3. /\ pc[w] = "publish" /\ pc' = [pc EXCEPT ![w] = "mark_published"]
      /\ copies' = [copies EXCEPT ![c] = copies[c] + 1]
      /\ UNCHANGED <<committed, published, lease, expired, batch, mishaps>>
  BY DEF Publish, c
<1>4. Stale(r)' \subseteq Stale(r)
  BY <1>1, <1>3 DEF Stale, Ahead, OutboxInvariant, TypeOK
<1>5. Confirmed(r) => Confirmed(r)'
  BY <1>1, <1>3 DEF Confirmed, OutboxInvariant, TypeOK
<1>6. CASE r # c
  BY <1>2, <1>3, <1>4, <1>5, <1>6, CalmSteps DEF OutboxInvariant, TypeOK
<1>7. CASE r = c
  <2>1. /\ copies[r] \in Nat /\ copies'[r] = copies[r] + 1
        /\ mishaps[r] \in Nat /\ mishaps'[r] = mishaps[r]
    <3>1. copies \in [Rows -> Nat] /\ mishaps \in [Rows -> 0..MaxMishaps]
      BY DEF OutboxInvariant, TypeOK
    <3> QED
      BY ONLY <1>2, <1>3, <1>7, <3>1
  <2>2. CASE lease[r] = w /\ r \notin expired
    <3>1. r \notin published
      BY <2>2 DEF OutboxInvariant, PublishedIsReleased
    <3>2. ~ Confirmed(r)
      BY <1>3, <2>2 DEF Confirmed
    <3>3. Confirmed(r)'
      BY <1>1, <1>3, <1>7, <2>2 DEF Confirmed, OutboxInvariant, TypeOK, c
    <3> QED
      BY <1>3, <1>4, <2>1, <3>1, <3>2, <3>3, StaleShrinks, StaleIsFinite
         DEF Accounted, OutboxInvariant
  <2>3. CASE lease[r] # w \/ r \in expired
    <3>1. w \in Stale(r)
      BY <1>2, <1>3, <1>7, <2>3 DEF Stale, Ahead
    <3>2. w \notin Stale(r)'
      BY <1>1, <1>3, <1>7 DEF Stale, Ahead, c, OutboxInvariant, TypeOK
    <3>3. Cardinality(Stale(r)') <= Cardinality(Stale(r)) - 1
      BY <1>4, <3>1, <3>2, StaleLosesOne
    <3> QED
      BY <1>3, <1>5, <2>1, <3>3, StaleIsFinite DEF Accounted, OutboxInvariant
  <2> QED
    BY <2>2, <2>3
<1> QED
  BY <1>6, <1>7

\* A publish error pays for the message the broker may have taken.
LEMMA FailureAccounted ==
  ASSUME OutboxInvariant, TypeOK', NEW w \in Relays, NEW r \in Rows,
         PublishRefused(w) \/ \E taken \in {0, 1} : PublishFails(w, taken)
  PROVE  Accounted(r)'
<1> DEFINE c == Current(w)
<1>1. \A v \in Relays : Current(v)' = Current(v)
  BY SameBatchSameCurrent DEF PublishFails, PublishRefused
<1>2. c \in batch[w] /\ c \in Rows
  BY CurrentIsOldest DEF PublishFails, PublishRefused, OutboxInvariant, TypeOK
<1> HIDE DEF c
<1>3. /\ pc[w] = "publish" /\ pc' = [pc EXCEPT ![w] = "mark_failed"]
      /\ UNCHANGED <<committed, published, lease, expired, batch>>
  BY DEF PublishFails, PublishRefused
<1>4. Stale(r)' \subseteq Stale(r)
  BY <1>1, <1>3 DEF Stale, Ahead, OutboxInvariant, TypeOK
<1>5. Confirmed(r) => Confirmed(r)'
  BY <1>1, <1>3 DEF Confirmed, OutboxInvariant, TypeOK
<1>6. CASE PublishRefused(w)
  BY <1>3, <1>4, <1>5, <1>6, CalmSteps DEF PublishRefused, OutboxInvariant, TypeOK
<1>7. ASSUME NEW taken \in {0, 1}, PublishFails(w, taken) PROVE Accounted(r)'
  <2>1. /\ copies' = [copies EXCEPT ![c] = copies[c] + taken]
        /\ mishaps' = [x \in Rows |-> IF x \in {c} THEN mishaps[x] + 1 ELSE mishaps[x]]
    BY <1>7 DEF PublishFails, Mishap, c
  <2>2. CASE r # c
    BY <1>2, <1>3, <1>4, <1>5, <2>1, <2>2, CalmSteps DEF OutboxInvariant, TypeOK
  <2>3. CASE r = c
    <3>1. /\ copies[r] \in Nat /\ copies'[r] = copies[r] + taken
          /\ mishaps[r] \in Nat /\ mishaps'[r] = mishaps[r] + 1
      BY <2>1, <2>3 DEF OutboxInvariant, TypeOK
    <3> QED
      BY <1>3, <1>4, <1>5, <3>1, StaleShrinks, StaleIsFinite DEF Accounted, OutboxInvariant
  <2> QED
    BY <2>2, <2>3
<1> QED
  BY <1>6, <1>7

\* Publication replaces the confirmation; the other relays that have the row
\* were stale before its lease was released.
LEMMA MarkAccounted ==
  ASSUME OutboxInvariant, TypeOK', NEW w \in Relays,
         MarkPublished(w) \/ MarkFailed(w), NEW r \in Rows
  PROVE  Accounted(r)'
<1> DEFINE c == Current(w)
<1>1. c \in batch[w] /\ c \in Rows
  BY CurrentIsOldest DEF MarkPublished, MarkFailed, OutboxInvariant, TypeOK
<1>2. /\ batch' = [batch EXCEPT ![w] = @ \ {c}]
      /\ pc'[w] \in {"idle", "publish"} /\ pc[w] \in {"mark_published", "mark_failed"}
      /\ \A v \in Relays \ {w} : pc'[v] = pc[v] /\ batch'[v] = batch[v]
      /\ UNCHANGED <<committed, copies, mishaps>>
  BY DEF MarkPublished, MarkFailed, Advance, OutboxInvariant, TypeOK
<1>3. \A v \in Relays \ {w} : Current(v)' = Current(v)
  BY <1>2, SameBatchSameCurrent
<1>4. \/ /\ HoldsLease(w)
         /\ lease' = [lease EXCEPT ![c] = None] /\ expired' = expired \ {c}
         /\ \/ pc[w] = "mark_published" /\ published' = published \cup {c}
            \/ pc[w] = "mark_failed" /\ published' = published
      \/ ~ HoldsLease(w) /\ UNCHANGED <<published, lease, expired>>
  BY DEF MarkPublished, MarkFailed, ReleaseLease
<1>5. HoldsLease(w) <=> c \notin published /\ lease[c] = w
  BY DEF HoldsLease
<1>6. c = Current(w)
  OBVIOUS
<1> HIDE DEF c
<1>7. \A v \in Relays : v \in Stale(r)' => v \in Stale(r)
  <2>1. \A v \in Relays : Ahead(v, r)' => Ahead(v, r) /\ (v # w \/ r # c)
    BY <1>2, <1>3, <1>6 DEF Ahead, OutboxInvariant, TypeOK
  <2>2. \A v \in Relays : lease'[r] # v \/ r \in expired' =>
          lease[r] # v \/ r \in expired \/ (v = w /\ r = c)
    BY <1>1, <1>4, <1>5 DEF OutboxInvariant, TypeOK
  <2> QED
    BY <2>1, <2>2 DEF Stale
<1>8. Stale(r)' \subseteq Stale(r)
  <2>1. \A v : v \in Stale(r)' => v \in Relays
    BY DEF Stale
  <2> QED
    BY <1>7, <2>1
<1>9. Confirmed(r) => Confirmed(r)' \/ r \in published' \ published
  <2> SUFFICES ASSUME NEW v \in Relays, pc[v] = "mark_published", Current(v) = r,
                      lease[r] = v, r \notin expired
               PROVE  Confirmed(r)' \/ r \in published' \ published
    BY DEF Confirmed
  <2>1. r \notin published
    BY DEF OutboxInvariant, PublishedIsReleased
  <2>2. CASE v = w
    BY <1>4, <1>5, <1>6, <2>1, <2>2
  <2>3. CASE v # w
    BY <1>2, <1>3, <1>4, <1>5, <1>6, <2>3 DEF Confirmed, OutboxInvariant, TypeOK
  <2> QED
    BY <2>2, <2>3
<1>10. r \in published => r \in published'
  BY <1>4
<1> QED
  BY <1>2, <1>8, <1>9, <1>10, CalmSteps DEF OutboxInvariant, TypeOK

\* A crash pays for the confirmations it loses.
LEMMA CrashAccounted ==
  ASSUME OutboxInvariant, TypeOK', NEW w \in Relays, Crash(w), NEW r \in Rows
  PROVE  Accounted(r)'
<1>1. /\ pc[w] # "idle" /\ pc' = [pc EXCEPT ![w] = "idle"]
      /\ batch' = [batch EXCEPT ![w] = {}]
      /\ mishaps' = [x \in Rows |-> IF x \in batch[w] THEN mishaps[x] + 1 ELSE mishaps[x]]
      /\ UNCHANGED <<committed, published, lease, expired, copies>>
  BY DEF Crash, Mishap
<1>2. \A v \in Relays \ {w} : Current(v)' = Current(v) /\ pc'[v] = pc[v] /\ batch'[v] = batch[v]
  BY <1>1, SameBatchSameCurrent DEF OutboxInvariant, TypeOK
<1>3. \A v \in Relays : v \in Stale(r)' => v \in Stale(r)
  BY <1>1, <1>2 DEF Stale, Ahead, OutboxInvariant, TypeOK
<1>4. Stale(r)' \subseteq Stale(r)
  <2>1. \A v : v \in Stale(r)' => v \in Relays
    BY DEF Stale
  <2> QED
    BY <1>3, <2>1
<1>5. /\ copies[r] \in Nat /\ copies'[r] = copies[r] /\ mishaps[r] \in Nat
      /\ mishaps'[r] = IF r \in batch[w] THEN mishaps[r] + 1 ELSE mishaps[r]
  BY <1>1 DEF OutboxInvariant, TypeOK
<1>6. CASE r \in batch[w]
  BY <1>1, <1>4, <1>5, <1>6, StaleShrinks, StaleIsFinite DEF Accounted, OutboxInvariant
<1>7. CASE r \notin batch[w]
  <2>1. Current(w) # r
    BY <1>1, <1>7, CurrentIsOldest DEF OutboxInvariant
  <2>2. Confirmed(r) => Confirmed(r)'
    BY <1>1, <1>2, <2>1 DEF Confirmed
  <2> QED
    BY <1>1, <1>4, <1>5, <1>7, <2>2, CalmSteps
<1> QED
  BY <1>6, <1>7

\* An overrun lease pays for its relay, which either becomes stale or loses
\* its confirmation: not both, for it has either sent the message or not.
LEMMA ExpiryAccounted ==
  ASSUME OutboxInvariant, TypeOK', NEW x \in Rows, ExpireLease(x), NEW r \in Rows
  PROVE  Accounted(r)'
<1>1. /\ lease[x] # None /\ x \notin expired /\ expired' = expired \cup {x}
      /\ UNCHANGED <<committed, published, lease, pc, batch, copies>>
      /\ IF Busy(x)
           THEN mishaps' = [y \in Rows |-> IF y \in {x} THEN mishaps[y] + 1 ELSE mishaps[y]]
           ELSE mishaps' = mishaps
  BY DEF ExpireLease, Mishap
<1>2. \A v \in Relays : Current(v)' = Current(v)
  BY <1>1, SameBatchSameCurrent
<1>3. \A v \in Relays : Ahead(v, r)' <=> Ahead(v, r)
  BY <1>1, <1>2 DEF Ahead
<1>4. CASE r # x
  <2>1. Stale(r)' \subseteq Stale(r)
    BY <1>1, <1>3, <1>4 DEF Stale
  <2>2. Confirmed(r) => Confirmed(r)'
    BY <1>1, <1>2, <1>4 DEF Confirmed
  <2>3. mishaps'[r] = mishaps[r] /\ mishaps[r] \in Nat
    BY <1>1, <1>4 DEF OutboxInvariant, TypeOK
  <2> QED
    BY <1>1, <2>1, <2>2, <2>3, CalmSteps
<1>5. CASE r = x
  <2> DEFINE v == lease[r]
  <2>1. v \in Relays
    BY <1>1, <1>5 DEF OutboxInvariant, TypeOK
  <2> HIDE DEF v
  <2>2. Stale(r)' \subseteq Stale(r) \cup {v}
    BY <1>1, <1>3 DEF Stale, v
  <2>3. v \in Stale(r)' => Busy(r) /\ ~ Confirmed(r)
    <3>1. v \in Stale(r)' => Ahead(v, r)
      BY <1>3, <2>1 DEF Stale
    <3>2. Confirmed(r) => pc[v] = "mark_published" /\ Current(v) = r
      BY DEF Confirmed, v
    <3> QED
      BY <2>1, <3>1, <3>2 DEF Ahead, Busy, v
  <2>4. Confirmed(r) => Busy(r)
    <3>1. ASSUME NEW u \in Relays, pc[u] = "mark_published", Current(u) = r, lease[r] = u
          PROVE  Busy(r)
      BY <3>1, CurrentIsOldest DEF Busy, OutboxInvariant
    <3> QED
      BY <3>1 DEF Confirmed
  <2>5. /\ copies[r] \in Nat /\ copies'[r] = copies[r] /\ mishaps[r] \in Nat
        /\ mishaps'[r] = IF Busy(r) THEN mishaps[r] + 1 ELSE mishaps[r]
    BY <1>1, <1>5 DEF OutboxInvariant, TypeOK
  <2>6. CASE v \in Stale(r)'
    <3>1. Cardinality(Stale(r)') <= Cardinality(Stale(r)) + 1
      BY <2>1, <2>2, StaleGainsOne
    <3> QED
      BY <1>1, <2>3, <2>5, <2>6, <3>1, StaleIsFinite DEF Accounted, OutboxInvariant
  <2>7. CASE v \notin Stale(r)'
    <3>1. Stale(r)' \subseteq Stale(r)
      BY <2>2, <2>7
    <3> QED
      BY <1>1, <2>4, <2>5, <3>1, StaleShrinks, StaleIsFinite DEF Accounted, OutboxInvariant
  <2> QED
    BY <2>6, <2>7
<1> QED
  BY <1>4, <1>5

LEMMA StutterAccounted ==
  ASSUME OutboxInvariant, TypeOK', UNCHANGED vars, NEW r \in Rows
  PROVE  Accounted(r)'
<1>1. \A v \in Relays : Current(v)' = Current(v)
  BY SameBatchSameCurrent DEF vars
<1>2. Stale(r)' \subseteq Stale(r)
  BY <1>1 DEF vars, Stale, Ahead
<1>3. Confirmed(r) => Confirmed(r)'
  BY <1>1 DEF vars, Confirmed
<1> QED
  BY <1>2, <1>3, CalmSteps DEF vars, OutboxInvariant, TypeOK

-----------------------------------------------------------------------------
(* Theorems *)

LEMMA InitInvariant == Init => OutboxInvariant
<1> SUFFICES ASSUME Init PROVE OutboxInvariant
  OBVIOUS
<1>1. TypeOK
  BY DEF Init, TypeOK, Labels
<1>2. PublishedWasSent /\ PublishedIsReleased /\ MarksWhatWasSent
  BY DEF Init, PublishedWasSent, PublishedIsReleased, MarksWhatWasSent
<1>3. ASSUME NEW r \in Rows PROVE Accounted(r)
  <2>1. Stale(r) = {}
    BY DEF Init, Stale, Ahead
  <2>2. Cardinality(Stale(r)) = 0
    BY <2>1, FS_EmptySet
  <2> QED
    BY <2>2 DEF Init, Accounted, Confirmed
<1> QED
  BY <1>1, <1>2, <1>3 DEF OutboxInvariant

LEMMA NextInvariant == OutboxInvariant /\ [Next]_vars => OutboxInvariant'
<1> SUFFICES ASSUME OutboxInvariant, [Next]_vars PROVE OutboxInvariant'
  OBVIOUS
<1>1. TypeOK'
  BY TypeInductive DEF OutboxInvariant
<1>2. PublishedWasSent' /\ MarksWhatWasSent' /\ PublishedIsReleased'
  BY <1>1, SendingInductive, ReleaseInductive DEF OutboxInvariant
<1>3. ASSUME NEW r \in Rows PROVE Accounted(r)'
  BY <1>1, CommitAccounted, ExpiryAccounted, ClaimAccounted, PublishAccounted,
     FailureAccounted, MarkAccounted, CrashAccounted, StutterAccounted DEF Next, Work
<1> QED
  BY <1>1, <1>2, <1>3 DEF OutboxInvariant

\* The inductive invariant of the relays holds in every reachable state.
THEOREM OutboxInvariantHolds == Spec => []OutboxInvariant
BY InitInvariant, NextInvariant, PTL DEF Spec

\* Rows, leases and batches stay in their domains (OutboxEvent, ClaimedEvent);
\* a relay has a batch exactly while it is in an iteration.
THEOREM OutboxTypeCorrectness == Spec => []TypeOK
<1>1. OutboxInvariant => TypeOK
  BY DEF OutboxInvariant
<1> QED
  BY <1>1, OutboxInvariantHolds, PTL

\* published_at is set only after the broker took the message: no event is lost.
THEOREM NoEventIsLost == Spec => []PublishedWasSent
<1>1. OutboxInvariant => PublishedWasSent
  BY DEF OutboxInvariant
<1> QED
  BY <1>1, OutboxInvariantHolds, PTL

\* _mark_published releases the lease, and nobody leases the row again.
THEOREM PublicationReleases == Spec => []PublishedIsReleased
<1>1. OutboxInvariant => PublishedIsReleased
  BY DEF OutboxInvariant
<1> QED
  BY <1>1, OutboxInvariantHolds, PTL

LEMMA CopiesFollow == OutboxInvariant => CopiesAccountedFor
<1> SUFFICES ASSUME OutboxInvariant, NEW r \in Rows
             PROVE  copies[r] <= mishaps[r]
                 + (IF r \in published THEN 1 ELSE 0)
                 + (IF \E w \in Relays : /\ pc[w] = "mark_published"
                                         /\ Current(w) = r /\ lease[r] = w
                    THEN 1 ELSE 0)
  BY DEF CopiesAccountedFor
<1>1. Confirmed(r) => \E w \in Relays : /\ pc[w] = "mark_published"
                                        /\ Current(w) = r /\ lease[r] = w
  BY DEF Confirmed
<1>2. copies[r] \in Nat /\ mishaps[r] \in Nat /\ Cardinality(Stale(r)) \in Nat
  BY StaleIsFinite DEF OutboxInvariant, TypeOK
<1> QED
  BY <1>1, <1>2 DEF OutboxInvariant, Accounted

\* Every message of publish_pending_events beyond the one that publishes its
\* row is the work of a crash, a publish error or an overrun lease.
THEOREM DuplicatesAreExplained == Spec => []CopiesAccountedFor
<1> QED
  BY CopiesFollow, OutboxInvariantHolds, PTL

LEMMA NextKeepsLiveLeases == ASSUME TypeOK, Next PROVE KeepsLiveLeases
<1> SUFFICES ASSUME NEW r \in Rows, NEW w \in Relays,
                    lease[r] = w, r \notin expired, lease'[r] # w
             PROVE  /\ pc[w] \in {"mark_published", "mark_failed"}
                    /\ r = Current(w) /\ r \notin batch'[w]
  BY DEF KeepsLiveLeases
<1>1. ASSUME NEW v \in Relays, NEW locked, ClaimPendingEvents(v, locked) PROVE FALSE
  <2>1. r \notin OldestFew(Claimable \ locked, BatchSize)
    BY DEF OldestFew, Claimable
  <2> QED
    BY <1>1, <2>1 DEF ClaimPendingEvents
<1>2. ASSUME NEW v \in Relays, MarkPublished(v) \/ MarkFailed(v)
      PROVE  /\ v = w /\ pc[w] \in {"mark_published", "mark_failed"}
             /\ r = Current(w) /\ r \notin batch'[w]
  <2>1. r = Current(v) /\ HoldsLease(v)
    BY <1>2 DEF MarkPublished, MarkFailed, ReleaseLease, TypeOK
  <2> QED
    BY <1>2, <2>1 DEF HoldsLease, MarkPublished, MarkFailed, Advance, TypeOK
<1>3. lease' = lease => FALSE
  OBVIOUS
<1> QED
  BY <1>1, <1>2, <1>3 DEF Next, Work, Commit, ExpireLease, Publish, PublishRefused,
     PublishFails, Crash

\* No claim, crash or late answer of another relay ends a live lease: the WHERE
\* clauses of _claim_pending_events and the _mark statements see to it.
THEOREM LiveLeasesKept == Spec => LiveLeasesAreKept
<1>1. TypeOK /\ [Next]_vars => [KeepsLiveLeases]_vars
  BY NextKeepsLiveLeases
<1> QED
  BY <1>1, OutboxTypeCorrectness, PTL DEF Spec, LiveLeasesAreKept
=============================================================================
