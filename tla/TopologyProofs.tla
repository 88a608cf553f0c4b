--------------------------- MODULE TopologyProofs ---------------------------
(***************************************************************************)
(* Machine-checked proofs about TopologyBootstrap, for any number of       *)
(* processes, any settings that validate and any history of deployments.   *)
(***************************************************************************)
EXTENDS TopologyBootstrap, SequenceTheorems, TLAPS

-----------------------------------------------------------------------------
(* The inductive invariant *)

Definitions == [name : Names, ttl : Nat \cup {None}, target : {Main, None}]

TypeOK ==
  /\ settings \in [Processes -> ValidSettings \cup {None}]
  /\ progress \in [Processes -> Nat]
  /\ queues \in [Names -> Definitions \cup {None}]
  /\ bound \subseteq Names

\* What was bound was declared before.
BoundIsDeclared == \A name \in bound : queues[name] # None

\* A process that runs found, or declared, each queue it is past exactly as its
\* own settings want it, and has bound it.
PastQueuesAgree ==
  \A p \in Processes : settings[p] # None =>
    /\ progress[p] <= Len(AllQueues(settings[p]))
    /\ \A i \in 1..progress[p] : LET q == AllQueues(settings[p])[i]
                                 IN  q.name \in bound /\ queues[q.name] = q

\* A process starts again from its first queue.
StoppedIsAtStart == \A p \in Processes : settings[p] = None => progress[p] = 0

TopologyInvariant ==
  /\ TypeOK
  /\ StoppedIsAtStart
  /\ BoundIsDeclared
  /\ PastQueuesAgree
  /\ KnownKeysAreRouted
  /\ RetriesWaitAsConfigured
-----------------------------------------------------------------------------
(* Lemmas about build_rabbit_topology *)

\* The elements of a concatenation, without a case distinction.
LEMMA Concatenated ==
  ASSUME NEW S, NEW a \in Seq(S), NEW b \in Seq(S)
  PROVE  /\ a \o b \in Seq(S) /\ Len(a \o b) = Len(a) + Len(b)
         /\ \A i \in 1..Len(a) : (a \o b)[i] = a[i]
         /\ \A i \in 1..Len(b) : (a \o b)[Len(a) + i] = b[i]
<1>1. /\ a \o b \in Seq(S) /\ Len(a \o b) = Len(a) + Len(b)
      /\ \A i \in 1..(Len(a) + Len(b)) : (a \o b)[i] = IF i <= Len(a) THEN a[i] ELSE b[i - Len(a)]
  BY ConcatProperties
<1>2. Len(a) \in Nat /\ Len(b) \in Nat
  OBVIOUS
<1>3. \A i \in 1..Len(a) : i \in 1..(Len(a) + Len(b)) /\ i <= Len(a)
  BY <1>2
<1>4. \A i \in 1..Len(b) : /\ Len(a) + i \in 1..(Len(a) + Len(b)) /\ ~(Len(a) + i <= Len(a))
                            /\ (Len(a) + i) - Len(a) = i
  BY <1>2
<1> QED
  BY <1>1, <1>3, <1>4

\* The topology of valid settings: the main queue, the queue of processing
\* retries, one queue for each delay, the dead letter queue.
LEMMA TopologyOfSettings ==
  ASSUME NEW s \in ValidSettings
  PROVE  /\ AllQueues(s) \in Seq(Definitions)
         /\ s.attempts \in Nat \ {0}
         /\ Len(AllQueues(s)) = s.attempts + 2
         /\ DOMAIN s.delays = 1..(s.attempts - 1)
         /\ AllQueues(s)[1] = Plain(Main)
         /\ AllQueues(s)[2] = Delayed(ProcessingRetry, s.processing)
         /\ \A k \in DOMAIN s.delays : AllQueues(s)[k + 2] = Delayed(Retry(k), s.delays[k])
         /\ AllQueues(s)[s.attempts + 2] = Plain(Dlq)
<1> DEFINE head    == <<Plain(Main), Delayed(ProcessingRetry, s.processing)>>
           retries == [k \in DOMAIN s.delays |-> Delayed(Retry(k), s.delays[k])]
           last    == <<Plain(Dlq)>>
<1>1. PICK n \in 0..Retries : s.delays \in [1..n -> Seconds]
  BY DEF ValidSettings
<1>2. Retries \in Nat /\ Seconds \subseteq Nat /\ s.attempts \in Nat /\ s.processing \in Nat
  BY TopologyAssumption DEF ValidSettings
<1>3. n \in Nat /\ Len(s.delays) = n /\ DOMAIN s.delays = 1..n /\ n = s.attempts - 1 /\ s.attempts >= 1
  BY <1>1, <1>2 DEF ValidSettings, Validates
<1>4. head \in Seq(Definitions) /\ last \in Seq(Definitions)
  BY <1>2 DEF Definitions, Plain, Delayed, Names
<1>5. \A k \in 1..n : Delayed(Retry(k), s.delays[k]) \in Definitions
  <2> SUFFICES ASSUME NEW k \in 1..n PROVE Delayed(Retry(k), s.delays[k]) \in Definitions
    OBVIOUS
  <2>1. k \in 1..Retries
    BY <1>2, <1>3
  <2>3. s.delays[k] \in Nat
    BY <1>1, <1>2
  <2>2. s.delays[k] * 1000 \in Nat
    BY <2>3
  <2> QED
    BY <2>1, <2>2 DEF Definitions, Delayed, Names
<1>6. retries \in Seq(Definitions) /\ Len(retries) = n
  <2>1. retries \in [1..n -> Definitions]
    BY <1>3, <1>5
  <2> QED
    BY <1>3, <2>1
<1>7. Len(head) = 2 /\ Len(last) = 1
  OBVIOUS
<1>8. /\ head[1] = Plain(Main) /\ head[2] = Delayed(ProcessingRetry, s.processing)
      /\ last[1] = Plain(Dlq)
      /\ \A k \in 1..n : retries[k] = Delayed(Retry(k), s.delays[k])
  BY <1>3
<1>9. AllQueues(s) = (head \o retries) \o last
  BY DEF AllQueues
<1> HIDE DEF head, retries, last
<1>0. \A a, b \in Seq(Definitions) :
        /\ a \o b \in Seq(Definitions) /\ Len(a \o b) = Len(a) + Len(b)
        /\ \A i \in 1..Len(a) : (a \o b)[i] = a[i]
        /\ \A i \in 1..Len(b) : (a \o b)[Len(a) + i] = b[i]
  BY Concatenated
<1>10. /\ head \o retries \in Seq(Definitions) /\ Len(head \o retries) = 2 + n
       /\ \A i \in 1..2 : (head \o retries)[i] = head[i]
       /\ \A i \in 1..n : (head \o retries)[2 + i] = retries[i]
  <2>1. /\ head \o retries \in Seq(Definitions) /\ Len(head \o retries) = Len(head) + Len(retries)
        /\ \A i \in 1..Len(head) : (head \o retries)[i] = head[i]
        /\ \A i \in 1..Len(retries) : (head \o retries)[Len(head) + i] = retries[i]
    BY <1>0, <1>4, <1>6
  <2> QED
    BY <1>6, <1>7, <2>1
<1>11. /\ AllQueues(s) \in Seq(Definitions) /\ Len(AllQueues(s)) = (2 + n) + 1
       /\ \A i \in 1..(2 + n) : AllQueues(s)[i] = (head \o retries)[i]
       /\ \A i \in 1..1 : AllQueues(s)[(2 + n) + i] = last[i]
  <2> DEFINE front == head \o retries
  <2>1. front \in Seq(Definitions) /\ Len(front) = 2 + n
    BY <1>10
  <2> HIDE DEF front
  <2>2. /\ front \o last \in Seq(Definitions) /\ Len(front \o last) = Len(front) + Len(last)
        /\ \A i \in 1..Len(front) : (front \o last)[i] = front[i]
        /\ \A i \in 1..Len(last) : (front \o last)[Len(front) + i] = last[i]
    BY <1>0, <1>4, <2>1
  <2>3. /\ front \o last \in Seq(Definitions) /\ Len(front \o last) = (2 + n) + 1
        /\ \A i \in 1..(2 + n) : (front \o last)[i] = front[i]
        /\ \A i \in 1..1 : (front \o last)[(2 + n) + i] = last[i]
    BY <1>7, <2>1, <2>2
  <2> QED
    BY <1>9, <2>3 DEF front
<1>12. 2 + n = s.attempts + 1 /\ (2 + n) + 1 = s.attempts + 2
  BY <1>2, <1>3
<1>13. AllQueues(s)[1] = Plain(Main) /\ AllQueues(s)[2] = Delayed(ProcessingRetry, s.processing)
  <2>1. 1 \in 1..2 /\ 2 \in 1..2 /\ 1 \in 1..(2 + n) /\ 2 \in 1..(2 + n)
    BY <1>3
  <2> QED
    BY <1>8, <1>10, <1>11, <2>1
<1>14. ASSUME NEW k \in DOMAIN s.delays
       PROVE  AllQueues(s)[k + 2] = Delayed(Retry(k), s.delays[k])
  <2>1. k \in 1..n /\ 2 + k \in 1..(2 + n) /\ k + 2 = 2 + k
    BY <1>3
  <2> QED
    BY <1>8, <1>10, <1>11, <2>1
<1>15. AllQueues(s)[s.attempts + 2] = Plain(Dlq)
  BY <1>8, <1>11, <1>12
<1>16. s.attempts \in Nat \ {0}
  BY <1>2, <1>3
<1> QED
  BY <1>3, <1>11, <1>12, <1>13, <1>14, <1>15, <1>16

\* Every routing key of a service names a queue of its topology.
LEMMA RoutingKeysAreQueues ==
  ASSUME NEW s \in ValidSettings, NEW key \in RoutingKeys(s)
  PROVE  \E i \in 1..Len(AllQueues(s)) : AllQueues(s)[i].name = key
<1>1. CASE key = Main
  <2>1. 1 \in 1..Len(AllQueues(s)) /\ AllQueues(s)[1] = Plain(Main)
    BY TopologyOfSettings
  <2> QED
    BY <1>1, <2>1 DEF Plain
<1>2. CASE key = ProcessingRetry
  <2>1. 2 \in 1..Len(AllQueues(s)) /\ AllQueues(s)[2] = Delayed(ProcessingRetry, s.processing)
    BY TopologyOfSettings
  <2> QED
    BY <1>2, <2>1 DEF Delayed
<1>3. CASE key = Dlq
  <2>1. s.attempts + 2 \in 1..Len(AllQueues(s))
    BY TopologyOfSettings
  <2> QED
    BY <1>3, <2>1, TopologyOfSettings DEF Plain
<1>4. ASSUME NEW k \in DOMAIN s.delays, key = Retry(k)
      PROVE  \E i \in 1..Len(AllQueues(s)) : AllQueues(s)[i].name = key
  <2>1. k + 2 \in 1..Len(AllQueues(s)) /\ AllQueues(s)[k + 2] = Delayed(Retry(k), s.delays[k])
    BY TopologyOfSettings
  <2> QED
    BY <1>4, <2>1 DEF Delayed
<1> QED
  BY <1>1, <1>2, <1>3, <1>4 DEF RoutingKeys

\* A queue of the topology that delays its messages does so for as long as the
\* settings say, and then leads back to the main queue.
LEMMA DelaysOfSettings ==
  ASSUME NEW s \in ValidSettings, NEW i \in 1..Len(AllQueues(s)), NEW key \in RoutingKeys(s),
         AllQueues(s)[i].name = key, AllQueues(s)[i].ttl # None
  PROVE  AllQueues(s)[i].ttl = Due(s, key) * 1000 /\ AllQueues(s)[i].target = Main
<1>1. i = 1 \/ i = 2 \/ i = s.attempts + 2 \/ \E k \in DOMAIN s.delays : i = k + 2
  <2>1. i \in Nat /\ s.attempts \in Nat /\ i >= 1 /\ i <= s.attempts + 2
    BY TopologyOfSettings
  <2>2. CASE i > 2 /\ i < s.attempts + 2
    <3>1. i - 2 \in 1..(s.attempts - 1) /\ i = (i - 2) + 2
      BY <2>1, <2>2
    <3> QED
      BY <3>1, TopologyOfSettings
  <2> QED
    BY <2>1, <2>2
<1>2. i # 1 /\ i # s.attempts + 2
  BY TopologyOfSettings DEF Plain
<1>3. CASE i = 2
  <2>1. AllQueues(s)[i] = Delayed(ProcessingRetry, s.processing)
    BY <1>3, TopologyOfSettings
  <2> QED
    BY <2>1 DEF Delayed, Due
<1>4. ASSUME NEW k \in DOMAIN s.delays, i = k + 2
      PROVE  AllQueues(s)[i].ttl = Due(s, key) * 1000 /\ AllQueues(s)[i].target = Main
  <2>1. AllQueues(s)[i] = Delayed(Retry(k), s.delays[k])
    BY <1>4, TopologyOfSettings
  <2>2. key = Retry(k)
    BY <2>1 DEF Delayed
  <2>3. key # ProcessingRetry /\ key[2] = k
    BY <2>2 DEF Retry, ProcessingRetry
  <2> QED
    BY <2>1, <2>3 DEF Delayed, Due
<1> QED
  BY <1>1, <1>2, <1>3, <1>4
-----------------------------------------------------------------------------
(* Lemmas about the steps *)

\* What a declaring process declares next is a well-formed definition.
LEMMA UpcomingIsDefinition ==
  ASSUME TypeOK, NEW p \in Processes, Declaring(p)
  PROVE  /\ settings[p] \in ValidSettings
         /\ progress[p] \in Nat /\ progress[p] + 1 \in 1..Len(AllQueues(settings[p]))
         /\ Upcoming(p) \in Definitions /\ Upcoming(p).name \in Names
<1>1. settings[p] \in ValidSettings /\ progress[p] \in Nat
  BY DEF TypeOK, Declaring
<1>2. AllQueues(settings[p]) \in Seq(Definitions)
  BY <1>1, TopologyOfSettings
<1>3. progress[p] + 1 \in 1..Len(AllQueues(settings[p]))
  BY <1>1, <1>2 DEF Declaring
<1>4. Upcoming(p) \in Definitions
  BY <1>2, <1>3 DEF Upcoming
<1> QED
  BY <1>1, <1>3, <1>4 DEF Definitions

\* A relay that is ready has bound every queue it has a routing key for, as its
\* settings want it.
LEMMA ReadyIsComplete ==
  ASSUME TypeOK, PastQueuesAgree, NEW p \in Processes, Ready(p),
         NEW key \in RoutingKeys(settings[p])
  PROVE  /\ settings[p] \in ValidSettings
         /\ key \in bound /\ Main \in bound
         /\ \E i \in 1..Len(AllQueues(settings[p])) :
              /\ AllQueues(settings[p])[i].name = key
              /\ queues[key] = AllQueues(settings[p])[i]
<1>1. settings[p] \in ValidSettings
  BY DEF TypeOK, Ready
<1>2. \A i \in 1..Len(AllQueues(settings[p])) :
        /\ AllQueues(settings[p])[i].name \in bound
        /\ queues[AllQueues(settings[p])[i].name] = AllQueues(settings[p])[i]
  BY DEF PastQueuesAgree, Ready
<1>3. PICK i \in 1..Len(AllQueues(settings[p])) : AllQueues(settings[p])[i].name = key
  BY <1>1, RoutingKeysAreQueues
<1>4. Main \in RoutingKeys(settings[p])
  BY DEF RoutingKeys
<1>5. PICK j \in 1..Len(AllQueues(settings[p])) : AllQueues(settings[p])[j].name = Main
  BY <1>1, <1>4, RoutingKeysAreQueues
<1> QED
  BY <1>1, <1>2, <1>3, <1>5

-----------------------------------------------------------------------------
(* The steps *)

LEMMA StartKeeps ==
  ASSUME TopologyInvariant, NEW p \in Processes, Start(p)
  PROVE  TopologyInvariant'
<1>1. PICK s \in ValidSettings : settings' = [settings EXCEPT ![p] = s]
  BY DEF Start
<1>2. UNCHANGED <<progress, queues, bound, delayed, unrouted>> /\ settings[p] = None
  BY DEF Start
<1>3. TypeOK /\ TypeOK'
  BY <1>1, <1>2 DEF TopologyInvariant, TypeOK
<1>4. \A q \in Processes \ {p} : settings'[q] = settings[q]
  BY <1>1, <1>3 DEF TypeOK
<1>5. progress[p] = 0 /\ settings'[p] = s
  BY <1>1, <1>2, <1>3 DEF TopologyInvariant, StoppedIsAtStart, TypeOK
<1>6. PastQueuesAgree'
  <2> SUFFICES ASSUME NEW q \in Processes, settings'[q] # None
               PROVE  /\ progress[q] <= Len(AllQueues(settings'[q]))
                      /\ \A i \in 1..progress[q] :
                           /\ AllQueues(settings'[q])[i].name \in bound
                           /\ queues[AllQueues(settings'[q])[i].name] = AllQueues(settings'[q])[i]
    BY <1>2 DEF PastQueuesAgree
  <2>1. CASE q # p
    BY <1>4, <2>1 DEF TopologyInvariant, PastQueuesAgree
  <2>2. CASE q = p
    <3>1. Len(AllQueues(s)) \in Nat
      BY TopologyOfSettings
    <3> QED
      BY <1>5, <2>2, <3>1
  <2> QED
    BY <2>1, <2>2
<1>7. StoppedIsAtStart'
  BY <1>2, <1>4, <1>5 DEF TopologyInvariant, StoppedIsAtStart
<1> QED
  BY <1>2, <1>3, <1>6, <1>7
     DEF TopologyInvariant, BoundIsDeclared, KnownKeysAreRouted, RetriesWaitAsConfigured

LEMMA DieKeeps ==
  ASSUME TopologyInvariant, NEW p \in Processes, Die(p)
  PROVE  TopologyInvariant'
<1>1. TypeOK /\ TypeOK'
  BY DEF TopologyInvariant, TypeOK, Die
<1>2. /\ settings' = [settings EXCEPT ![p] = None]
      /\ progress' = [progress EXCEPT ![p] = 0]
      /\ UNCHANGED <<queues, bound, delayed, unrouted>>
  BY DEF Die
<1>3. PastQueuesAgree'
  <2> SUFFICES ASSUME NEW q \in Processes, settings'[q] # None
               PROVE  /\ progress'[q] <= Len(AllQueues(settings'[q]))
                      /\ \A i \in 1..progress'[q] :
                           /\ AllQueues(settings'[q])[i].name \in bound'
                           /\ queues'[AllQueues(settings'[q])[i].name] = AllQueues(settings'[q])[i]
    BY DEF PastQueuesAgree
  <2>1. q # p /\ settings'[q] = settings[q] /\ progress'[q] = progress[q]
    BY <1>1, <1>2 DEF TypeOK
  <2> QED
    BY <1>2, <2>1 DEF TopologyInvariant, PastQueuesAgree
<1>4. StoppedIsAtStart'
  BY <1>1, <1>2 DEF TopologyInvariant, TypeOK, StoppedIsAtStart
<1> QED
  BY <1>1, <1>2, <1>3, <1>4
     DEF TopologyInvariant, BoundIsDeclared, KnownKeysAreRouted, RetriesWaitAsConfigured

\* A queue is declared once: nobody is past a queue that is not there yet.
LEMMA DeclareQueueKeeps ==
  ASSUME TopologyInvariant, NEW p \in Processes, DeclareQueue(p)
  PROVE  TopologyInvariant'
<1> DEFINE u == Upcoming(p)
<1>1. TypeOK /\ Declaring(p) /\ queues[u.name] = None
      /\ queues' = [queues EXCEPT ![u.name] = u]
      /\ UNCHANGED <<settings, progress, bound, delayed, unrouted>>
  BY DEF TopologyInvariant, DeclareQueue
<1>2. u \in Definitions /\ u.name \in Names
  BY <1>1, UpcomingIsDefinition
<1>3. u.name \notin bound
  BY <1>1 DEF TopologyInvariant, BoundIsDeclared
<1> HIDE DEF u
<1>4. \A name \in bound : queues'[name] = queues[name]
  BY <1>1, <1>3 DEF TypeOK
<1>5. TypeOK'
  BY <1>1, <1>2 DEF TypeOK
<1>6. BoundIsDeclared'
  BY <1>1, <1>4 DEF TopologyInvariant, BoundIsDeclared
<1>7. PastQueuesAgree'
  BY <1>1, <1>4 DEF TopologyInvariant, PastQueuesAgree
<1> QED
  BY <1>1, <1>5, <1>6, <1>7
     DEF TopologyInvariant, StoppedIsAtStart, KnownKeysAreRouted, RetriesWaitAsConfigured

LEMMA BindQueueKeeps ==
  ASSUME TopologyInvariant, NEW p \in Processes, BindQueue(p)
  PROVE  TopologyInvariant'
<1> DEFINE u == Upcoming(p)
<1>1. /\ TypeOK /\ Declaring(p) /\ queues[u.name] = u
      /\ bound' = bound \cup {u.name} /\ progress' = [progress EXCEPT ![p] = @ + 1]
      /\ UNCHANGED <<settings, queues, delayed, unrouted>>
      /\ queues[u.name] # None
  BY DEF TopologyInvariant, BindQueue, Equivalent
<1>2. /\ settings[p] \in ValidSettings /\ progress[p] \in Nat
      /\ progress[p] + 1 \in 1..Len(AllQueues(settings[p])) /\ u.name \in Names
  BY <1>1, UpcomingIsDefinition
<1>3. u = AllQueues(settings[p])[progress[p] + 1]
  BY DEF Upcoming
<1> HIDE DEF u
<1>4. TypeOK'
  BY <1>1, <1>2 DEF TypeOK
<1>5. BoundIsDeclared'
  BY <1>1 DEF TopologyInvariant, BoundIsDeclared
<1>6. PastQueuesAgree'
  <2> SUFFICES ASSUME NEW q \in Processes, settings[q] # None
               PROVE  /\ progress'[q] <= Len(AllQueues(settings[q]))
                      /\ \A i \in 1..progress'[q] :
                           /\ AllQueues(settings[q])[i].name \in bound'
                           /\ queues[AllQueues(settings[q])[i].name] = AllQueues(settings[q])[i]
    BY <1>1 DEF PastQueuesAgree
  <2>1. CASE q # p
    <3>1. progress'[q] = progress[q]
      BY <1>1, <2>1 DEF TypeOK
    <3> QED
      BY <1>1, <3>1 DEF TopologyInvariant, PastQueuesAgree
  <2>2. CASE q = p
    <3>1. progress'[q] = progress[p] + 1
      BY <1>1, <2>2 DEF TypeOK
    <3>2. \A i \in 1..progress'[q] : i \in 1..progress[p] \/ i = progress[p] + 1
      BY <1>2, <3>1
    <3>3. Len(AllQueues(settings[q])) \in Nat
      BY <1>2, <2>2, TopologyOfSettings
    <3> QED
      BY <1>1, <1>2, <1>3, <2>2, <3>1, <3>2, <3>3 DEF TopologyInvariant, PastQueuesAgree
  <2> QED
    BY <2>1, <2>2
<1>7. StoppedIsAtStart'
  BY <1>1 DEF TopologyInvariant, TypeOK, StoppedIsAtStart, Declaring
<1> QED
  BY <1>1, <1>4, <1>5, <1>6, <1>7
     DEF TopologyInvariant, KnownKeysAreRouted, RetriesWaitAsConfigured

LEMMA PublishKeeps ==
  ASSUME TopologyInvariant, NEW v \in Relays, NEW key \in Names, Publish(v, key)
  PROVE  TopologyInvariant'
<1>1. /\ TypeOK /\ PastQueuesAgree /\ Ready(v) /\ v \in Processes
      /\ UNCHANGED <<settings, progress, queues, bound>>
  BY DEF TopologyInvariant, Publish, Processes
<1>2. KnownKeysAreRouted'
  <2>1. unrouted' \subseteq unrouted \cup {[key |-> key, by |-> settings[v]]}
    BY DEF Publish
  <2>2. key \notin bound => key \notin RoutingKeys(settings[v])
    BY <1>1, ReadyIsComplete
  <2>3. key \in bound => unrouted' = unrouted
    BY DEF Publish
  <2> QED
    BY <2>1, <2>2, <2>3 DEF TopologyInvariant, KnownKeysAreRouted
<1>3. RetriesWaitAsConfigured'
  <2>1. CASE delayed' = delayed
    BY <1>1, <2>1 DEF TopologyInvariant, RetriesWaitAsConfigured
  <2>2. CASE delayed' # delayed
    <3>1. /\ key \in RoutingKeys(settings[v]) /\ queues[key].ttl # None
          /\ delayed' = delayed \cup {[due |-> Due(settings[v], key), queue |-> queues[key]]}
      BY <2>2 DEF Publish
    <3>2. PICK i \in 1..Len(AllQueues(settings[v])) :
             AllQueues(settings[v])[i].name = key /\ queues[key] = AllQueues(settings[v])[i]
      BY <1>1, <3>1, ReadyIsComplete
    <3>3. settings[v] \in ValidSettings /\ Main \in bound
      BY <1>1, <3>1, ReadyIsComplete
    <3>4. queues[key].ttl = Due(settings[v], key) * 1000 /\ queues[key].target = Main
      BY <3>1, <3>2, <3>3, DelaysOfSettings
    <3> QED
      BY <1>1, <3>1, <3>3, <3>4 DEF TopologyInvariant, RetriesWaitAsConfigured
  <2> QED
    BY <2>1, <2>2
<1> QED
  BY <1>1, <1>2, <1>3 DEF TopologyInvariant, TypeOK, StoppedIsAtStart, BoundIsDeclared, PastQueuesAgree

-----------------------------------------------------------------------------
(* The theorems *)

LEMMA InitIsTopology == Init => TopologyInvariant
<1> SUFFICES ASSUME Init PROVE TopologyInvariant
  OBVIOUS
<1>1. TypeOK
  BY DEF Init, TypeOK
<1>2. StoppedIsAtStart /\ BoundIsDeclared /\ PastQueuesAgree
  BY DEF Init, StoppedIsAtStart, BoundIsDeclared, PastQueuesAgree
<1> QED
  BY <1>1, <1>2 DEF Init, TopologyInvariant, KnownKeysAreRouted, RetriesWaitAsConfigured

LEMMA NextKeepsTopology == TopologyInvariant /\ [Next]_vars => TopologyInvariant'
<1> SUFFICES ASSUME TopologyInvariant, [Next]_vars PROVE TopologyInvariant'
  OBVIOUS
<1>1. ASSUME NEW p \in Processes,
             Start(p) \/ Die(p) \/ DeclareQueue(p) \/ BindQueue(p) \/ Refused(p)
      PROVE  TopologyInvariant'
  BY <1>1, StartKeeps, DieKeeps, DeclareQueueKeeps, BindQueueKeeps DEF Refused
<1>2. ASSUME NEW v \in Relays, NEW key \in Names, Publish(v, key)
      PROVE  TopologyInvariant'
  BY <1>2, PublishKeeps
<1>3. CASE UNCHANGED vars
  BY <1>3 DEF vars, TopologyInvariant, TypeOK, StoppedIsAtStart, BoundIsDeclared,
              PastQueuesAgree, KnownKeysAreRouted, RetriesWaitAsConfigured
<1> QED
  BY <1>1, <1>2, <1>3 DEF Next

\* However many processes start, die half-way or are refused, and in whatever
\* order: what a process has passed is declared as it wants it, and bound.
THEOREM TopologyInvariantHolds == Spec => []TopologyInvariant
<1> QED
  BY InitIsTopology, NextKeepsTopology, PTL DEF Spec

\* The exchange has a queue for every routing key a publishing relay was
\* configured with.
THEOREM KnownKeysAlwaysRouted == Spec => []KnownKeysAreRouted
<1>1. TopologyInvariant => KnownKeysAreRouted
  BY DEF TopologyInvariant
<1> QED
  BY <1>1, TopologyInvariantHolds, PTL

\* Delay queues delay for as long as the relay that uses them was told, whatever
\* earlier deployments were told, and lead back to a bound main queue.
THEOREM RetriesAlwaysWaitAsConfigured == Spec => []RetriesWaitAsConfigured
<1>1. TopologyInvariant => RetriesWaitAsConfigured
  BY DEF TopologyInvariant
<1> QED
  BY <1>1, TopologyInvariantHolds, PTL
=============================================================================
