------------------------- MODULE ClaimTimingProofs -------------------------
(***************************************************************************)
(* A claim timeout of at least the work, three transactions and the skew   *)
(* of the clocks keeps every claim under its holder, whatever recovery     *)
(* does; and a claim that lasts longer than recovery needs has mishaps of  *)
(* every consumer to show for it.  For any number of consumers and         *)
(* handlers, and any of these times.                                       *)
(***************************************************************************)
EXTENDS ClaimTiming, TLAPS

USE DEF Processes, HandlerLabels, RecoveryLabels

\* The initial state satisfies the invariant.
LEMMA InitOnTime == Init => TimingInvariant
<1> SUFFICES ASSUME Init PROVE TimingInvariant
  OBVIOUS
<1>1. TypeOK
  BY TimingAssumption DEF Init, TypeOK
<1>2. \A h \in Handlers : HandlerOnTime(h)
  BY TimingAssumption DEF Init, HandlerOnTime
<1>3. ASSUME NEW c \in Consumers PROVE RecoveryOnTime(c)
  <2>1. /\ now = 0 /\ claim = None /\ pc[c] = "down" /\ stamp[c] = 0 /\ Skew \in Nat
    BY TimingAssumption DEF Init
  <2>2. QED BY <2>1 DEF RecoveryOnTime
<1>4. QED
  BY <1>1, <1>2, <1>3, TimingAssumption DEF Init, TimingInvariant, OneHolder, OneReleaser

\* Everybody's clock shows the true time, or at most the skew more.
LEMMA ClocksAreClose ==
  ASSUME TimingInvariant, NEW p \in Processes
  PROVE  /\ now \in Nat /\ Utcnow(p) \in Nat
         /\ now <= Utcnow(p) /\ Utcnow(p) <= now + Skew
<1>1. \E c \in Consumers : Utcnow(p) = now + offset[c]
  BY TimingAssumption DEF Utcnow
<1>2. QED BY <1>1, TimingAssumption DEF TimingInvariant, TypeOK

\* A claim that is held is not stale for a clock read by now.
LEMMA HeldIsFresh ==
  ASSUME TimingInvariant, NEW g \in Handlers, pc[g] \in {"working", "recording"},
         NEW t \in Nat, t <= now + Skew
  PROVE  claim = stamp[g] /\ claim # None /\ ~Stale(t)
<1>1. /\ now <= deadline[g] /\ claim = stamp[g]
      /\ deadline[g] <= stamp[g] + MaxWork + 3 * MaxTransaction
      /\ stamp[g] \in Nat /\ deadline[g] \in Nat /\ now \in Nat
  BY TimingAssumption DEF TimingInvariant, TypeOK, HandlerOnTime
<1>2. QED BY <1>1, TimingAssumption DEF Stale

\* The row that a recovery has locked belongs to no handler at work.
LEMMA LockedIsFree ==
  ASSUME TimingInvariant, NEW c \in Consumers, pc[c] = "releasing"
  PROVE  \A h \in Handlers : pc[h] \notin {"working", "recording"}
<1>1. stamp[c] \in Nat /\ stamp[c] <= now + Skew /\ Stale(stamp[c])
  BY DEF TimingInvariant, TypeOK, RecoveryOnTime
<1>2. QED BY <1>1, HeldIsFresh

\* Time passes only as long as everybody is on time.
LEMMA TickStep ==
  ASSUME TimingInvariant, Tick
  PROVE  TimingInvariant'
<1>1. /\ now \in Nat /\ now' = now + 1
      /\ UNCHANGED <<offset, claim, pc, stamp, deadline>>
      /\ \A p \in Processes : /\ pc[p] \notin {"idle", "down"} => now < deadline[p]
                             /\ deadline[p] \in Nat /\ stamp[p] \in Nat
  BY DEF Tick, TimingInvariant, TypeOK
<1>2. ASSUME NEW c \in Consumers
      PROVE  /\ delay[c] \in Nat /\ delay'[c] \in Nat /\ delay[c] <= delay'[c]
             /\ KeepsWaiting(c) => delay'[c] = delay[c] + 1
  BY DEF Tick, TimingInvariant, TypeOK
<1>3. TypeOK'
  <2>1. delay' \in [Consumers -> Nat]
    BY DEF Tick, TimingInvariant, TypeOK
  <2>2. QED BY <1>1, <2>1 DEF TimingInvariant, TypeOK
<1>4. ASSUME NEW h \in Handlers PROVE HandlerOnTime(h)'
  BY <1>1, TimingAssumption DEF TimingInvariant, TypeOK, HandlerOnTime
<1>5. ASSUME NEW c \in Consumers PROVE RecoveryOnTime(c)'
  <2>1. RecoveryOnTime(c) /\ claim \in Nat \cup {None} /\ pc[c] \in RecoveryLabels
    BY DEF TimingInvariant, TypeOK
  <2>2. claim # None /\ pc[c] = "down" => now' <= PollBound(c)'
    BY <1>1, <1>2, <2>1, TimingAssumption DEF RecoveryOnTime, PollBound, KeepsWaiting
  <2>3. QED
    BY <1>1, <1>2, <2>1, <2>2, TimingAssumption DEF RecoveryOnTime, PollBound, Stale
<1>6. OneHolder' /\ OneReleaser'
  BY <1>1 DEF TimingInvariant, OneHolder, OneReleaser
<1>7. QED BY <1>3, <1>4, <1>5, <1>6 DEF TimingInvariant

\* What a step that takes process p somewhere else does to the others.
LEMMA GotoFrame ==
  ASSUME TypeOK, NEW p \in Processes,
         NEW label \in HandlerLabels \cup RecoveryLabels, NEW end \in Nat, NEW reading \in Nat,
         Goto(p, label, end, reading)
  PROVE  /\ pc' \in [Processes -> HandlerLabels \cup RecoveryLabels]
         /\ stamp' \in [Processes -> Nat] /\ deadline' \in [Processes -> Nat]
         /\ pc'[p] = label /\ deadline'[p] = end /\ stamp'[p] = reading
         /\ \A q \in Processes \ {p} :
              pc'[q] = pc[q] /\ deadline'[q] = deadline[q] /\ stamp'[q] = stamp[q]
  BY DEF Goto, TypeOK

\* A recovery task that a step leaves alone stays on time if the claim stays, goes, or
\* is new and the task holds no lock.
LEMMA BystanderOnTime ==
  ASSUME TimingInvariant, NEW c \in Consumers,
         UNCHANGED now, pc'[c] = pc[c], deadline'[c] = deadline[c], stamp'[c] = stamp[c],
         \/ claim' = claim /\ delay'[c] = delay[c]
         \/ claim' = None /\ pc[c] # "releasing"
         \/ /\ claim' \in Nat /\ now <= claim' + MaxTransaction
            /\ delay'[c] = 0 /\ pc[c] # "releasing"
  PROVE  RecoveryOnTime(c)'
<1>1. /\ RecoveryOnTime(c) /\ now \in Nat /\ deadline[c] \in Nat /\ stamp[c] \in Nat
      /\ claim \in Nat \cup {None} /\ pc[c] \in RecoveryLabels
  BY DEF TimingInvariant, TypeOK
<1>2. CASE claim' = claim /\ delay'[c] = delay[c]
  BY <1>1, <1>2 DEF RecoveryOnTime, PollBound, Stale
<1>3. CASE claim' = None /\ pc[c] # "releasing"
  BY <1>1, <1>3 DEF RecoveryOnTime
<1>4. CASE /\ claim' \in Nat /\ now <= claim' + MaxTransaction
           /\ delay'[c] = 0 /\ pc[c] # "releasing"
  BY <1>1, <1>4, TimingAssumption DEF RecoveryOnTime, PollBound
<1>5. QED BY <1>2, <1>3, <1>4

\* The steps of a handler other than its claim.
LEMMA HandlerStep ==
  ASSUME TimingInvariant, NEW h \in Handlers,
         ReadClock(h) \/ FinishWork(h) \/ RecordResult(h) \/ Die(h)
  PROVE  TimingInvariant'
<1>1. /\ TypeOK /\ HandlerOnTime(h) /\ h \notin Consumers
      /\ stamp[h] \in Nat /\ deadline[h] \in Nat /\ now \in Nat
      /\ Utcnow(h) \in Nat /\ now <= Utcnow(h) /\ Utcnow(h) <= now + Skew
  BY ClocksAreClose, TimingAssumption DEF TimingInvariant, TypeOK
<1>2. PICK label \in HandlerLabels, end \in Nat, reading \in Nat :
        /\ Goto(h, label, end, reading) /\ UNCHANGED <<now, offset, delay>>
        /\ \/ label = "claiming" /\ end = now + MaxTransaction /\ reading = Utcnow(h)
           \/ /\ pc[h] = "working" /\ label = "recording"
              /\ end = now + MaxTransaction /\ reading = stamp[h]
           \/ label = "idle" /\ reading = 0
        /\ \/ claim' = claim
           \/ claim' = None /\ ~Locked /\ pc[h] = "recording" /\ label = "idle"
  BY <1>1, TimingAssumption DEF ReadClock, FinishWork, RecordResult, Die, Return
<1>3. /\ pc' \in [Processes -> HandlerLabels \cup RecoveryLabels]
      /\ stamp' \in [Processes -> Nat] /\ deadline' \in [Processes -> Nat]
      /\ pc'[h] = label /\ deadline'[h] = end /\ stamp'[h] = reading
      /\ \A q \in Processes \ {h} :
           pc'[q] = pc[q] /\ deadline'[q] = deadline[q] /\ stamp'[q] = stamp[q]
  BY <1>1, <1>2, GotoFrame
<1>4. TypeOK'
  BY <1>1, <1>2, <1>3 DEF TypeOK
<1>5. ASSUME NEW g \in Handlers PROVE HandlerOnTime(g)'
  <2>1. CASE g = h
    <3>1. CASE label = "claiming"
      BY <3>1, <2>1, <1>1, <1>2, <1>3, TimingAssumption DEF HandlerOnTime
    <3>2. CASE label = "recording"
      BY <3>2, <2>1, <1>1, <1>2, <1>3, TimingAssumption DEF HandlerOnTime
    <3>3. CASE label = "idle"
      BY <3>3, <2>1, <1>1, <1>2, <1>3, TimingAssumption DEF HandlerOnTime
    <3>4. QED BY <3>1, <3>2, <3>3, <1>2
  <2>2. CASE g # h
    <3>1. pc[g] \in {"working", "recording"} => claim' = claim
      BY <2>2, <1>2 DEF TimingInvariant, OneHolder
    <3>2. QED BY <3>1, <2>2, <1>2, <1>3 DEF TimingInvariant, HandlerOnTime
  <2>3. QED BY <2>1, <2>2
<1>6. ASSUME NEW c \in Consumers PROVE RecoveryOnTime(c)'
  <2>1. pc'[c] = pc[c] /\ deadline'[c] = deadline[c] /\ stamp'[c] = stamp[c]
    BY <1>1, <1>3
  <2>2. QED BY <2>1, <1>2, BystanderOnTime DEF Locked
<1>7. OneHolder' /\ OneReleaser'
  BY <1>1, <1>2, <1>3 DEF TimingInvariant, OneHolder, OneReleaser
<1>8. QED BY <1>4, <1>5, <1>6, <1>7 DEF TimingInvariant

\* A claim succeeds only when nobody is still at the work an earlier one is for.
LEMMA ClaimColumnStep ==
  ASSUME TimingInvariant, NEW h \in Handlers, ClaimColumn(h)
  PROVE  TimingInvariant'
<1>1. /\ TypeOK /\ pc[h] = "claiming" /\ stamp[h] \in Nat /\ now \in Nat
      /\ stamp[h] <= now + Skew /\ now <= stamp[h] + MaxTransaction /\ h \notin Consumers
  BY TimingAssumption DEF ClaimColumn, TimingInvariant, TypeOK, HandlerOnTime
<1>2. CASE claim = None \/ Stale(stamp[h])
  <2>1. /\ claim' = stamp[h] /\ UNCHANGED <<now, offset>>
        /\ delay' = [c \in Consumers |-> 0] /\ ~Locked
        /\ Goto(h, "working", now + MaxTransaction + MaxWork, stamp[h])
        /\ now + MaxTransaction + MaxWork \in Nat
    BY <1>1, <1>2, TimingAssumption DEF ClaimColumn
  <2>2. /\ pc' \in [Processes -> HandlerLabels \cup RecoveryLabels]
        /\ stamp' \in [Processes -> Nat] /\ deadline' \in [Processes -> Nat]
        /\ pc'[h] = "working" /\ stamp'[h] = stamp[h]
        /\ deadline'[h] = now + MaxTransaction + MaxWork
        /\ \A q \in Processes \ {h} :
             pc'[q] = pc[q] /\ deadline'[q] = deadline[q] /\ stamp'[q] = stamp[q]
    BY <1>1, <2>1, GotoFrame
  <2>3. TypeOK'
    BY <1>1, <2>1, <2>2 DEF TypeOK
  <2>4. \A g \in Handlers : pc[g] \notin {"working", "recording"}
    BY <1>1, <1>2, HeldIsFresh
  <2>5. ASSUME NEW g \in Handlers PROVE HandlerOnTime(g)'
    <3>1. CASE g = h
      BY <3>1, <2>1, <2>2, <1>1, TimingAssumption DEF HandlerOnTime
    <3>2. CASE g # h
      BY <3>2, <2>1, <2>2, <2>4 DEF HandlerOnTime, TimingInvariant
    <3>3. QED BY <3>1, <3>2
  <2>6. ASSUME NEW c \in Consumers PROVE RecoveryOnTime(c)'
    <3>1. /\ pc'[c] = pc[c] /\ deadline'[c] = deadline[c] /\ stamp'[c] = stamp[c]
          /\ pc[c] # "releasing" /\ delay'[c] = 0
      BY <1>1, <2>1, <2>2 DEF Locked
    <3>2. QED BY <3>1, <1>1, <2>1, BystanderOnTime
  <2>7. OneHolder' /\ OneReleaser'
    BY <1>1, <2>2, <2>4 DEF OneHolder, OneReleaser, TimingInvariant
  <2>8. QED BY <2>3, <2>5, <2>6, <2>7 DEF TimingInvariant
<1>3. CASE ~(claim = None \/ Stale(stamp[h]))
  <2>1. Die(h)
    BY <1>1, <1>3 DEF ClaimColumn, Die
  <2>2. QED BY <2>1, HandlerStep
<1>4. QED BY <1>2, <1>3

\* A step of the recovery task of c that is on time afterwards, and that clears the
\* claim only while it holds the row, preserves the invariant.
LEMMA RecoveryFrame ==
  ASSUME TimingInvariant, NEW c \in Consumers, NEW label \in RecoveryLabels,
         NEW end \in Nat, NEW reading \in Nat, Goto(c, label, end, reading),
         UNCHANGED <<now, offset>>, delay' \in [Consumers -> Nat],
         \A d \in Consumers \ {c} : delay'[d] = delay[d],
         claim' = claim \/ (claim' = None /\ pc[c] = "releasing"),
         label = "releasing" => ~Locked,
         RecoveryOnTime(c)'
  PROVE  TimingInvariant'
<1>1. TypeOK /\ c \in Processes /\ c \notin Handlers
  BY TimingAssumption DEF TimingInvariant
<1>2. /\ pc' \in [Processes -> HandlerLabels \cup RecoveryLabels]
      /\ stamp' \in [Processes -> Nat] /\ deadline' \in [Processes -> Nat]
      /\ pc'[c] = label /\ deadline'[c] = end /\ stamp'[c] = reading
      /\ \A q \in Processes \ {c} :
           pc'[q] = pc[q] /\ deadline'[q] = deadline[q] /\ stamp'[q] = stamp[q]
  BY <1>1, GotoFrame
<1>3. TypeOK'
  BY <1>1, <1>2 DEF TypeOK
<1>4. ASSUME NEW h \in Handlers PROVE HandlerOnTime(h)'
  <2>1. pc[h] \in {"working", "recording"} => claim' = claim
    BY LockedIsFree
  <2>2. QED BY <2>1, <1>1, <1>2 DEF TimingInvariant, HandlerOnTime
<1>5. ASSUME NEW d \in Consumers PROVE RecoveryOnTime(d)'
  <2>1. CASE d # c
    <3>1. /\ pc'[d] = pc[d] /\ deadline'[d] = deadline[d] /\ stamp'[d] = stamp[d]
          /\ delay'[d] = delay[d]
      BY <2>1, <1>2
    <3>2. claim' = None /\ pc[c] = "releasing" => pc[d] # "releasing"
      BY <2>1 DEF TimingInvariant, OneReleaser
    <3>3. QED BY <3>1, <3>2, BystanderOnTime
  <2>2. QED BY <2>1
<1>6. OneHolder' /\ OneReleaser'
  BY <1>1, <1>2 DEF TimingInvariant, OneHolder, OneReleaser, Locked
<1>7. QED BY <1>3, <1>4, <1>5, <1>6 DEF TimingInvariant

\* The recovery task takes no claim from a handler that is on time, and knows what
\* its own mishaps cost.
LEMMA RecoveryStep ==
  ASSUME TimingInvariant, NEW c \in Consumers,
         \/ StartScan(c) \/ SelectStale(c) \/ FindNothing(c) \/ PassOver(c)
         \/ Release(c) \/ FailPoll(c) \/ Restart(c)
  PROVE  TimingInvariant'
<1>1. /\ TypeOK /\ RecoveryOnTime(c) /\ c \in Processes
      /\ now \in Nat /\ stamp[c] \in Nat /\ deadline[c] \in Nat /\ delay[c] \in Nat
      /\ delay \in [Consumers -> Nat] /\ claim \in Nat \cup {None}
      /\ Utcnow(c) \in Nat /\ now <= Utcnow(c) /\ Utcnow(c) <= now + Skew
      /\ Round \in Nat /\ Round = PollInterval + 2 * MaxTransaction
      /\ now + PollInterval \in Nat /\ now + MaxTransaction \in Nat
  BY ClocksAreClose, TimingAssumption DEF TimingInvariant, TypeOK, Round
<1> DEFINE At(label, end, reading) ==
             pc'[c] = label /\ deadline'[c] = end /\ stamp'[c] = reading
<1>2. ASSUME NEW label \in RecoveryLabels, NEW end \in Nat, NEW reading \in Nat,
             Goto(c, label, end, reading)
      PROVE  At(label, end, reading)
  BY <1>1, <1>2, GotoFrame
<1>3. ASSUME NEW duration \in Nat, PutOff(c, duration)
      PROVE  /\ delay' \in [Consumers -> Nat] /\ delay'[c] = delay[c] + duration
             /\ \A d \in Consumers \ {c} : delay'[d] = delay[d]
  BY <1>1, <1>3 DEF PutOff
<1>4. CASE StartScan(c)
  <2>1. /\ pc[c] = "asleep" /\ now >= deadline[c] /\ UNCHANGED <<now, offset, claim, delay>>
        /\ Goto(c, "selecting", now + MaxTransaction, Utcnow(c))
    BY <1>4 DEF StartScan
  <2>2. At("selecting", now + MaxTransaction, Utcnow(c))
    BY <2>1, <1>1, <1>2
  <2>3. RecoveryOnTime(c)'
    BY <2>1, <2>2, <1>1, TimingAssumption DEF RecoveryOnTime, PollBound
  <2>4. /\ UNCHANGED <<now, offset>> /\ delay' \in [Consumers -> Nat]
        /\ \A d \in Consumers \ {c} : delay'[d] = delay[d]
        /\ claim' = claim \/ (claim' = None /\ pc[c] = "releasing")
    BY <2>1, <1>1
  <2>5. QED BY <2>1, <2>3, <2>4, <1>1, RecoveryFrame
<1>5. CASE SelectStale(c)
  <2>1. /\ pc[c] = "selecting" /\ Stale(stamp[c]) /\ ~Locked
        /\ UNCHANGED <<now, offset, claim, delay>>
        /\ Goto(c, "releasing", now + MaxTransaction, stamp[c])
    BY <1>5 DEF SelectStale
  <2>2. At("releasing", now + MaxTransaction, stamp[c])
    BY <2>1, <1>1, <1>2
  <2>3. RecoveryOnTime(c)'
    BY <2>1, <2>2, <1>1, TimingAssumption DEF RecoveryOnTime, PollBound, Stale
  <2>4. /\ UNCHANGED <<now, offset>> /\ delay' \in [Consumers -> Nat]
        /\ \A d \in Consumers \ {c} : delay'[d] = delay[d]
        /\ claim' = claim \/ (claim' = None /\ pc[c] = "releasing")
    BY <2>1, <1>1
  <2>5. QED BY <2>1, <2>3, <2>4, <1>1, RecoveryFrame
<1>6. CASE FindNothing(c) \/ PassOver(c) \/ FailPoll(c)
  <2>1. PICK duration \in Nat :
          /\ pc[c] \in {"selecting", "releasing"} /\ UNCHANGED <<now, offset, claim>>
          /\ Goto(c, "asleep", now + PollInterval, 0)
          /\ delay' \in [Consumers -> Nat] /\ delay'[c] = delay[c] + duration
          /\ \A d \in Consumers \ {c} : delay'[d] = delay[d]
          /\ Stale(stamp[c]) => duration = Round
    <3>1. CASE FindNothing(c)
      BY <3>1, <1>1 DEF FindNothing, Sleep
    <3>2. CASE PassOver(c)
      BY <3>2, <1>1, <1>3 DEF PassOver, Sleep
    <3>3. CASE FailPoll(c)
      BY <3>3, <1>1, <1>3 DEF FailPoll, Sleep
    <3>4. QED BY <3>1, <3>2, <3>3, <1>6
  <2>2. At("asleep", now + PollInterval, 0)
    BY <2>1, <1>1, <1>2
  <2>3. RecoveryOnTime(c)'
    <3>1. CASE claim = None
      BY <3>1, <2>1, <2>2, <1>1, TimingAssumption DEF RecoveryOnTime
    <3>2. CASE claim # None /\ Stale(stamp[c])
      BY <3>2, <2>1, <2>2, <1>1, TimingAssumption DEF RecoveryOnTime, PollBound
    <3>3. CASE claim # None /\ ~Stale(stamp[c])
      BY <3>3, <2>1, <2>2, <1>1, TimingAssumption DEF RecoveryOnTime, PollBound, Stale
    <3>4. QED BY <3>1, <3>2, <3>3
  <2>4. /\ UNCHANGED <<now, offset>> /\ delay' \in [Consumers -> Nat]
        /\ \A d \in Consumers \ {c} : delay'[d] = delay[d]
        /\ claim' = claim \/ (claim' = None /\ pc[c] = "releasing")
    BY <2>1, <1>1
  <2>5. QED BY <2>1, <2>3, <2>4, <1>1, RecoveryFrame
<1>7. CASE Release(c)
  <2>1. /\ pc[c] = "releasing" /\ claim' = None /\ UNCHANGED <<now, offset, delay>>
        /\ Goto(c, "asleep", now + PollInterval, 0)
    BY <1>7 DEF Release, Sleep
  <2>2. At("asleep", now + PollInterval, 0)
    BY <2>1, <1>1, <1>2
  <2>3. RecoveryOnTime(c)'
    BY <2>1, <2>2, <1>1, TimingAssumption DEF RecoveryOnTime
  <2>4. /\ UNCHANGED <<now, offset>> /\ delay' \in [Consumers -> Nat]
        /\ \A d \in Consumers \ {c} : delay'[d] = delay[d]
        /\ claim' = claim \/ (claim' = None /\ pc[c] = "releasing")
    BY <2>1, <1>1
  <2>5. QED BY <2>1, <2>3, <2>4, <1>1, RecoveryFrame
<1>8. CASE Restart(c)
  <2>1. /\ pc[c] = "down" /\ UNCHANGED <<now, offset, claim, delay>>
        /\ Goto(c, "asleep", now, 0)
    BY <1>8 DEF Restart
  <2>2. At("asleep", now, 0)
    BY <2>1, <1>1, <1>2
  <2>3. RecoveryOnTime(c)'
    BY <2>1, <2>2, <1>1, TimingAssumption DEF RecoveryOnTime, PollBound
  <2>4. /\ UNCHANGED <<now, offset>> /\ delay' \in [Consumers -> Nat]
        /\ \A d \in Consumers \ {c} : delay'[d] = delay[d]
        /\ claim' = claim \/ (claim' = None /\ pc[c] = "releasing")
    BY <2>1, <1>1
  <2>5. QED BY <2>1, <2>3, <2>4, <1>1, RecoveryFrame
<1>9. QED BY <1>4, <1>5, <1>6, <1>7, <1>8

\* The end of a process frees the row if it had locked it, and nothing else.
LEMMA CrashStep ==
  ASSUME TimingInvariant, NEW c \in Consumers, Crash(c)
  PROVE  TimingInvariant'
<1>1. /\ TypeOK /\ RecoveryOnTime(c) /\ c \in Processes /\ c \notin Handlers
      /\ now \in Nat /\ deadline[c] \in Nat /\ delay[c] \in Nat /\ delay \in [Consumers -> Nat]
      /\ claim \in Nat \cup {None} /\ pc[c] \in RecoveryLabels \ {"down"}
      /\ UNCHANGED <<now, offset, claim>>
  BY TimingAssumption DEF Crash, TimingInvariant, TypeOK
<1>2. /\ pc' \in [Processes -> HandlerLabels \cup RecoveryLabels]
      /\ stamp' \in [Processes -> Nat] /\ deadline' \in [Processes -> Nat]
      /\ pc'[c] = "down" /\ deadline'[c] = now /\ stamp'[c] = 0
  BY <1>1 DEF Crash, TypeOK
<1>3. ASSUME NEW d \in Consumers \ {c}
      PROVE  pc'[d] = pc[d] /\ deadline'[d] = deadline[d] /\ stamp'[d] = stamp[d]
  BY TimingAssumption DEF Crash, HandlerOf
<1>4. ASSUME NEW h \in Handlers
      PROVE  \/ pc'[h] = pc[h] /\ deadline'[h] = deadline[h] /\ stamp'[h] = stamp[h]
             \/ pc'[h] = "idle" /\ deadline'[h] = 0 /\ stamp'[h] = 0
  BY <1>1 DEF Crash
<1>5. /\ delay' \in [Consumers -> Nat]
      /\ \A d \in Consumers \ {c} : delay'[d] = delay[d]
      /\ delay'[c] = delay[c] + (IF claim # None /\ pc[c] # "asleep"
                                    THEN 2 * MaxTransaction ELSE 0)
  BY <1>1, TimingAssumption DEF Crash, PutOff
<1>6. TypeOK'
  BY <1>1, <1>2, <1>3, <1>4, <1>5 DEF TypeOK
<1>7. ASSUME NEW h \in Handlers PROVE HandlerOnTime(h)'
  BY <1>1, <1>4, TimingAssumption DEF TimingInvariant, HandlerOnTime
<1>8. ASSUME NEW d \in Consumers PROVE RecoveryOnTime(d)'
  <2>1. CASE d = c
    BY <2>1, <1>1, <1>2, <1>5, TimingAssumption DEF RecoveryOnTime, PollBound
  <2>2. CASE d # c
    BY <2>2, <1>1, <1>3, <1>5, BystanderOnTime
  <2>3. QED BY <2>1, <2>2
<1>9. OneHolder' /\ OneReleaser'
  BY <1>2, <1>3, <1>4 DEF TimingInvariant, OneHolder, OneReleaser
<1>10. QED BY <1>6, <1>7, <1>8, <1>9 DEF TimingInvariant

\* Every step preserves the invariant.
LEMMA NextOnTime == TimingInvariant /\ [Next]_vars => TimingInvariant'
<1> SUFFICES ASSUME TimingInvariant, [Next]_vars PROVE TimingInvariant'
  OBVIOUS
<1>1. CASE UNCHANGED vars
  BY <1>1 DEF vars, TimingInvariant, TypeOK, HandlerOnTime, RecoveryOnTime, PollBound, Stale,
              OneHolder, OneReleaser
<1>2. QED
  BY <1>1, TickStep, RecoveryStep, CrashStep, HandlerStep, ClaimColumnStep DEF Next

\* Deadlines follow the clock readings they rest on, for handlers and recovery alike,
\* and the row lock is exclusive: the invariant the three theorems below rest on.
THEOREM TimingHolds == Spec => []TimingInvariant
<1>1. QED BY InitOnTime, NextOnTime, PTL DEF Spec

\* A claim stays with a handler that is on time, although recovery clears it by
\* primary key: whoever selects the row keeps it locked until then.
THEOREM HoldersKeepClaims == Spec => []HolderKeepsClaim
<1>1. TimingInvariant => HolderKeepsClaim
  BY DEF TimingInvariant, HandlerOnTime, HolderKeepsClaim
<1>2. QED BY <1>1, TimingHolds, PTL

\* No two handlers are at the work of one claim column at a time.
THEOREM WorkIsExclusive == Spec => []ExclusiveWork
<1>1. TimingInvariant => ExclusiveWork
  BY DEF TimingInvariant, OneHolder, ExclusiveWork
<1>2. QED BY <1>1, TimingHolds, PTL

\* A claim lasts longer than a timeout, a poll and three transactions only by what
\* failed polls, polls that passed it over and dead processes account for, and that
\* for each consumer process.
THEOREM LongClaimsExplained == Spec => []LongClaimsAreExplained
<1>1. TimingInvariant => LongClaimsAreExplained
  <2> SUFFICES ASSUME TimingInvariant, claim # None, NEW c \in Consumers
               PROVE  now <= claim + Timeout + PollInterval + 3 * MaxTransaction + delay[c]
    BY DEF LongClaimsAreExplained
  <2>1. /\ RecoveryOnTime(c) /\ pc[c] \in RecoveryLabels /\ now \in Nat /\ claim \in Nat
        /\ deadline[c] \in Nat /\ delay[c] \in Nat
    BY DEF TimingInvariant, TypeOK
  <2>2. QED BY <2>1, TimingAssumption DEF RecoveryOnTime, PollBound
<1>2. QED BY <1>1, TimingHolds, PTL
=============================================================================
