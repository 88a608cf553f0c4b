---------------------------- MODULE ClaimTiming ----------------------------
(***************************************************************************)
(* One claim column of one payment in real time.  gateway_claimed_at and   *)
(* webhook_claimed_at are used in the same way: a handler reads its clock, *)
(* sets the column unless it holds a fresh timestamp, reads the row again, *)
(* works for a bounded time (the gateway's longest delay, the timeout of a *)
(* webhook delivery), and gives the claim up if it is still its own.       *)
(*                                                                         *)
(* Each consumer process runs handlers and one recovery task, which reads  *)
(* the clock, selects and locks stale rows, clears their claims, and       *)
(* sleeps.  A poll may fail, or pass the row over (LIMIT, SKIP LOCKED);    *)
(* the task lives and dies with its process.                               *)
(*                                                                         *)
(* PaymentProcessing lets claims expire at any time; here is the reason    *)
(* why, with sufficient timeouts, they do not expire under their holders,  *)
(* and how long a claim can outlive its holder.                            *)
(***************************************************************************)
EXTENDS Integers

CONSTANTS
  Consumers,       \* consumer processes; also their run_claim_recovery tasks
  Handlers,        \* concurrent runs of handle_payment_created
  Home,            \* the consumer process of each handler
  Timeout,         \* GATEWAY_ or WEBHOOK_CLAIM_TIMEOUT_SECONDS
  MaxWork,         \* PAYMENT_GATEWAY_MAX_DELAY_SECONDS or WEBHOOK_TIMEOUT_SECONDS
  MaxTransaction,  \* the longest a read takes, or a write up to the end of its
                   \* COMMIT, with all waiting for connections and row locks
  PollInterval,    \* CLAIM_RECOVERY_POLL_INTERVAL_SECONDS
  Skew,            \* the largest difference between the clocks of two processes
  MaxTime,         \* bound: the end of time
  MaxDelay,        \* bound: what the mishaps of one task may add up to for a claim
  None             \* SQL NULL

Processes == Handlers \cup Consumers

\* validate_retry_settings asks for Timeout > MaxWork; the claim, the read that
\* follows it, the record and the skew of the clocks have to fit in as well.
ASSUME TimingAssumption ==
  /\ {Timeout, MaxWork, MaxTransaction, PollInterval, Skew, MaxTime, MaxDelay} \subseteq Nat
  /\ Timeout >= MaxWork + 3 * MaxTransaction + Skew
  /\ Consumers \cap Handlers = {}
  /\ Home \in [Handlers -> Consumers]
  /\ None \notin Int

VARIABLES
  now,       \* true time
  offset,    \* how far the clock of each consumer process is ahead
  claim,     \* the claim column
  pc,        \* where each handler and each recovery task is
  stamp,     \* the time each of them has read
  deadline,  \* when each is done with what it is doing, at the latest
  delay      \* history: how long the mishaps of each recovery task may have put
             \* off the end of the present claim

vars == <<now, offset, claim, pc, stamp, deadline, delay>>

HandlerLabels == {"idle", "claiming", "working", "recording"}
RecoveryLabels == {"down", "asleep", "selecting", "releasing"}

Init ==
  /\ now      = 0
  /\ offset   \in [Consumers -> 0..Skew]
  /\ claim    = None
  /\ pc       = [p \in Processes |-> IF p \in Consumers THEN "down" ELSE "idle"]
  /\ stamp    = [p \in Processes |-> 0]
  /\ deadline = [p \in Processes |-> 0]
  /\ delay    = [c \in Consumers |-> 0]

-----------------------------------------------------------------------------
(* Clocks, timestamps and the row lock *)

\* Process p goes on to something that ends at this time at the latest, with
\* this reading of the clock in its local variables; 0 when they are gone.
Goto(p, label, end, reading) ==
  /\ pc' = [pc EXCEPT ![p] = label]
  /\ deadline' = [deadline EXCEPT ![p] = end]
  /\ stamp' = [stamp EXCEPT ![p] = reading]

Return(h) == Goto(h, "idle", 0, 0)

Sleep(c) == Goto(c, "asleep", now + PollInterval, 0)

Utcnow(p) == now + offset[IF p \in Handlers THEN Home[p] ELSE p]

\* Mutant: as if the timeout had to cover the work only.
StaleAfterWork(t) == claim # None /\ claim < t - (MaxWork + 1)

\* Mutant: a claim is stale at its timeout already.
StaleAtTimeout(t) == claim # None /\ claim <= t - Timeout

Stale(t) == claim # None /\ claim < t - Timeout

\* Mutant: the rows are selected without FOR UPDATE.
NeverLocked == FALSE

\* A recovery transaction holds the row from its SELECT to its end.
Locked == \E c \in Consumers : pc[c] = "releasing"

-----------------------------------------------------------------------------
(* Handlers *)

ReadClock(h) ==
  /\ pc[h] = "idle" /\ pc[Home[h]] # "down"
  /\ Goto(h, "claiming", now + MaxTransaction, Utcnow(h))
  /\ UNCHANGED <<now, offset, claim, delay>>

\* The conditional UPDATE, which waits for the lock of a row it matches; then the
\* row is read again and the work begins.
ClaimColumn(h) ==
  /\ pc[h] = "claiming"
  /\ \/ /\ claim = None \/ Stale(stamp[h])
        /\ ~Locked
        /\ claim' = stamp[h] /\ delay' = [c \in Consumers |-> 0]
        /\ Goto(h, "working", now + MaxTransaction + MaxWork, stamp[h])
     \/ /\ ~(claim = None \/ Stale(stamp[h]))
        /\ Return(h)
        /\ UNCHANGED <<claim, delay>>
  /\ UNCHANGED <<now, offset>>

FinishWork(h) ==
  /\ pc[h] = "working" /\ Goto(h, "recording", now + MaxTransaction, stamp[h])
  /\ UNCHANGED <<now, offset, claim, delay>>

\* The UPDATE that records the result, or the failure, matches the claim timestamp.
RecordResult(h) ==
  /\ pc[h] = "recording" /\ Return(h)
  /\ claim = stamp[h] => ~Locked
  /\ claim' = IF claim = stamp[h] THEN None ELSE claim
  /\ UNCHANGED <<now, offset, delay>>

\* An exception that handle_payment_created does not catch.
Die(h) ==
  /\ pc[h] # "idle" /\ Return(h)
  /\ UNCHANGED <<now, offset, claim, delay>>

-----------------------------------------------------------------------------
(* Recovery *)

\* What a poll that leaves a stale claim behind costs: itself and the next sleep.
Round == PollInterval + 2 * MaxTransaction

PutOff(c, duration) ==
  /\ delay[c] + duration <= MaxDelay
  /\ delay' = [delay EXCEPT ![c] = @ + duration]

StartScan(c) ==
  /\ pc[c] = "asleep" /\ now >= deadline[c]
  /\ Goto(c, "selecting", now + MaxTransaction, Utcnow(c))
  /\ UNCHANGED <<now, offset, claim, delay>>

\* The query finds the row and locks it.
SelectStale(c) ==
  /\ pc[c] = "selecting" /\ Stale(stamp[c]) /\ ~Locked
  /\ Goto(c, "releasing", now + MaxTransaction, stamp[c])
  /\ UNCHANGED <<now, offset, claim, delay>>

FindNothing(c) ==
  /\ pc[c] = "selecting" /\ ~Stale(stamp[c]) /\ Sleep(c)
  /\ UNCHANGED <<now, offset, claim, delay>>

\* Somebody has locked the row, or the batch is full of other rows.
PassOver(c) ==
  /\ pc[c] = "selecting" /\ Stale(stamp[c]) /\ Sleep(c)
  /\ PutOff(c, Round)
  /\ UNCHANGED <<now, offset, claim>>

\* The UPDATE by primary key, the outbox row, and the COMMIT.
Release(c) ==
  /\ pc[c] = "releasing" /\ Sleep(c)
  /\ claim' = None
  /\ UNCHANGED <<now, offset, delay>>

\* The iteration raises; the loop logs it and sleeps.
FailPoll(c) ==
  /\ pc[c] \in {"selecting", "releasing"} /\ Sleep(c)
  /\ PutOff(c, IF Stale(stamp[c]) THEN Round ELSE 0)
  /\ UNCHANGED <<now, offset, claim>>

-----------------------------------------------------------------------------
(* Processes and time *)

HandlerOf(p, c) == p \in Handlers /\ Home[p] = c

\* The death of a consumer takes its handlers and its recovery task along.
Crash(c) ==
  /\ pc[c] # "down"
  /\ pc' = [p \in Processes |->
              IF p = c THEN "down" ELSE IF HandlerOf(p, c) THEN "idle" ELSE pc[p]]
  /\ deadline' = [p \in Processes |->
                    IF p = c THEN now ELSE IF HandlerOf(p, c) THEN 0 ELSE deadline[p]]
  /\ stamp' = [p \in Processes |-> IF p = c \/ HandlerOf(p, c) THEN 0 ELSE stamp[p]]
  /\ PutOff(c, IF claim # None /\ pc[c] # "asleep" THEN 2 * MaxTransaction ELSE 0)
  /\ UNCHANGED <<now, offset, claim>>

\* Mutant: the loop sleeps before its first poll.
RestartWithSleep(c) ==
  /\ pc[c] = "down" /\ now > deadline[c] /\ Sleep(c)
  /\ UNCHANGED <<now, offset, claim, delay>>

\* A new process needs some time to start; its first poll follows at once.
Restart(c) ==
  /\ pc[c] = "down" /\ now > deadline[c] /\ Goto(c, "asleep", now, 0)
  /\ UNCHANGED <<now, offset, claim, delay>>

\* A claim that has run out waits for a process that is down.
KeepsWaiting(c) == pc[c] = "down" /\ claim # None /\ now >= claim + Timeout

\* Nobody takes longer than allowed.  How long a process stays down is not bounded.
Tick ==
  /\ now < MaxTime
  /\ \A p \in Processes : pc[p] \notin {"idle", "down"} => now < deadline[p]
  /\ now' = now + 1
  /\ delay' = [c \in Consumers |-> IF KeepsWaiting(c) THEN delay[c] + 1 ELSE delay[c]]
  /\ \A c \in Consumers : delay'[c] <= MaxDelay
  /\ UNCHANGED <<offset, claim, pc, stamp, deadline>>

Next ==
  \/ Tick
  \/ \E c \in Consumers : \/ StartScan(c)
                          \/ SelectStale(c)
                          \/ FindNothing(c)
                          \/ PassOver(c)
                          \/ Release(c)
                          \/ FailPoll(c)
                          \/ Crash(c)
                          \/ Restart(c)
  \/ \E h \in Handlers : \/ ReadClock(h)
                         \/ ClaimColumn(h)
                         \/ FinishWork(h)
                         \/ RecordResult(h)
                         \/ Die(h)

Spec == Init /\ [][Next]_vars

-----------------------------------------------------------------------------
(* Properties *)

\* Times are natural numbers and every process is somewhere.
TypeOK ==
  /\ now \in Nat
  /\ offset \in [Consumers -> 0..Skew]
  /\ claim \in Nat \cup {None}
  /\ pc \in [Processes -> HandlerLabels \cup RecoveryLabels]
  /\ \A h \in Handlers : pc[h] \in HandlerLabels
  /\ \A c \in Consumers : pc[c] \in RecoveryLabels
  /\ stamp \in [Processes -> Nat]
  /\ deadline \in [Processes -> Nat]
  /\ delay \in [Consumers -> Nat]

\* A handler that has not exceeded its time still owns its claim when it comes
\* to record its result: neither a rival nor recovery has taken it for stale.
HolderKeepsClaim ==
  \A h \in Handlers : pc[h] \in {"working", "recording"} => claim = stamp[h]

\* No two handlers are at the gateway, or at the receiver, at a time.
ExclusiveWork ==
  \A g, h \in Handlers : pc[g] = "working" /\ pc[h] = "working" => g = h

\* A claim that is older than a timeout, a poll and three transactions has met a
\* mishap of every consumer process: a failed poll, one that passed it over, or
\* the process being down.  It is not older than the least unlucky one explains.
LongClaimsAreExplained ==
  claim # None =>
    \A c \in Consumers :
      now <= claim + Timeout + PollInterval + 3 * MaxTransaction + delay[c]

-----------------------------------------------------------------------------
(* The inductive invariant behind these properties *)

\* What is known of the times a handler has read and has left.
HandlerOnTime(h) ==
  /\ pc[h] # "idle" => now <= deadline[h]
  /\ pc[h] = "claiming" => deadline[h] <= stamp[h] + MaxTransaction
  /\ pc[h] = "working" => deadline[h] <= stamp[h] + MaxWork + 2 * MaxTransaction
  /\ pc[h] = "recording" => deadline[h] <= stamp[h] + MaxWork + 3 * MaxTransaction
  /\ pc[h] \in {"working", "recording"} => claim = stamp[h]
  /\ stamp[h] <= now + Skew

\* When consumer c starts its next poll, or has started the present one.
PollBound(c) == claim + Timeout + PollInterval + MaxTransaction + delay[c]

\* What is known of the times the recovery task of c has read and has left.
RecoveryOnTime(c) ==
  /\ stamp[c] <= now + Skew
  /\ pc[c] # "down" => now <= deadline[c]
  /\ pc[c] = "asleep" => deadline[c] <= now + PollInterval
  /\ pc[c] = "selecting" => /\ deadline[c] <= now + MaxTransaction
                            /\ deadline[c] <= stamp[c] + MaxTransaction
  /\ pc[c] = "releasing" => claim # None /\ Stale(stamp[c])
  /\ claim # None =>
       /\ pc[c] = "down" => now <= PollBound(c)
       /\ pc[c] = "asleep" => deadline[c] <= PollBound(c)
       /\ pc[c] = "selecting" => deadline[c] <= PollBound(c) + MaxTransaction
       /\ pc[c] = "releasing" => deadline[c] <= PollBound(c) + 2 * MaxTransaction

\* Two handlers between claim and record would hold the same timestamp; the
\* one that claimed later found the other's claim fresh.
OneHolder ==
  \A g, h \in Handlers :
    pc[g] \in {"working", "recording"} /\ pc[h] \in {"working", "recording"} => g = h

\* The row lock is exclusive.
OneReleaser ==
  \A c, d \in Consumers : pc[c] = "releasing" /\ pc[d] = "releasing" => c = d

TimingInvariant ==
  /\ TypeOK
  /\ \A h \in Handlers : HandlerOnTime(h)
  /\ \A c \in Consumers : RecoveryOnTime(c)
  /\ OneHolder
  /\ OneReleaser
=============================================================================
