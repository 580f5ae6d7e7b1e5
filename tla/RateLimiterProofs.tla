------------------------- MODULE RateLimiterProofs -------------------------
(***************************************************************************)
(* A bucket and the leaky bucket of the same client, `used', hold a burst     *)
(* between them: the bucket's tokens, with what they have earned since, and   *)
(* `used' add up to no less, and to no more but for the slack.                *)
(***************************************************************************)
EXTENDS RateLimiter, TLAPS

Slack == Skew * (1 + 2 * sweeps)

(* What the tokens of c are worth now. *)
Worth(c) == buckets[c].tokens + PerMinute * (now - buckets[c].lastSeen)

Clocks ==
  /\ \A r \in DOMAIN waiting : now - waiting[r].at <= MaxDelay
  /\ \A c \in DOMAIN buckets :
       buckets[c].lastSeen <= now /\ lastSwept - buckets[c].lastSeen <= Minute

Balance ==
  \A c \in DOMAIN buckets :
    /\ Worth(c) >= 0
    /\ used[c] + Worth(c) >= Burst
    /\ used[c] = 0 \/ used[c] + Worth(c) <= Burst + Slack

Forgotten == \A c \in Clients \ DOMAIN buckets : used[c] = 0 \/ used[c] + Skew <= Slack

RateInv == TypeOK /\ Clocks /\ Balance /\ Forgotten /\ AdmittedWithinBudget

LEMMA Constants ==
  /\ PerMinute \in Nat \ {0} /\ Minute \in Nat \ {0} /\ MaxDelay \in 0..Minute
  /\ SweepInterval \in Nat \ {0} /\ Horizon \in Nat
  /\ Burst \in Nat /\ Skew \in Nat /\ Skew <= Burst /\ PerMinute * Minute = Burst
<1>1. PerMinute \in Nat \ {0}
  BY RateAssumption DEF PerMinute
<1>2. ASSUME NEW p \in Nat, NEW m \in Nat, NEW d \in 0..m
      PROVE  p * m \in Nat /\ p * d \in Nat /\ p * d <= p * m
  OBVIOUS
<1> QED BY <1>1, <1>2, RateAssumption DEF Burst, Skew

LEMMA Earnings ==
  ASSUME NEW a \in Int, NEW b \in Int, NEW c \in Int
  PROVE  /\ PerMinute * (a - c) \in Int
         /\ PerMinute * (a - c) = PerMinute * (a - b) + PerMinute * (b - c)
         /\ a >= b => PerMinute * (a - b) >= 0
         /\ a <= b + MaxDelay => PerMinute * (a - b) <= Skew
         /\ a > b + Minute => PerMinute * (a - b) >= Burst
         /\ PerMinute * (a + 1 - b) = PerMinute * (a - b) + PerMinute
<1>1. ASSUME NEW p \in Nat, NEW x \in Int, NEW y \in Int, x <= y PROVE p * x <= p * y
  <2>1. y - x \in Nat /\ p * (y - x) \in Nat
    BY <1>1
  <2>2. p * y = p * x + p * (y - x) /\ p * x \in Int
    OBVIOUS
  <2> QED BY <2>1, <2>2
<1>2. ASSUME NEW p \in Nat, NEW x \in Int, NEW y \in Int
      PROVE  p * x \in Int /\ p * (x + y) = p * x + p * y
  OBVIOUS
<1>3. PerMinute \in Nat /\ Minute \in Nat /\ MaxDelay \in Nat
  BY Constants
<1>4. PerMinute * (a - c) \in Int
  BY <1>2, <1>3
<1>5. PerMinute * ((a - b) + (b - c)) = PerMinute * (a - b) + PerMinute * (b - c)
  BY <1>2, <1>3
<1>6. PerMinute * ((a - b) + 1) = PerMinute * (a - b) + PerMinute * 1
  BY <1>2, <1>3
<1>7. a >= b => PerMinute * 0 <= PerMinute * (a - b)
  BY <1>1, <1>3
<1>8. a <= b + MaxDelay => PerMinute * (a - b) <= PerMinute * MaxDelay
  BY <1>1, <1>3
<1>9. a > b + Minute => PerMinute * Minute <= PerMinute * (a - b)
  BY <1>1, <1>3
<1>10. (a - b) + (b - c) = a - c /\ (a - b) + 1 = a + 1 - b /\ PerMinute * 1 = PerMinute /\ PerMinute * 0 = 0
  BY <1>3
<1> QED BY <1>4, <1>5, <1>6, <1>7, <1>8, <1>9, <1>10 DEF Skew, Burst

LEMMA InitRateInv == Init => RateInv
<1> SUFFICES ASSUME Init PROVE RateInv
  OBVIOUS
<1>1. TypeOK
  BY Constants DEF Init, TypeOK
<1>2. Clocks /\ Balance /\ Forgotten
  BY DEF Init, Clocks, Balance, Forgotten
<1>3. AdmittedWithinBudget
  <2>1. Skew * (1 + 2 * 0) = Skew
    BY Constants
  <2> QED BY <2>1, Constants DEF Init, AdmittedWithinBudget
<1> QED BY <1>1, <1>2, <1>3 DEF RateInv

LEMMA SlackIsNat == TypeOK => Slack \in Nat /\ Slack >= Skew
<1> SUFFICES ASSUME TypeOK PROVE Slack \in Nat /\ Slack >= Skew
  OBVIOUS
<1>1. ASSUME NEW k \in Nat, NEW n \in Nat PROVE k * (1 + 2 * n) \in Nat /\ k * (1 + 2 * n) >= k
  OBVIOUS
<1> QED BY <1>1, Constants DEF Slack, TypeOK

LEMMA TickInv == RateInv /\ Tick => RateInv'
<1> SUFFICES ASSUME RateInv, Tick PROVE RateInv'
  OBVIOUS
<1> USE Constants DEF RateInv
<1>1. now' = now + 1 /\ now \in Int /\ UNCHANGED <<buckets, lastSwept, waiting, sweeps>>
  BY DEF Tick, TypeOK
<1>2. \A c \in Clients : used'[c] = IF used[c] > PerMinute THEN used[c] - PerMinute ELSE 0
  BY DEF Tick
<1>3. TypeOK'
  BY DEF Tick, TypeOK
<1>4. Clocks'
  <2>1. ASSUME NEW r \in DOMAIN waiting PROVE now' - waiting[r].at <= MaxDelay
    <3>1. waiting[r].at \in Int /\ now - waiting[r].at < MaxDelay
      BY DEF Tick, TypeOK
    <3> QED BY <1>1, <3>1
  <2>2. ASSUME NEW c \in DOMAIN buckets PROVE buckets[c].lastSeen <= now'
    <3>1. buckets[c].lastSeen \in Int /\ buckets[c].lastSeen <= now
      BY DEF TypeOK, Bucket, Clocks
    <3> QED BY <1>1, <3>1
  <2> QED BY <1>1, <2>1, <2>2 DEF Clocks
<1>5. Slack' = Slack /\ Slack \in Nat
  BY <1>1, SlackIsNat DEF Slack
<1>6. Balance'
  <2> SUFFICES ASSUME NEW c \in DOMAIN buckets
               PROVE  /\ Worth(c)' >= 0
                      /\ used'[c] + Worth(c)' >= Burst
                      /\ used'[c] = 0 \/ used'[c] + Worth(c)' <= Burst + Slack
    BY <1>1, <1>5 DEF Balance
  <2>1. c \in Clients /\ buckets[c].tokens \in Int /\ buckets[c].lastSeen \in Int /\ used[c] \in Nat
    BY DEF TypeOK, Bucket
  <2>2. PerMinute * (now + 1 - buckets[c].lastSeen) = PerMinute * (now - buckets[c].lastSeen) + PerMinute
        /\ PerMinute * (now - buckets[c].lastSeen) \in Int
    BY <1>1, <2>1, Earnings
  <2>3. Worth(c)' = Worth(c) + PerMinute /\ Worth(c) \in Int
    BY <1>1, <2>1, <2>2 DEF Worth
  <2>4. Worth(c) >= 0 /\ used[c] + Worth(c) >= Burst /\ (used[c] = 0 \/ used[c] + Worth(c) <= Burst + Slack)
    BY DEF Balance
  <2> QED BY <1>2, <1>5, <2>1, <2>3, <2>4
<1>7. Forgotten'
  BY <1>1, <1>2, <1>5 DEF Forgotten, TypeOK
<1>8. AdmittedWithinBudget'
  BY <1>1, <1>2, <1>5 DEF AdmittedWithinBudget, Slack, TypeOK
<1> QED BY <1>3, <1>4, <1>6, <1>7, <1>8

LEMMA ReadClockInv == ASSUME RateInv, NEW r \in Requests, ReadClock(r) PROVE RateInv'
<1> USE Constants DEF RateInv
<1>1. UNCHANGED <<now, buckets, lastSwept, used, sweeps>>
  BY DEF ReadClock
<1>2. PICK c \in Clients :
        waiting' = [q \in DOMAIN waiting \cup {r} |->
                      IF q = r THEN [client |-> c, at |-> now] ELSE waiting[q]]
  BY DEF ReadClock
<1>3. DOMAIN waiting' = DOMAIN waiting \cup {r}
      /\ \A q \in DOMAIN waiting' :
           waiting'[q] \in [client : Clients, at : 0..now] /\ now - waiting'[q].at <= MaxDelay
  BY <1>2 DEF TypeOK, Clocks
<1>4. TypeOK'
  BY <1>1, <1>2, <1>3 DEF TypeOK
<1>5. Clocks' /\ Balance' /\ Forgotten' /\ AdmittedWithinBudget'
  BY <1>1, <1>3 DEF Clocks, Balance, Forgotten, AdmittedWithinBudget, Worth, Slack
<1> QED BY <1>4, <1>5

(* What a sweep at `at' adds to the slack. *)
NewSlack(at) == IF SweepDue(at) THEN Slack + 2 * Skew ELSE Slack

(* The bucket a request finds, before it pays: it has what it would have had       *)
(* without sweeps, or a little more.                                              *)
LEMMA KeepsSome ==
  ASSUME RateInv, NEW at \in Int, at <= now
  PROVE  /\ DOMAIN Kept(at) \subseteq DOMAIN buckets
         /\ \A c \in DOMAIN Kept(at) :
              /\ Kept(at)[c] = buckets[c]
              /\ SweepDue(at) => at - buckets[c].lastSeen <= Minute
         /\ NewSlack(at) \in Nat /\ NewSlack(at) >= Slack /\ Slack \in Nat /\ Slack >= Skew
         /\ \A c \in Clients \ DOMAIN Kept(at) : used[c] = 0 \/ used[c] + Skew <= NewSlack(at)
<1> USE Constants DEF RateInv
<1>1. Slack \in Nat /\ Slack >= Skew
  BY SlackIsNat
<1>2. NewSlack(at) \in Nat /\ NewSlack(at) >= Slack
  BY <1>1 DEF NewSlack
<1>3. /\ DOMAIN Kept(at) \subseteq DOMAIN buckets
      /\ \A c \in DOMAIN Kept(at) :
           /\ Kept(at)[c] = buckets[c]
           /\ SweepDue(at) => at - buckets[c].lastSeen <= Minute
      /\ \A c \in DOMAIN buckets \ DOMAIN Kept(at) :
           SweepDue(at) /\ ~(at - buckets[c].lastSeen <= Minute)
  BY DEF Kept, Restrict
<1>4. ASSUME NEW c \in Clients \ DOMAIN Kept(at)
      PROVE  used[c] = 0 \/ used[c] + Skew <= NewSlack(at)
  <2>1. used[c] \in Nat
    BY DEF TypeOK
  <2>2. CASE c \notin DOMAIN buckets
    BY <1>1, <1>2, <2>1, <2>2 DEF Forgotten
  <2>3. CASE c \in DOMAIN buckets
    <3>1. SweepDue(at) /\ ~(at - buckets[c].lastSeen <= Minute)
      BY <1>3, <2>3
    <3>2. buckets[c].tokens \in Int /\ buckets[c].lastSeen \in Int /\ buckets[c].tokens >= -Skew /\ now \in Int
      BY <2>3 DEF TypeOK, Bucket
    <3>3. PerMinute * (now - buckets[c].lastSeen) \in Int /\ PerMinute * (now - buckets[c].lastSeen) >= Burst
      BY <3>1, <3>2, Earnings
    <3>4. used[c] = 0 \/ used[c] + Worth(c) <= Burst + Slack
      BY <2>3 DEF Balance
    <3>5. NewSlack(at) = Slack + 2 * Skew
      BY <3>1 DEF NewSlack
    <3> QED BY <1>1, <2>1, <3>2, <3>3, <3>4, <3>5 DEF Worth
  <2> QED BY <2>2, <2>3
<1> QED BY <1>1, <1>2, <1>3, <1>4

LEMMA FoundBalance ==
  ASSUME RateInv, NEW c \in Clients, NEW at \in 0..now, now - at <= MaxDelay
  PROVE  LET worth == Tokens(c, at) + PerMinute * (now - at)
         IN  /\ Tokens(c, at) \in -Skew..Burst
             /\ PerMinute * (now - at) \in 0..Skew
             /\ worth >= 0 /\ used[c] + worth >= Burst
             /\ used[c] + worth <= Burst + NewSlack(at)
<1> USE Constants DEF RateInv
<1>1. now \in Int /\ at \in Int /\ at <= now /\ used[c] \in Nat
  BY DEF TypeOK
<1>2. PerMinute * (now - at) \in 0..Skew
  <2>1. PerMinute * (now - at) \in Int /\ PerMinute * (now - at) >= 0 /\ PerMinute * (now - at) <= Skew
    BY <1>1, Earnings
  <2> QED BY <2>1
<1>3. NewSlack(at) \in Nat /\ NewSlack(at) >= Slack /\ Slack \in Nat /\ Slack >= Skew
  BY <1>1, KeepsSome
<1>4. CASE c \in DOMAIN Kept(at)
  <2>1. c \in DOMAIN buckets /\ Kept(at)[c] = buckets[c]
    BY <1>1, <1>4, KeepsSome
  <2> DEFINE last == buckets[c].lastSeen
             earned == buckets[c].tokens + PerMinute * (at - last)
  <2>2. buckets[c].tokens \in Int /\ last \in Int /\ buckets[c].tokens >= -Skew
    BY <2>1 DEF TypeOK, Bucket
  <2>3. PerMinute * (at - last) \in Int
        /\ PerMinute * (now - last) = PerMinute * (now - at) + PerMinute * (at - last)
    BY <1>1, <2>2, Earnings
  <2>4. Worth(c) = earned + PerMinute * (now - at) /\ earned \in Int
    BY <1>2, <2>2, <2>3 DEF Worth
  <2>5. Worth(c) >= 0 /\ used[c] + Worth(c) >= Burst /\ (used[c] = 0 \/ used[c] + Worth(c) <= Burst + Slack)
    BY <2>1 DEF Balance
  <2>6. Tokens(c, at) = IF earned > Burst THEN Burst ELSE earned
    BY <1>4, <2>1 DEF Tokens, Earned
  <2> HIDE DEF earned
  <2> QED BY <1>1, <1>2, <1>3, <2>4, <2>5, <2>6
<1>5. CASE c \notin DOMAIN Kept(at)
  <2>1. used[c] = 0 \/ used[c] + Skew <= NewSlack(at)
    BY <1>1, <1>5, KeepsSome
  <2>2. PerMinute * (at - at) = 0
    BY <1>1
  <2>3. Tokens(c, at) = Burst
    BY <1>5, <2>2 DEF Tokens, Earned, NewBucket
  <2> QED BY <1>1, <1>2, <1>3, <2>1, <2>3
<1> QED BY <1>4, <1>5

LEMMA AllowInv ==
  ASSUME RateInv, NEW r \in Requests, Allow(r)
  PROVE  /\ RateInv'
         /\ used' = used => used[waiting[r].client] + Minute > Burst - Skew
         /\ \A c \in DOMAIN buckets' : waiting[r].at - buckets'[c].lastSeen < SweepInterval + Minute
<1> USE Constants DEF RateInv
<1>0. PICK c \in Clients, at \in 0..now : c = waiting[r].client /\ at = waiting[r].at
  BY DEF Allow, TypeOK
<1> DEFINE worth == Tokens(c, at) + PerMinute * (now - at)
<1>1. /\ r \in DOMAIN waiting /\ c \in Clients /\ at \in 0..now /\ now \in Int /\ at \in Int
      /\ now - at <= MaxDelay /\ used[c] \in Nat /\ lastSwept \in 0..now
  BY <1>0 DEF Allow, TypeOK, Clocks
<1>2. /\ buckets' = [k \in DOMAIN Kept(at) \cup {c} |->
                       IF k = c THEN [tokens |-> Spent(c, at), lastSeen |-> at] ELSE Kept(at)[k]]
      /\ lastSwept' = LastSwept(at)
      /\ sweeps' = IF SweepDue(at) THEN sweeps + 1 ELSE sweeps
      /\ used' = [used EXCEPT ![c] = IF Admits(c, at) THEN used[c] + Minute ELSE used[c]]
      /\ waiting' = Restrict(waiting, DOMAIN waiting \ {r}) /\ now' = now
  BY <1>0 DEF Allow
<1>3. /\ Tokens(c, at) \in -Skew..Burst /\ PerMinute * (now - at) \in 0..Skew
      /\ worth >= 0 /\ used[c] + worth >= Burst /\ used[c] + worth <= Burst + NewSlack(at)
  BY <1>1, FoundBalance
<1>4. /\ DOMAIN Kept(at) \subseteq DOMAIN buckets
      /\ \A k \in DOMAIN Kept(at) :
           Kept(at)[k] = buckets[k] /\ (SweepDue(at) => at - buckets[k].lastSeen <= Minute)
      /\ NewSlack(at) \in Nat /\ NewSlack(at) >= Slack /\ Slack \in Nat /\ Slack >= Skew
      /\ \A k \in Clients \ DOMAIN Kept(at) : used[k] = 0 \/ used[k] + Skew <= NewSlack(at)
  BY <1>1, KeepsSome
<1>5. Slack' = NewSlack(at)
  <2>1. ASSUME NEW k \in Nat, NEW n \in Nat PROVE k * (1 + 2 * (n + 1)) = k * (1 + 2 * n) + 2 * k
    OBVIOUS
  <2>2. sweeps \in Nat
    BY DEF TypeOK
  <2> QED BY <1>2, <2>1, <2>2 DEF Slack, NewSlack
<1>6. /\ DOMAIN buckets' = DOMAIN Kept(at) \cup {c}
      /\ buckets'[c] = [tokens |-> Spent(c, at), lastSeen |-> at]
      /\ \A k \in DOMAIN buckets' \ {c} : k \in DOMAIN buckets /\ k \in DOMAIN Kept(at) /\ buckets'[k] = buckets[k]
      /\ \A k \in Clients \ {c} : used'[k] = used[k]
      /\ used'[c] = IF Admits(c, at) THEN used[c] + Minute ELSE used[c]
  BY <1>1, <1>2, <1>4 DEF TypeOK
<1>7. /\ Spent(c, at) \in -Skew..Burst
      /\ Admits(c, at) => Spent(c, at) >= 0 /\ Spent(c, at) = Tokens(c, at) - Minute
      /\ ~Admits(c, at) => Spent(c, at) = Tokens(c, at)
  BY <1>3 DEF Spent, Admits
<1>8. TypeOK'
  <2>1. ASSUME NEW k \in DOMAIN buckets' PROVE buckets'[k] \in Bucket /\ k \in Clients
    BY <1>1, <1>6, <1>7 DEF TypeOK, Bucket
  <2>2. buckets' \in [DOMAIN buckets' -> Bucket]
    BY <1>2, <2>1
  <2>3. DOMAIN waiting' \subseteq Requests /\ waiting' \in [DOMAIN waiting' -> [client : Clients, at : 0..now]]
    BY <1>2 DEF TypeOK, Restrict
  <2>4. used' \in [Clients -> Nat]
    BY <1>1, <1>2 DEF TypeOK
  <2>5. lastSwept' \in 0..now /\ sweeps' \in Nat
    BY <1>1, <1>2 DEF TypeOK, LastSwept
  <2> QED BY <1>2, <2>1, <2>2, <2>3, <2>4, <2>5 DEF TypeOK
<1>9. Clocks'
  <2>1. \A q \in DOMAIN waiting' : now' - waiting'[q].at <= MaxDelay
    BY <1>2 DEF Clocks, Restrict
  <2>2. buckets'[c].lastSeen <= now' /\ lastSwept' - buckets'[c].lastSeen <= Minute
    BY <1>1, <1>2, <1>6 DEF LastSwept
  <2>3. ASSUME NEW k \in DOMAIN buckets' \ {c}
        PROVE  buckets'[k].lastSeen <= now' /\ lastSwept' - buckets'[k].lastSeen <= Minute
    <3>1. buckets'[k] = buckets[k] /\ k \in DOMAIN buckets /\ k \in DOMAIN Kept(at)
      BY <1>6
    <3>2. buckets[k].lastSeen <= now /\ lastSwept - buckets[k].lastSeen <= Minute
      BY <3>1 DEF Clocks
    <3> QED BY <1>2, <1>4, <3>1, <3>2 DEF LastSwept
  <2> QED BY <2>1, <2>2, <2>3 DEF Clocks
<1>10. Balance'
  <2>1. Worth(c)' = Spent(c, at) + PerMinute * (now - at)
    BY <1>2, <1>6 DEF Worth
  <2>2. Worth(c)' >= 0 /\ used'[c] + Worth(c)' >= Burst /\ used'[c] + Worth(c)' <= Burst + NewSlack(at)
    BY <1>1, <1>3, <1>4, <1>6, <1>7, <2>1
  <2>3. ASSUME NEW k \in DOMAIN buckets' \ {c}
        PROVE  /\ Worth(k)' >= 0 /\ used'[k] + Worth(k)' >= Burst
               /\ used'[k] = 0 \/ used'[k] + Worth(k)' <= Burst + NewSlack(at)
    <3>1. k \in Clients /\ k \in DOMAIN buckets /\ buckets'[k] = buckets[k] /\ used'[k] = used[k]
      BY <1>6 DEF TypeOK
    <3>2. Worth(k)' = Worth(k)
      BY <1>2, <3>1 DEF Worth
    <3>3. buckets[k].tokens \in Int /\ buckets[k].lastSeen \in Int /\ used[k] \in Nat
      BY <3>1 DEF TypeOK, Bucket
    <3>4. Worth(k) \in Int
      <4>1. PerMinute * (now - buckets[k].lastSeen) \in Int
        BY <1>1, <3>3, Earnings
      <4> QED BY <3>3, <4>1 DEF Worth
    <3> QED BY <1>4, <3>1, <3>2, <3>3, <3>4 DEF Balance
  <2> QED BY <1>5, <2>2, <2>3 DEF Balance
<1>11. Forgotten'
  BY <1>4, <1>5, <1>6 DEF Forgotten
<1>12. AdmittedWithinBudget'
  <2>1. used'[c] <= Burst + NewSlack(at)
    BY <1>1, <1>3, <1>4, <1>6, <1>7 DEF AdmittedWithinBudget, Slack
  <2>2. ASSUME NEW k \in Clients \ {c} PROVE used'[k] <= Burst + NewSlack(at)
    BY <1>4, <1>6 DEF AdmittedWithinBudget, Slack, TypeOK
  <2> QED BY <1>5, <2>1, <2>2 DEF AdmittedWithinBudget, Slack
<1>13. used' = used => used[c] + Minute > Burst - Skew
  BY <1>1, <1>3, <1>6, <1>7 DEF Admits
<1>14. ASSUME NEW k \in DOMAIN buckets' PROVE at - buckets'[k].lastSeen < SweepInterval + Minute
  <2>1. CASE k = c
    BY <1>1, <1>6, <2>1
  <2>2. CASE k # c
    <3>1. buckets'[k] = buckets[k] /\ k \in DOMAIN buckets /\ k \in DOMAIN Kept(at)
      BY <1>6, <2>2
    <3>2. buckets[k].lastSeen \in Int /\ lastSwept - buckets[k].lastSeen <= Minute
      BY <3>1 DEF Clocks, TypeOK, Bucket
    <3> QED BY <1>1, <1>4, <3>1, <3>2 DEF SweepDue
  <2> QED BY <2>1, <2>2
<1> QED BY <1>8, <1>9, <1>10, <1>11, <1>12, <1>13, <1>14, <1>0

LEMMA NextRateInv == RateInv /\ [Next]_vars => RateInv'
<1> SUFFICES ASSUME RateInv, [Next]_vars PROVE RateInv'
  OBVIOUS
<1>1. CASE Tick
  BY <1>1, TickInv
<1>2. ASSUME NEW r \in Requests, ReadClock(r) PROVE RateInv'
  BY <1>2, ReadClockInv
<1>3. ASSUME NEW r \in Requests, Allow(r) PROVE RateInv'
  BY <1>3, AllowInv
<1>4. CASE UNCHANGED vars
  BY <1>4 DEF vars, RateInv, TypeOK, Clocks, Balance, Forgotten, AdmittedWithinBudget, Worth, Slack
<1> QED BY <1>1, <1>2, <1>3, <1>4 DEF Next

(* The strengthening holds in every state. *)
THEOREM RateInvariance == Spec => []RateInv
BY InitRateInv, NextRateInv, PTL DEF Spec

(* Type correctness: with it, that no bucket ever holds more than a burst, nor is  *)
(* it overdrawn by more than the wait for the lock earns.                           *)
THEOREM RateTypeCorrect == Spec => []TypeOK
BY RateInvariance, PTL DEF RateInv

(* No client is ever admitted beyond its budget and the slack.                      *)
THEOREM BudgetsHold == Spec => []AdmittedWithinBudget
BY RateInvariance, PTL DEF RateInv

(* No client below its budget is refused.                                           *)
THEOREM HonestClientsPass == Spec => RefusedOnlyWhenSpent
<1>1. ASSUME RateInv, [Next]_vars
      PROVE  [\A r \in Requests :
                Allow(r) /\ used' = used => used[waiting[r].client] + Minute > Burst - Skew]_vars
  BY <1>1, AllowInv
<1> QED BY <1>1, RateInvariance, PTL DEF Spec, RefusedOnlyWhenSpent

(* The map holds only clients seen since a minute before the last sweep.            *)
THEOREM TheMapStaysSmall == Spec => BucketsDoNotPileUp
<1>1. ASSUME RateInv, [Next]_vars
      PROVE  [\A r \in Requests :
                Allow(r) => \A c \in DOMAIN buckets' :
                              waiting[r].at - buckets'[c].lastSeen < SweepInterval + Minute]_vars
  BY <1>1, AllowInv
<1> QED BY <1>1, RateInvariance, PTL DEF Spec, BucketsDoNotPileUp
=============================================================================
