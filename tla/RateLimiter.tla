---------------------------- MODULE RateLimiter ----------------------------
(***************************************************************************)
(* internal/httpapi/ratelimit.go: one instance of the RateLimit middleware,  *)
(* which the router builds once for the session endpoints and once for the   *)
(* one that starts a session.                                                *)
(*                                                                           *)
(* Time is in ticks.  A token is cut into as many parts as a minute has ticks, *)
(* so that a tick earns PerMinute parts, a bucket holds Burst of them and a    *)
(* request costs Minute.  A request reads the clock, then waits for the lock.  *)
(***************************************************************************)
EXTENDS Integers, Functions

CONSTANTS
  Clients,        \* remote addresses
  Requests,       \* goroutines that may be in allow at once
  Configured,     \* the budget of the configuration, per minute
  Minute,         \* its ticks
  SweepInterval,  \* rateLimitSweepInterval
  MaxDelay,       \* the longest wait between the clock and the lock
  Horizon         \* bound: the clock stops here

PerMinute == IF Configured > 0 THEN Configured ELSE 600

Burst == PerMinute * Minute

(* How much MaxDelay ticks earn. *)
Skew == PerMinute * MaxDelay

ASSUME RateAssumption ==
  /\ Configured \in Int
  /\ Minute \in Nat \ {0} /\ SweepInterval \in Nat \ {0} /\ Horizon \in Nat
  /\ MaxDelay \in 0..Minute

VARIABLES
  now,
  buckets,   \* of the clients seen lately: [tokens, lastSeen]
  lastSwept,
  waiting,   \* the requests between the clock and the lock: [client, at]
  used,      \* what each client has had, less what it has earned since (a leaky bucket)
  sweeps     \* the sweeps there have been

vars == <<now, buckets, lastSwept, waiting, used, sweeps>>

Bucket == [tokens : -Skew..Burst, lastSeen : 0..Horizon]

TypeOK ==
  /\ now \in 0..Horizon
  /\ DOMAIN buckets \subseteq Clients /\ buckets \in [DOMAIN buckets -> Bucket]
  /\ lastSwept \in 0..now
  /\ DOMAIN waiting \subseteq Requests
  /\ waiting \in [DOMAIN waiting -> [client : Clients, at : 0..now]]
  /\ used \in [Clients -> Nat]
  /\ sweeps \in Nat

Init ==
  /\ now = 0 /\ lastSwept = 0 /\ sweeps = 0
  /\ buckets = [c \in {} |-> 0]
  /\ waiting = [r \in {} |-> 0]
  /\ used = [c \in Clients |-> 0]

----------------------------------------------------------------------------
(* No request waits longer than MaxDelay. *)
Tick ==
  /\ now < Horizon
  /\ \A r \in DOMAIN waiting : now - waiting[r].at < MaxDelay
  /\ now' = now + 1
  /\ used' = [c \in Clients |-> IF used[c] > PerMinute THEN used[c] - PerMinute ELSE 0]
  /\ UNCHANGED <<buckets, lastSwept, waiting, sweeps>>

ReadClock(r) ==
  /\ r \notin DOMAIN waiting
  /\ \E c \in Clients :
       waiting' = [q \in DOMAIN waiting \cup {r} |->
                     IF q = r THEN [client |-> c, at |-> now] ELSE waiting[q]]
  /\ UNCHANGED <<now, buckets, lastSwept, used, sweeps>>

SweepDue(at) == at - lastSwept >= SweepInterval

(* Seeded defect: every call, not every sweep, is taken for the last sweep. *)
LastSweptByCall(at) == at

LastSwept(at) == IF SweepDue(at) THEN at ELSE lastSwept

(* Seeded defect: a sweep forgets the buckets in use too. *)
KeptNone(at) == Restrict(buckets, {c \in DOMAIN buckets : ~SweepDue(at)})

(* An empty bucket is full again in a minute, which is also the least it is kept.   *)
Kept(at) ==
  IF SweepDue(at)
  THEN Restrict(buckets, {c \in DOMAIN buckets : at - buckets[c].lastSeen <= Minute})
  ELSE buckets

(* Seeded defect: a client starts with nothing. *)
EmptyBucket(at) == [tokens |-> 0, lastSeen |-> at]

NewBucket(at) == [tokens |-> Burst, lastSeen |-> at]

(* When the clock was read before the bucket was last seen, less than it had. *)
Earned(b, at) ==
  LET earned == b.tokens + PerMinute * (at - b.lastSeen)
  IN  IF earned > Burst THEN Burst ELSE earned

Tokens(c, at) == Earned(IF c \in DOMAIN Kept(at) THEN Kept(at)[c] ELSE NewBucket(at), at)

Admits(c, at) == Tokens(c, at) >= Minute

(* Seeded defect: a request that is refused pays too. *)
SpentAlways(c, at) == Tokens(c, at) - Minute

Spent(c, at) == IF Admits(c, at) THEN Tokens(c, at) - Minute ELSE Tokens(c, at)

Allow(r) ==
  /\ r \in DOMAIN waiting
  /\ LET c == waiting[r].client
         at == waiting[r].at
     IN  /\ buckets' = [k \in DOMAIN Kept(at) \cup {c} |->
                          IF k = c THEN [tokens |-> Spent(c, at), lastSeen |-> at] ELSE Kept(at)[k]]
         /\ lastSwept' = LastSwept(at)
         /\ sweeps' = IF SweepDue(at) THEN sweeps + 1 ELSE sweeps
         /\ used' = [used EXCEPT ![c] = IF Admits(c, at) THEN used[c] + Minute ELSE used[c]]
  /\ waiting' = Restrict(waiting, DOMAIN waiting \ {r})
  /\ UNCHANGED now

Next == Tick \/ \E r \in Requests : ReadClock(r) \/ Allow(r)

Spec == Init /\ [][Next]_vars

----------------------------------------------------------------------------
(* In no stretch of time is a client admitted more than a burst and what it earns  *)
(* in that time, whatever order the clock's readings are taken in and whichever     *)
(* buckets are swept: but for what the wait for the lock earns, once, and twice     *)
(* for every sweep, which may forget a bucket that is not quite full again.         *)
AdmittedWithinBudget ==
  \A c \in Clients : used[c] <= Burst + Skew * (1 + 2 * sweeps)

(* No client is refused that is a request below its budget, whatever the others do, *)
(* but for what the wait for the lock earns.                                        *)
RefusedOnlyWhenSpent ==
  [][\A r \in Requests :
       Allow(r) /\ used' = used => used[waiting[r].client] + Minute > Burst - Skew]_vars

(* However the requests come, each leaves only the buckets of clients seen in the     *)
(* last minute and a sweep interval: the map does not grow with all clients ever.   *)
BucketsDoNotPileUp ==
  [][\A r \in Requests :
       Allow(r) => \A c \in DOMAIN buckets' :
                     waiting[r].at - buckets'[c].lastSeen < SweepInterval + Minute]_vars
=============================================================================
