-------------------------- MODULE SessionLifecycle --------------------------
(***************************************************************************)
(* What a verification session promises to everything that reads it: the    *)
(* table of session.go's legalTransitions, challenges satisfied one at a    *)
(* time and never taken back, restarts within their budget, and an end that *)
(* is final until the row is purged.                                        *)
(***************************************************************************)
EXTENDS Integers

CONSTANTS ChallengeCount, MaxChallengeRetries

VARIABLES state, current, retries

lifecycleVars == <<state, current, retries>>

Open == {"PENDING", "IN_PROGRESS"}
Ended == {"PASSED", "FAILED", "EXPIRED"}

LifecycleInit == state = "NONE" /\ current = 0 /\ retries = 0

Create ==
  /\ state = "NONE"
  /\ state' = "PENDING"
  /\ UNCHANGED <<current, retries>>

(* A frame is recorded; it satisfies the active challenge or it does not. *)
Attend ==
  /\ state \in Open
  /\ state' = "IN_PROGRESS"
  /\ current' \in {current, current + 1}
  /\ current' < ChallengeCount
  /\ UNCHANGED retries

Pass ==
  /\ state \in Open
  /\ current + 1 = ChallengeCount
  /\ current' = ChallengeCount
  /\ state' = "PASSED"
  /\ UNCHANGED retries

Restart ==
  /\ state \in Open
  /\ retries < MaxChallengeRetries
  /\ retries' = retries + 1
  /\ UNCHANGED <<state, current>>

End ==
  /\ state \in Open
  /\ state' \in {"FAILED", "EXPIRED"}
  /\ UNCHANGED <<current, retries>>

Purge ==
  /\ state \in Open \cup Ended
  /\ state' = "PURGED"
  /\ current' = 0
  /\ retries' = 0

LifecycleNext == Create \/ Attend \/ Pass \/ Restart \/ End \/ Purge

LifecycleSpec == LifecycleInit /\ [][LifecycleNext]_lifecycleVars
============================================================================
