------------------------------ MODULE Session ------------------------------
(***************************************************************************)
(* The session aggregate of internal/liveness: the methods of session.go,   *)
(* the replay guard of antireplay.go and the interface of the challenge     *)
(* evaluator, as operators from a session record to a session record.       *)
(*                                                                          *)
(* Times are naturals (one tick is the resolution at which the deadlines    *)
(* are compared).  A face descriptor is a member of Faces, a perceptual     *)
(* hash a member of Pictures; "cosine >= IdentityCosineMin" and "Hamming    *)
(* distance < PHashMinDistance" are the relations SamePerson and Similar,   *)
(* neither of which is assumed transitive.                                  *)
(***************************************************************************)
EXTENDS Integers, Sequences, FiniteSets

CONSTANTS
  InstantKinds,        \* challenges judged on one frame alone (MOUTH_OPEN)
  MotionKinds,         \* challenges judged against earlier frames of the attempt
  ChallengeCount, TTL, ChallengeTimeout, MaxChallengeRetries, KeyFrameInterval,
  Pictures, Similar, MaxRecentHashes, MaxDuplicateStreak,
  Faces, SamePerson, NoFace, EnforceAntiSpoof

(* Config.validate and Guard.Validate, checked once when the service is built. *)
ASSUME ConfigAssumption ==
  /\ TTL \in Nat \ {0}
  /\ ChallengeTimeout \in Nat \ {0}
  /\ ChallengeCount \in Nat \ {0}
  /\ KeyFrameInterval \in Nat \ {0}
  /\ MaxChallengeRetries \in Nat

ASSUME GuardAssumption ==
  /\ MaxDuplicateStreak \in Nat \ {0}
  /\ MaxRecentHashes \in Nat \ {0}
  /\ Similar \subseteq Pictures \X Pictures
  /\ SamePerson \subseteq Faces \X Faces
  /\ NoFace \notin Faces
  /\ EnforceAntiSpoof \in BOOLEAN

Kinds == InstantKinds \cup MotionKinds

(* NewChallengeSet draws ChallengeCount distinct kinds in any order. *)
ChallengeSets ==
  {cs \in [1..ChallengeCount -> Kinds] :
     \A i, j \in 1..ChallengeCount : cs[i] = cs[j] => i = j}

States == {"PENDING", "IN_PROGRESS", "PASSED", "FAILED", "EXPIRED"}

Terminal(state) == state \in {"PASSED", "FAILED", "EXPIRED"}

LegalTransitions ==
  [PENDING     |-> {"IN_PROGRESS", "FAILED", "EXPIRED"},
   IN_PROGRESS |-> {"PASSED", "FAILED", "EXPIRED"},
   PASSED      |-> {},
   FAILED      |-> {},
   EXPIRED     |-> {}]

(* Progress of the active challenge: "begun" once an earlier frame of this    *)
(* attempt has left a baseline (turn, nod) or a completed closing (blink).    *)
Progresses == {"fresh", "begun"}

SessionRecord ==
  [state : States, challenges : ChallengeSets, current : 0..ChallengeCount,
   expiresAt : Nat, deadline : Nat, lastSeq : Nat,
   recentHashes : Seq(Pictures), duplicateStreak : Nat,
   reference : Faces \cup {NoFace}, progress : Progresses,
   retries : Nat, version : Nat]

NewSession(now, challenges) ==
  [state |-> "PENDING", challenges |-> challenges, current |-> 0,
   expiresAt |-> now + TTL, deadline |-> now + ChallengeTimeout, lastSeq |-> 0,
   recentHashes |-> << >>, duplicateStreak |-> 0,
   reference |-> NoFace, progress |-> "fresh",
   retries |-> 0, version |-> 0]

----------------------------------------------------------------------------
(* Session methods. *)

AllComplete(s) == s.current >= ChallengeCount

(* Seeded defect: a session nobody has submitted a frame to never expires. *)
ExpiredOnceBegun(s, now) == s.state # "PENDING" /\ now > s.expiresAt

(* time.After is strict: a session is still alive at its deadline. *)
SessionExpired(s, now) == now > s.expiresAt

ChallengeExpired(s, now) ==
  /\ ~Terminal(s.state)
  /\ ~AllComplete(s)
  /\ now > s.deadline

Expired(s, now) == SessionExpired(s, now) \/ ChallengeExpired(s, now)

(* The table refuses what it does not list; a refused transition changes nothing. *)
Transition(s, to) ==
  IF to \in LegalTransitions[s.state]
  THEN [s EXCEPT !.state = to, !.version = @ + 1]
  ELSE s

Begin(s) == IF s.state = "IN_PROGRESS" THEN s ELSE Transition(s, "IN_PROGRESS")

Fail(s) == Transition(s, "FAILED")

Expire(s) == Transition(s, "EXPIRED")

(* Seeded defects: a restart that leaves the version alone, one that sends the *)
(* subject back to the first challenge, and one that repeats the previous one. *)
RetryUnversioned(s, now) ==
  IF Terminal(s.state) \/ AllComplete(s) THEN s
  ELSE [s EXCEPT !.retries = @ + 1, !.progress = "fresh",
                 !.deadline = now + ChallengeTimeout]

RetryFromTheStart(s, now) ==
  IF Terminal(s.state) \/ AllComplete(s) THEN s
  ELSE [s EXCEPT !.retries = @ + 1, !.progress = "fresh", !.current = 0,
                 !.deadline = now + ChallengeTimeout, !.version = @ + 1]

RetryThePreviousOne(s, now) ==
  IF Terminal(s.state) \/ AllComplete(s) THEN s
  ELSE [s EXCEPT !.retries = @ + 1, !.progress = "fresh", !.current = @ - 1,
                 !.deadline = now + ChallengeTimeout, !.version = @ + 1]

RetryChallenge(s, now) ==
  IF Terminal(s.state) \/ AllComplete(s) THEN s
  ELSE [s EXCEPT !.retries = @ + 1, !.progress = "fresh",
                 !.deadline = now + ChallengeTimeout, !.version = @ + 1]

(* Seeded defect: passing is left to Complete. *)
AdvanceWithoutPassing(s, now) ==
  IF Terminal(s.state) \/ AllComplete(s) THEN s
  ELSE [s EXCEPT !.current = @ + 1, !.progress = "fresh",
                 !.deadline = now + ChallengeTimeout]

(* Moving on to the next challenge does not bump the version; passing does. *)
Advance(s, now) ==
  LET next == [s EXCEPT !.current = @ + 1, !.progress = "fresh"]
  IN  IF Terminal(s.state) \/ AllComplete(s) THEN s
      ELSE IF AllComplete(next) THEN Transition(next, "PASSED")
      ELSE [next EXCEPT !.deadline = now + ChallengeTimeout]

----------------------------------------------------------------------------
(* The guard. *)

(* Seeded defect: only the last number is remembered as used. *)
SameSequence(s, seq) == seq = s.lastSeq

SequenceReplayed(s, seq) == seq <= s.lastSeq

(* Seeded defect: the cadence alone, whether or not a reference is held. *)
IsKeyFrameByCadence(s) == s.lastSeq % KeyFrameInterval = 0

IsKeyFrame(s) == s.reference = NoFace \/ s.lastSeq % KeyFrameInterval = 0

(* Only a key frame is embedded. *)
Embedding(s, face) == IF IsKeyFrame(s) THEN face ELSE NoFace

IdentityChanged(s, embedding) ==
  /\ embedding # NoFace
  /\ s.reference # NoFace
  /\ <<s.reference, embedding>> \notin SamePerson

IsDuplicate(s, picture) ==
  \E i \in 1..Len(s.recentHashes) : <<s.recentHashes[i], picture>> \in Similar

(* Seeded defect: the streak may reach the limit. *)
StaticReplayLate(s, picture) ==
  IsDuplicate(s, picture) /\ s.duplicateStreak + 1 > MaxDuplicateStreak

StaticReplay(s, picture) ==
  IsDuplicate(s, picture) /\ s.duplicateStreak + 1 >= MaxDuplicateStreak

(* CheckAnalysis ends the session; a lone duplicate does not. *)
FatalAnalysis(s, picture, face, spoof) ==
  \/ spoof /\ EnforceAntiSpoof
  \/ IdentityChanged(s, Embedding(s, face))
  \/ StaticReplay(s, picture)

Remember(hashes, picture) ==
  LET all == Append(hashes, picture)
  IN  IF Len(all) <= MaxRecentHashes THEN all
      ELSE SubSeq(all, Len(all) - MaxRecentHashes + 1, Len(all))

(* Seeded defect: every key frame becomes the reference. *)
RecordLatestFace(s, seq, picture, embedding) ==
  [s EXCEPT !.lastSeq = seq,
            !.duplicateStreak = IF IsDuplicate(s, picture) THEN @ + 1 ELSE 0,
            !.recentHashes = Remember(@, picture),
            !.reference = IF embedding # NoFace THEN embedding ELSE @]

Record(s, seq, picture, embedding) ==
  [s EXCEPT !.lastSeq = seq,
            !.duplicateStreak = IF IsDuplicate(s, picture) THEN @ + 1 ELSE 0,
            !.recentHashes = Remember(@, picture),
            !.reference = IF @ = NoFace THEN embedding ELSE @]

----------------------------------------------------------------------------
(* What Evaluate can do with a frame.  A motion challenge needs an earlier    *)
(* frame of the same attempt (PeakEAR and SawClose, or the baseline pose), so  *)
(* its first frame never satisfies it; the geometry is in module Evaluator.    *)
NoChallenge == ""

ActiveChallenge(s) ==
  IF s.current < ChallengeCount THEN s.challenges[s.current + 1] ELSE NoChallenge

Outcomes(s) ==
  CASE ActiveChallenge(s) = NoChallenge ->
         [satisfied : {TRUE}, progress : {s.progress}]
    [] ActiveChallenge(s) \in InstantKinds ->
         [satisfied : BOOLEAN, progress : {s.progress}]
    [] OTHER ->
         [satisfied : IF s.progress = "begun" THEN BOOLEAN ELSE {FALSE},
          progress : IF s.progress = "begun" THEN {"begun"} ELSE Progresses]

(* Evaluate, Record and, when the challenge is satisfied, Advance. *)
Accept(s, now, seq, picture, face, outcome) ==
  LET seen == Record([s EXCEPT !.progress = outcome.progress],
                     seq, picture, Embedding(s, face))
  IN  IF outcome.satisfied THEN Advance(seen, now) ELSE seen
============================================================================
