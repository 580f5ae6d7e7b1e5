----------------------- MODULE LivenessServiceProofs -----------------------
(***************************************************************************)
(* Proofs about LivenessService, for every value of its constants: type     *)
(* correctness, the properties of the stored row that hold with any number  *)
(* of requests in flight, and those that hold when there is one at most.    *)
(***************************************************************************)
EXTENDS LivenessService, SequenceTheorems, TLAPS

(* A well-typed update of one field; updates of several are proved typed one  *)
(* field at a time.                                                           *)
LEMMA OneField ==
  ASSUME NEW s \in SessionRecord
  PROVE  /\ \A v \in States : [s EXCEPT !.state = v] \in SessionRecord
         /\ \A v \in 0..ChallengeCount : [s EXCEPT !.current = v] \in SessionRecord
         /\ \A v \in Nat : [s EXCEPT !.deadline = v] \in SessionRecord
         /\ \A v \in Nat : [s EXCEPT !.lastSeq = v] \in SessionRecord
         /\ \A v \in Seq(Pictures) : [s EXCEPT !.recentHashes = v] \in SessionRecord
         /\ \A v \in Nat : [s EXCEPT !.duplicateStreak = v] \in SessionRecord
         /\ \A v \in Faces \cup {NoFace} : [s EXCEPT !.reference = v] \in SessionRecord
         /\ \A v \in Progresses : [s EXCEPT !.progress = v] \in SessionRecord
         /\ \A v \in Nat : [s EXCEPT !.retries = v] \in SessionRecord
         /\ \A v \in Nat : [s EXCEPT !.version = v] \in SessionRecord
BY DEF SessionRecord

LEMMA MovedType ==
  ASSUME NEW s \in SessionRecord, NEW to \in States
  PROVE  [s EXCEPT !.state = to, !.version = s.version + 1] \in SessionRecord
<1>1. s.version + 1 \in Nat
  BY DEF SessionRecord
<1>2. [s EXCEPT !.state = to] \in SessionRecord
  BY OneField
<1>3. [[s EXCEPT !.state = to] EXCEPT !.version = s.version + 1] \in SessionRecord
  BY <1>1, <1>2, OneField
<1> QED BY <1>3

(* Every operation of the session takes a well-typed, sound session to        *)
(* another.                                                                   *)
LEMMA NewSessionSound ==
  ASSUME NEW now \in Nat, NEW challenges \in ChallengeSets
  PROVE  /\ NewSession(now, challenges) \in SessionRecord
         /\ Sound(NewSession(now, challenges))
<1> DEFINE s == NewSession(now, challenges)
<1>1. s \in SessionRecord
  BY ConfigAssumption DEF NewSession, SessionRecord, States, Progresses
<1>2. Sound(s)
  BY ConfigAssumption, GuardAssumption
  DEF NewSession, Sound, CompleteIffPassed, VersionCount, HasReference,
      WithinBudget, NotAStill, AllComplete
<1> QED BY <1>1, <1>2

LEMMA ExpireSound ==
  ASSUME NEW s \in SessionRecord, Sound(s), ~Terminal(s.state)
  PROVE  Expire(s) \in SessionRecord /\ Sound(Expire(s))
<1>1. s.state \in {"PENDING", "IN_PROGRESS"}
  BY DEF SessionRecord, States, Terminal
<1>2. Expire(s) = [s EXCEPT !.state = "EXPIRED", !.version = s.version + 1]
  BY <1>1 DEF Expire, Transition, LegalTransitions
<1>3. Expire(s) \in SessionRecord
  BY <1>2, MovedType DEF States
<1>4. Sound(Expire(s))
  BY <1>1, <1>2
  DEF SessionRecord, Sound, CompleteIffPassed, VersionCount, HasReference,
      WithinBudget, NotAStill, AllComplete
<1> QED BY <1>3, <1>4

LEMMA RetrySound ==
  ASSUME NEW s \in SessionRecord, Sound(s), NEW now \in Nat,
         ~SessionExpired(s, now), ChallengeExpired(s, now),
         s.retries < MaxChallengeRetries
  PROVE  RetryChallenge(s, now) \in SessionRecord /\ Sound(RetryChallenge(s, now))
<1> DEFINE t == RetryChallenge(s, now)
<1>1. t = [s EXCEPT !.retries = s.retries + 1, !.progress = "fresh",
                    !.deadline = now + ChallengeTimeout,
                    !.version = s.version + 1]
  BY DEF RetryChallenge, ChallengeExpired
<1>2. t \in SessionRecord
  <2> DEFINE s1 == [s EXCEPT !.retries = s.retries + 1]
             s2 == [s1 EXCEPT !.progress = "fresh"]
             s3 == [s2 EXCEPT !.deadline = now + ChallengeTimeout]
             s4 == [s3 EXCEPT !.version = s.version + 1]
  <2>1. s.retries + 1 \in Nat /\ s.version + 1 \in Nat /\ now + ChallengeTimeout \in Nat
    BY ConfigAssumption DEF SessionRecord
  <2>2. t = s4
    BY <1>1
  <2>3. s1 \in SessionRecord
    BY <2>1, OneField
  <2> HIDE DEF s1
  <2>4. s2 \in SessionRecord
    BY <2>3, OneField DEF Progresses
  <2> HIDE DEF s2
  <2>5. s3 \in SessionRecord
    BY <2>1, <2>4, OneField
  <2> HIDE DEF s3
  <2>6. s4 \in SessionRecord
    BY <2>1, <2>5, OneField
  <2> HIDE DEF s4
  <2> QED BY <2>2, <2>6
<1>3. /\ t.state = s.state /\ t.current = s.current /\ t.expiresAt = s.expiresAt
      /\ t.recentHashes = s.recentHashes /\ t.duplicateStreak = s.duplicateStreak
      /\ t.reference = s.reference /\ t.progress = "fresh"
      /\ t.retries = s.retries + 1 /\ t.version = s.version + 1
      /\ t.deadline = now + ChallengeTimeout
  BY <1>1 DEF SessionRecord
<1> HIDE DEF t
<1>4. CompleteIffPassed(t) /\ HasReference(t) /\ NotAStill(t)
  BY <1>3 DEF Sound, CompleteIffPassed, AllComplete, HasReference, NotAStill
<1>5. VersionCount(t)
  BY <1>3 DEF SessionRecord, States, Sound, VersionCount
<1>6. WithinBudget(t)
  BY <1>3, ConfigAssumption DEF SessionRecord, WithinBudget, SessionExpired
<1>7. Sound(t)
  BY <1>4, <1>5, <1>6 DEF Sound
<1> QED BY <1>2, <1>7 DEF t

LEMMA BeginSound ==
  ASSUME NEW s \in SessionRecord, Sound(s), ~Terminal(s.state)
  PROVE  /\ Begin(s) \in SessionRecord
         /\ Sound(Begin(s))
         /\ Begin(s).state = "IN_PROGRESS"
         /\ Begin(s).expiresAt = s.expiresAt
<1>1. s.state \in {"PENDING", "IN_PROGRESS"}
  BY DEF SessionRecord, States, Terminal
<1>2. CASE s.state = "IN_PROGRESS"
  BY <1>2 DEF Begin
<1>3. CASE s.state = "PENDING"
  <2>1. Begin(s) = [s EXCEPT !.state = "IN_PROGRESS", !.version = s.version + 1]
    BY <1>3 DEF Begin, Transition, LegalTransitions
  <2>2. Begin(s) \in SessionRecord
    BY <2>1, MovedType DEF States
  <2>3. Sound(Begin(s))
    BY <1>3, <2>1
    DEF SessionRecord, Sound, CompleteIffPassed, VersionCount, HasReference,
        WithinBudget, NotAStill, AllComplete
  <2> QED BY <2>1, <2>2, <2>3 DEF SessionRecord
<1> QED BY <1>1, <1>2, <1>3

LEMMA FailSound ==
  ASSUME NEW s \in SessionRecord, Sound(s), s.state = "IN_PROGRESS"
  PROVE  Fail(s) \in SessionRecord /\ Sound(Fail(s))
<1>1. Fail(s) = [s EXCEPT !.state = "FAILED", !.version = s.version + 1]
  BY DEF Fail, Transition, LegalTransitions
<1>2. Fail(s) \in SessionRecord
  BY <1>1, MovedType DEF States
<1>3. Sound(Fail(s))
  BY <1>1
  DEF SessionRecord, Sound, CompleteIffPassed, VersionCount, HasReference,
      WithinBudget, NotAStill, AllComplete
<1> QED BY <1>2, <1>3

(* The hash window keeps its type and its bound. *)
LEMMA RememberBounded ==
  ASSUME NEW hashes \in Seq(Pictures), NEW picture \in Pictures
  PROVE  /\ Remember(hashes, picture) \in Seq(Pictures)
         /\ Len(Remember(hashes, picture)) <= MaxRecentHashes
<1> DEFINE all == Append(hashes, picture)
<1>1. all \in Seq(Pictures)
  BY AppendProperties
<1> HIDE DEF all
<1>2. Len(all) \in Nat
  BY <1>1, LenProperties
<1>3. CASE Len(all) <= MaxRecentHashes
  BY <1>1, <1>3 DEF Remember, all
<1>4. CASE ~(Len(all) <= MaxRecentHashes)
  <2> DEFINE from == Len(all) - MaxRecentHashes + 1
             window == SubSeq(all, from, Len(all))
  <2>1. from \in 1..Len(all)
    BY <1>2, <1>4, GuardAssumption
  <2>2. \A i \in from..Len(all) : all[i] \in Pictures
    BY <1>1, <1>2, <2>1, ElementOfSeq
  <2>3. window \in Seq(Pictures) /\ Len(window) = Len(all) - from + 1
    BY <1>1, <1>2, <2>1, <2>2, SubSeqProperties
  <2>4. Len(window) = MaxRecentHashes
    BY <1>2, <2>3, GuardAssumption
  <2>5. Remember(hashes, picture) = window
    BY <1>4 DEF Remember, all
  <2> QED BY <2>3, <2>4, <2>5, GuardAssumption
<1> QED BY <1>3, <1>4

LEMMA RecordType ==
  ASSUME NEW s \in SessionRecord, NEW seq \in Nat, NEW picture \in Pictures,
         NEW embedding \in Faces \cup {NoFace}
  PROVE  LET t == Record(s, seq, picture, embedding)
         IN  /\ t \in SessionRecord
             /\ t.state = s.state /\ t.current = s.current /\ t.lastSeq = seq
             /\ t.expiresAt = s.expiresAt /\ t.deadline = s.deadline
             /\ t.progress = s.progress
             /\ t.retries = s.retries /\ t.version = s.version
             /\ t.reference = IF s.reference = NoFace THEN embedding ELSE s.reference
             /\ t.duplicateStreak =
                  IF IsDuplicate(s, picture) THEN s.duplicateStreak + 1 ELSE 0
             /\ Len(t.recentHashes) <= MaxRecentHashes
<1> DEFINE streak == IF IsDuplicate(s, picture) THEN s.duplicateStreak + 1 ELSE 0
           hashes == Remember(s.recentHashes, picture)
           face == IF s.reference = NoFace THEN embedding ELSE s.reference
           t == Record(s, seq, picture, embedding)
<1>1. t = [s EXCEPT !.lastSeq = seq, !.duplicateStreak = streak,
                    !.recentHashes = hashes, !.reference = face]
  BY DEF Record
<1>2. streak \in Nat /\ face \in Faces \cup {NoFace}
  BY DEF SessionRecord
<1>3. hashes \in Seq(Pictures) /\ Len(hashes) <= MaxRecentHashes
  BY RememberBounded DEF SessionRecord
<1> HIDE DEF streak, hashes, face
<1>4. t \in SessionRecord
  <2> DEFINE s1 == [s EXCEPT !.lastSeq = seq]
             s2 == [s1 EXCEPT !.duplicateStreak = streak]
             s3 == [s2 EXCEPT !.recentHashes = hashes]
             s4 == [s3 EXCEPT !.reference = face]
  <2>1. t = s4
    BY <1>1
  <2>2. s1 \in SessionRecord
    BY OneField
  <2> HIDE DEF s1
  <2>3. s2 \in SessionRecord
    BY <1>2, <2>2, OneField
  <2> HIDE DEF s2
  <2>4. s3 \in SessionRecord
    BY <1>3, <2>3, OneField
  <2> HIDE DEF s3
  <2>5. s4 \in SessionRecord
    BY <1>2, <2>4, OneField
  <2> HIDE DEF s4
  <2> QED BY <2>1, <2>5
<1>5. /\ t.state = s.state /\ t.current = s.current /\ t.lastSeq = seq
      /\ t.expiresAt = s.expiresAt /\ t.deadline = s.deadline
      /\ t.progress = s.progress
      /\ t.retries = s.retries /\ t.version = s.version
      /\ t.reference = face /\ t.duplicateStreak = streak
      /\ t.recentHashes = hashes
  BY <1>1 DEF SessionRecord
<1> QED BY <1>3, <1>4, <1>5 DEF streak, face

(* An unusable frame is recorded without an embedding. *)
LEMMA UnusableSound ==
  ASSUME NEW s \in SessionRecord, Sound(s), s.state = "IN_PROGRESS",
         NEW seq \in Nat, NEW picture \in Pictures
  PROVE  LET t == Record(s, seq, picture, NoFace)
         IN  t \in SessionRecord /\ Sound(t)
<1> DEFINE t == Record(s, seq, picture, NoFace)
<1>1. /\ t \in SessionRecord
      /\ t.state = s.state /\ t.current = s.current
      /\ t.expiresAt = s.expiresAt /\ t.deadline = s.deadline
      /\ t.progress = s.progress /\ t.retries = s.retries /\ t.version = s.version
      /\ t.reference = s.reference
      /\ Len(t.recentHashes) <= MaxRecentHashes
  BY RecordType
<1> HIDE DEF t
<1>2. CompleteIffPassed(t) /\ HasReference(t) /\ NotAStill(t)
  BY <1>1 DEF Sound, CompleteIffPassed, AllComplete, HasReference, NotAStill
<1>3. VersionCount(t) /\ WithinBudget(t)
  BY <1>1 DEF Sound, VersionCount, WithinBudget
<1> QED BY <1>1, <1>2, <1>3 DEF Sound, t

(* Advancing keeps everything but the challenge index, its progress and its   *)
(* deadline, and passes the session exactly when the last challenge is done.  *)
LEMMA AdvanceFields ==
  ASSUME NEW s \in SessionRecord, s.state = "IN_PROGRESS",
         s.current < ChallengeCount, NEW now \in Nat
  PROVE  LET t == Advance(s, now)
         IN  /\ t \in SessionRecord
             /\ t.current = s.current + 1 /\ t.progress = "fresh"
             /\ t.expiresAt = s.expiresAt /\ t.retries = s.retries
             /\ t.reference = s.reference /\ t.lastSeq = s.lastSeq
             /\ t.duplicateStreak = s.duplicateStreak
             /\ t.recentHashes = s.recentHashes
             /\ \/ /\ t.current = ChallengeCount /\ t.state = "PASSED"
                   /\ t.version = s.version + 1 /\ t.deadline = s.deadline
                \/ /\ t.current < ChallengeCount /\ t.state = "IN_PROGRESS"
                   /\ t.version = s.version /\ t.deadline = now + ChallengeTimeout
<1> DEFINE moved == [s EXCEPT !.current = s.current + 1]
           next == [moved EXCEPT !.progress = "fresh"]
<1>1. s.current + 1 \in 0..ChallengeCount /\ s.current \in Nat
  BY ConfigAssumption DEF SessionRecord
<1>2. moved \in SessionRecord
  BY <1>1, OneField
<1>3. next \in SessionRecord
  <2> HIDE DEF moved
  <2> QED BY <1>2, OneField DEF Progresses
<1>4. next = [s EXCEPT !.current = s.current + 1, !.progress = "fresh"]
  OBVIOUS
<1>5. /\ next.state = s.state /\ next.current = s.current + 1
      /\ next.progress = "fresh" /\ next.expiresAt = s.expiresAt
      /\ next.retries = s.retries /\ next.reference = s.reference
      /\ next.lastSeq = s.lastSeq
      /\ next.duplicateStreak = s.duplicateStreak
      /\ next.recentHashes = s.recentHashes
      /\ next.version = s.version /\ next.deadline = s.deadline
  BY <1>4 DEF SessionRecord
<1>6. Advance(s, now) = IF next.current >= ChallengeCount
                        THEN Transition(next, "PASSED")
                        ELSE [next EXCEPT !.deadline = now + ChallengeTimeout]
  BY <1>1, <1>4, ConfigAssumption DEF Advance, AllComplete, Terminal
<1> HIDE DEF next
<1>7. CASE next.current >= ChallengeCount
  <2>1. Advance(s, now) = [next EXCEPT !.state = "PASSED", !.version = next.version + 1]
    BY <1>5, <1>6, <1>7 DEF Transition, LegalTransitions
  <2>2. Advance(s, now) \in SessionRecord
    BY <1>3, <2>1, MovedType DEF States
  <2>3. next.current = ChallengeCount
    BY <1>1, <1>5, <1>7, ConfigAssumption
  <2> QED BY <1>3, <1>5, <2>1, <2>2, <2>3 DEF SessionRecord
<1>8. CASE ~(next.current >= ChallengeCount)
  <2>1. Advance(s, now) = [next EXCEPT !.deadline = now + ChallengeTimeout]
    BY <1>6, <1>8
  <2>2. Advance(s, now) \in SessionRecord
    BY <1>3, <2>1, OneField, ConfigAssumption
  <2>3. next.current < ChallengeCount
    BY <1>1, <1>5, <1>8, ConfigAssumption
  <2> QED BY <1>3, <1>5, <2>1, <2>2, <2>3 DEF SessionRecord
<1> QED BY <1>7, <1>8

(* A frame that cleared the guard is evaluated, recorded and, when it         *)
(* satisfies the challenge, advances the session.                             *)
LEMMA AcceptSound ==
  ASSUME NEW s \in SessionRecord, Sound(s), s.state = "IN_PROGRESS",
         NEW now \in Nat, ~SessionExpired(s, now),
         NEW seq \in Nat, NEW picture \in Pictures, NEW face \in Faces,
         NEW spoof \in BOOLEAN, ~FatalAnalysis(s, picture, face, spoof),
         NEW outcome \in Outcomes(s)
  PROVE  LET t == Accept(s, now, seq, picture, face, outcome)
         IN  t \in SessionRecord /\ Sound(t)
<1> DEFINE judged == [s EXCEPT !.progress = outcome.progress]
           seen == Record(judged, seq, picture, Embedding(s, face))
           t == Accept(s, now, seq, picture, face, outcome)
<1>1. outcome.progress \in Progresses /\ outcome.satisfied \in BOOLEAN
  BY DEF Outcomes, SessionRecord, Progresses
<1>2. judged \in SessionRecord
  BY <1>1, OneField
<1>3. /\ judged.state = "IN_PROGRESS" /\ judged.current = s.current
      /\ judged.expiresAt = s.expiresAt /\ judged.deadline = s.deadline
      /\ judged.retries = s.retries /\ judged.version = s.version
      /\ judged.reference = s.reference
      /\ judged.duplicateStreak = s.duplicateStreak
      /\ judged.recentHashes = s.recentHashes
  BY DEF SessionRecord
<1>4. Embedding(s, face) \in Faces \cup {NoFace}
  BY DEF Embedding
<1>5. IsDuplicate(judged, picture) <=> IsDuplicate(s, picture)
  BY <1>3 DEF IsDuplicate
<1>6. t = IF outcome.satisfied THEN Advance(seen, now) ELSE seen
  BY DEF Accept
<1> HIDE DEF judged
<1>7. /\ seen \in SessionRecord
      /\ seen.state = "IN_PROGRESS" /\ seen.current = s.current
      /\ seen.expiresAt = s.expiresAt /\ seen.deadline = s.deadline
      /\ seen.retries = s.retries /\ seen.version = s.version
      /\ seen.reference = IF s.reference = NoFace THEN Embedding(s, face) ELSE s.reference
      /\ seen.duplicateStreak = IF IsDuplicate(s, picture) THEN s.duplicateStreak + 1 ELSE 0
      /\ Len(seen.recentHashes) <= MaxRecentHashes
  <2>1. /\ seen \in SessionRecord
        /\ seen.state = judged.state /\ seen.current = judged.current
        /\ seen.expiresAt = judged.expiresAt /\ seen.deadline = judged.deadline
        /\ seen.retries = judged.retries /\ seen.version = judged.version
        /\ seen.reference =
             IF judged.reference = NoFace THEN Embedding(s, face) ELSE judged.reference
        /\ seen.duplicateStreak =
             IF IsDuplicate(judged, picture) THEN judged.duplicateStreak + 1 ELSE 0
        /\ Len(seen.recentHashes) <= MaxRecentHashes
    BY <1>2, <1>4, RecordType
  <2> HIDE DEF seen
  <2> QED BY <1>3, <1>5, <2>1
<1>8. seen.reference # NoFace
  BY <1>7, GuardAssumption DEF Embedding, IsKeyFrame
<1>9. seen.duplicateStreak < MaxDuplicateStreak
  BY <1>7, GuardAssumption DEF FatalAnalysis, StaticReplay, SessionRecord
<1>10. s.current < ChallengeCount /\ now <= s.expiresAt
  BY ConfigAssumption DEF Sound, CompleteIffPassed, AllComplete, SessionExpired, SessionRecord
<1>11. s.version - s.retries = 1
  BY DEF Sound, VersionCount
<1> HIDE DEF seen
<1>12. CASE ~outcome.satisfied
  <2>1. t = seen
    BY <1>6, <1>12
  <2>2. CompleteIffPassed(seen) /\ HasReference(seen) /\ NotAStill(seen)
    BY <1>7, <1>8, <1>10, ConfigAssumption
    DEF CompleteIffPassed, AllComplete, HasReference, NotAStill, SessionRecord
  <2>3. VersionCount(seen) /\ WithinBudget(seen)
    BY <1>7, <1>11 DEF Sound, VersionCount, WithinBudget
  <2> QED BY <1>7, <2>1, <2>2, <2>3 DEF Sound
<1>13. CASE outcome.satisfied
  <2>1. t = Advance(seen, now)
    BY <1>6, <1>13
  <2>2. /\ t \in SessionRecord
        /\ t.current = seen.current + 1 /\ t.progress = "fresh"
        /\ t.expiresAt = seen.expiresAt /\ t.retries = seen.retries
        /\ t.reference = seen.reference
        /\ t.duplicateStreak = seen.duplicateStreak
        /\ t.recentHashes = seen.recentHashes
        /\ \/ /\ t.current = ChallengeCount /\ t.state = "PASSED"
              /\ t.version = seen.version + 1 /\ t.deadline = seen.deadline
           \/ /\ t.current < ChallengeCount /\ t.state = "IN_PROGRESS"
              /\ t.version = seen.version /\ t.deadline = now + ChallengeTimeout
    BY <1>7, <1>10, <2>1, AdvanceFields
  <2> HIDE DEF t
  <2>3. t.reference # NoFace /\ t.duplicateStreak < MaxDuplicateStreak
        /\ Len(t.recentHashes) <= MaxRecentHashes
    BY <1>7, <1>8, <1>9, <2>2
  <2>4. HasReference(t) /\ NotAStill(t)
    BY <2>3 DEF HasReference, NotAStill
  <2>5. \/ /\ t.current = ChallengeCount /\ t.state = "PASSED"
           /\ t.version - t.retries = 2
        \/ /\ t.current < ChallengeCount /\ t.state = "IN_PROGRESS"
           /\ t.version - t.retries = 1
    <3>1. seen.version - seen.retries = 1 /\ seen.version \in Nat /\ seen.retries \in Nat
      BY <1>7, <1>11 DEF SessionRecord
    <3> QED BY <2>2, <3>1
  <2>6. CompleteIffPassed(t) /\ VersionCount(t)
    <3>1. t.current \in Nat
      BY <2>2 DEF SessionRecord
    <3>2. CompleteIffPassed(t)
      BY <2>5, <3>1, ConfigAssumption DEF CompleteIffPassed, AllComplete
    <3>3. VersionCount(t)
      BY <2>5 DEF VersionCount
    <3> QED BY <3>2, <3>3
  <2>7. s.retries <= MaxChallengeRetries /\ s.deadline <= s.expiresAt + ChallengeTimeout
        /\ s.expiresAt \in Nat
    BY DEF Sound, WithinBudget, SessionRecord
  <2>8. t.expiresAt = s.expiresAt /\ t.retries = s.retries
        /\ t.deadline \in {s.deadline, now + ChallengeTimeout}
    BY <1>7, <2>2
  <2>9. WithinBudget(t)
    BY <1>10, <2>7, <2>8, ConfigAssumption DEF WithinBudget
  <2> QED BY <2>2, <2>4, <2>6, <2>9 DEF Sound, t
<1> QED BY <1>1, <1>12, <1>13

----------------------------------------------------------------------------
(* The inductive invariant: every copy of the session, stored or held by a    *)
(* request however old, is well typed and sound.  The stored row alone is not *)
(* inductive, since an Update may store any copy still in flight.             *)
IInv == TypeOK /\ EveryCopyIsSound

LEMMA InitIInv == Init => IInv
<1> SUFFICES ASSUME Init PROVE IInv
  OBVIOUS
<1>1. TypeOK
  BY DEF Init, TypeOK, RequestRecord
<1>2. EveryCopyIsSound
  BY DEF Init, EveryCopyIsSound, Stored, Idle
<1> QED BY <1>1, <1>2 DEF IInv

(* A request that will write holds what the decision computed. *)
LEMMA ToSaveIInv ==
  ASSUME IInv, NEW r \in Requests, NEW s \in SessionRecord, Sound(s), ToSave(r, s)
  PROVE  IInv'
<1>1. TypeOK'
  <2>1. Saving(s) \in RequestRecord
    BY DEF Saving, RequestRecord
  <2>2. req' \in [Requests -> RequestRecord]
    BY <2>1 DEF IInv, TypeOK, ToSave
  <2> QED BY <2>2 DEF IInv, TypeOK, ToSave
<1>2. EveryCopyIsSound'
  <2>1. Stored(Sound)'
    BY DEF IInv, EveryCopyIsSound, Stored, ToSave
  <2>2. ASSUME NEW q \in Requests, req'[q].pc # "idle"
        PROVE  Sound(req'[q].session)
    <3>1. CASE q = r
      <4>1. req'[q] = Saving(s)
        BY <3>1 DEF IInv, TypeOK, ToSave
      <4> QED BY <4>1 DEF Saving
    <3>2. CASE q # r
      <4>1. req'[q] = req[q]
        BY <3>2 DEF IInv, TypeOK, ToSave
      <4> QED BY <2>2, <4>1 DEF IInv, EveryCopyIsSound
    <3> QED BY <3>1, <3>2
  <2> QED BY <2>1, <2>2 DEF EveryCopyIsSound
<1> QED BY <1>1, <1>2 DEF IInv

LEMMA ReplyIInv ==
  ASSUME IInv, NEW r \in Requests, Reply(r)
  PROVE  IInv'
<1>1. TypeOK'
  <2>1. req' \in [Requests -> RequestRecord]
    BY DEF IInv, TypeOK, Reply, RequestRecord
  <2> QED BY <2>1 DEF IInv, TypeOK, Reply
<1>2. EveryCopyIsSound'
  <2>1. Stored(Sound)'
    BY DEF IInv, EveryCopyIsSound, Stored, Reply
  <2>2. ASSUME NEW q \in Requests, req'[q].pc # "idle"
        PROVE  Sound(req'[q].session)
    <3>1. req'[q] = IF q = r THEN Idle ELSE req[q]
      BY DEF IInv, TypeOK, Reply
    <3>2. q # r /\ req'[q] = req[q]
      BY <2>2, <3>1 DEF Idle
    <3> QED BY <2>2, <3>2 DEF IInv, EveryCopyIsSound
  <2> QED BY <2>1, <2>2 DEF EveryCopyIsSound
<1> QED BY <1>1, <1>2 DEF IInv

(* What a deciding request holds. *)
LEMMA DecidingFacts ==
  ASSUME IInv, NEW r \in Requests, NEW op, Deciding(r, op)
  PROVE  req[r].session \in SessionRecord /\ Sound(req[r].session)
BY DEF IInv, TypeOK, EveryCopyIsSound, Deciding, RequestRecord, Idle

(* A frame that arrived in time is judged on the session Begin returned. *)
LEMMA FrameInTimeFacts ==
  ASSUME IInv, NEW r \in Requests, FrameInTime(r)
  PROVE  LET s == Begin(req[r].session)
         IN  /\ s \in SessionRecord /\ Sound(s)
             /\ s.state = "IN_PROGRESS"
             /\ clock \in Nat /\ ~SessionExpired(s, clock)
<1>1. req[r].session \in SessionRecord /\ Sound(req[r].session)
  BY DecidingFacts DEF FrameInTime
<1>2. ~Terminal(req[r].session.state) /\ ~SessionExpired(req[r].session, clock)
  BY DEF FrameInTime, Expired
<1>3. clock \in Nat
  BY DEF IInv, TypeOK
<1> QED BY <1>1, <1>2, <1>3, BeginSound DEF SessionExpired

(* One step per way SubmitFrame can decide. *)
LEMMA SubmitFrameIInv ==
  ASSUME IInv, NEW r \in Requests, SubmitFrame(r)
  PROVE  IInv'
<1> DEFINE s == req[r].session
           b == Begin(req[r].session)
<1>1. CASE FrameAfterTheEnd(r)
  BY <1>1, ReplyIInv DEF FrameAfterTheEnd
<1>2. CASE FrameExpires(r)
  <2>1. s \in SessionRecord /\ Sound(s) /\ ~Terminal(s.state) /\ ToSave(r, Expire(s))
    BY <1>2, DecidingFacts DEF FrameExpires
  <2>2. Expire(s) \in SessionRecord /\ Sound(Expire(s))
    BY <2>1, ExpireSound
  <2> QED BY <2>1, <2>2, ToSaveIInv
<1>3. CASE FrameRetries(r)
  <2>1. s \in SessionRecord /\ Sound(s) /\ clock \in Nat
    BY <1>3, DecidingFacts DEF FrameRetries, IInv, TypeOK
  <2>2. /\ ~SessionExpired(s, clock) /\ ChallengeExpired(s, clock)
        /\ s.retries < MaxChallengeRetries
        /\ ToSave(r, RetryChallenge(s, clock))
    BY <1>3 DEF FrameRetries
  <2>3. RetryChallenge(s, clock) \in SessionRecord /\ Sound(RetryChallenge(s, clock))
    BY <2>1, <2>2, RetrySound
  <2> QED BY <2>2, <2>3, ToSaveIInv
<1>4. ASSUME NEW seq \in Seqs, FrameReplayed(r, seq)
      PROVE  IInv'
  <2>1. b \in SessionRecord /\ Sound(b) /\ b.state = "IN_PROGRESS" /\ ToSave(r, Fail(b))
    BY <1>4, FrameInTimeFacts DEF FrameReplayed
  <2>2. Fail(b) \in SessionRecord /\ Sound(Fail(b))
    BY <2>1, FailSound
  <2> QED BY <2>1, <2>2, ToSaveIInv
<1>5. ASSUME NEW seq \in Seqs, NEW picture \in Pictures, FrameUnusable(r, seq, picture)
      PROVE  IInv'
  <2>1. /\ b \in SessionRecord /\ Sound(b) /\ b.state = "IN_PROGRESS"
        /\ seq \in Nat /\ ToSave(r, Record(b, seq, picture, NoFace))
    BY <1>5, FrameInTimeFacts, ServiceAssumption DEF FrameUnusable
  <2>2. /\ Record(b, seq, picture, NoFace) \in SessionRecord
        /\ Sound(Record(b, seq, picture, NoFace))
    BY <2>1, UnusableSound
  <2> QED BY <2>1, <2>2, ToSaveIInv
<1>6. ASSUME NEW seq \in Seqs, NEW picture \in Pictures, NEW face \in Faces,
             NEW spoof \in BOOLEAN, FrameFatal(r, seq, picture, face, spoof)
      PROVE  IInv'
  <2>1. b \in SessionRecord /\ Sound(b) /\ b.state = "IN_PROGRESS" /\ ToSave(r, Fail(b))
    BY <1>6, FrameInTimeFacts DEF FrameFatal
  <2>2. Fail(b) \in SessionRecord /\ Sound(Fail(b))
    BY <2>1, FailSound
  <2> QED BY <2>1, <2>2, ToSaveIInv
<1>7. ASSUME NEW seq \in Seqs, NEW picture \in Pictures, NEW face \in Faces,
             NEW spoof \in BOOLEAN, FrameAccepted(r, seq, picture, face, spoof)
      PROVE  IInv'
  <2>1. /\ b \in SessionRecord /\ Sound(b) /\ b.state = "IN_PROGRESS"
        /\ clock \in Nat /\ ~SessionExpired(b, clock) /\ seq \in Nat
        /\ ~FatalAnalysis(b, picture, face, spoof)
    BY <1>7, FrameInTimeFacts, ServiceAssumption DEF FrameAccepted
  <2>2. PICK outcome \in Outcomes(b) :
          ToSave(r, Accept(b, clock, seq, picture, face, outcome))
    BY <1>7 DEF FrameAccepted
  <2>3. /\ Accept(b, clock, seq, picture, face, outcome) \in SessionRecord
        /\ Sound(Accept(b, clock, seq, picture, face, outcome))
    BY <2>1, AcceptSound
  <2> QED BY <2>2, <2>3, ToSaveIInv
<1> QED BY <1>1, <1>2, <1>3, <1>4, <1>5, <1>6, <1>7 DEF SubmitFrame

(* Complete and the status read end a late session or change nothing; the     *)
(* branch of Complete that would advance is closed by CompleteIffPassed.      *)
LEMMA CompleteIInv ==
  ASSUME IInv, NEW r \in Requests, Complete(r)
  PROVE  IInv'
<1> DEFINE s == req[r].session
<1>1. s \in SessionRecord /\ Sound(s)
  BY DecidingFacts DEF Complete, CompleteExpires, CompleteAnswers
<1>2. CASE CompleteExpires(r)
  <2>1. Expire(s) \in SessionRecord /\ Sound(Expire(s)) /\ ToSave(r, Expire(s))
    BY <1>1, <1>2, ExpireSound DEF CompleteExpires
  <2> QED BY <2>1, ToSaveIInv
<1>3. CASE CompleteAnswers(r)
  <2>1. Terminal(s.state) \/ ~AllComplete(s)
    BY <1>1 DEF Sound, CompleteIffPassed, Terminal
  <2> QED BY <1>3, <2>1, ReplyIInv DEF CompleteAnswers
<1> QED BY <1>2, <1>3 DEF Complete

LEMMA StatusIInv ==
  ASSUME IInv, NEW r \in Requests, Status(r)
  PROVE  IInv'
<1> DEFINE s == req[r].session
<1>1. s \in SessionRecord /\ Sound(s)
  BY DecidingFacts DEF Status, StatusExpires, StatusAnswers
<1>2. CASE StatusExpires(r)
  <2>1. Expire(s) \in SessionRecord /\ Sound(Expire(s)) /\ ToSave(r, Expire(s))
    BY <1>1, <1>2, ExpireSound DEF StatusExpires
  <2> QED BY <2>1, ToSaveIInv
<1>3. CASE StatusAnswers(r)
  BY <1>3, ReplyIInv DEF StatusAnswers
<1> QED BY <1>2, <1>3 DEF Status

(* A request starts from the row as it stands. *)
LEMMA GetIInv ==
  ASSUME IInv, NEW r \in Requests, Get(r)
  PROVE  IInv'
<1>1. row \in SessionRecord /\ Sound(row)
  BY DEF Get, IInv, TypeOK, EveryCopyIsSound, Stored
<1>2. PICK op \in Ops : req' = [req EXCEPT ![r] = Reading(op, row)]
  BY DEF Get
<1>3. TypeOK'
  <2>1. Reading(op, row) \in RequestRecord
    BY <1>1 DEF Reading, RequestRecord
  <2>2. req' \in [Requests -> RequestRecord]
    BY <1>2, <2>1 DEF IInv, TypeOK
  <2> QED BY <2>2 DEF Get, IInv, TypeOK
<1>4. EveryCopyIsSound'
  <2>1. Stored(Sound)'
    BY DEF Get, IInv, EveryCopyIsSound, Stored
  <2>2. ASSUME NEW q \in Requests, req'[q].pc # "idle"
        PROVE  Sound(req'[q].session)
    <3>1. CASE q = r
      <4>1. req'[q] = Reading(op, row)
        BY <1>2, <3>1 DEF IInv, TypeOK
      <4> QED BY <1>1, <4>1 DEF Reading
    <3>2. CASE q # r
      <4>1. req'[q] = req[q]
        BY <1>2, <3>2 DEF IInv, TypeOK
      <4> QED BY <2>2, <4>1 DEF IInv, EveryCopyIsSound
    <3> QED BY <3>1, <3>2
  <2> QED BY <2>1, <2>2 DEF EveryCopyIsSound
<1> QED BY <1>3, <1>4 DEF IInv

(* An Update stores a copy that is sound whatever it overwrites. *)
LEMMA UpdateIInv ==
  ASSUME IInv, NEW r \in Requests, Update(r)
  PROVE  IInv'
<1>1. req[r].session \in SessionRecord /\ Sound(req[r].session)
  BY DEF Update, IInv, TypeOK, EveryCopyIsSound, RequestRecord, Idle
<1>2. TypeOK'
  <2>1. req' \in [Requests -> RequestRecord]
    BY DEF Update, IInv, TypeOK, RequestRecord
  <2> QED BY <1>1, <2>1 DEF Update, IInv, TypeOK
<1>3. EveryCopyIsSound'
  <2>1. Stored(Sound)'
    BY <1>1 DEF Update, Stored
  <2>2. ASSUME NEW q \in Requests, req'[q].pc # "idle"
        PROVE  Sound(req'[q].session)
    <3>1. req'[q] = IF q = r THEN Idle ELSE req[q]
      BY DEF Update, IInv, TypeOK
    <3>2. q # r /\ req'[q] = req[q]
      BY <2>2, <3>1 DEF Idle
    <3> QED BY <2>2, <3>2 DEF IInv, EveryCopyIsSound
  <2> QED BY <2>1, <2>2 DEF EveryCopyIsSound
<1> QED BY <1>2, <1>3 DEF IInv

LEMMA StepIInv == IInv /\ [Next]_vars => IInv'
<1> SUFFICES ASSUME IInv, [Next]_vars PROVE IInv'
  OBVIOUS
<1>1. CASE Tick
  BY <1>1 DEF Tick, IInv, TypeOK, EveryCopyIsSound, Stored
<1>2. CASE Start
  <2>1. PICK challenges \in ChallengeSets : row' = NewSession(clock, challenges)
    BY <1>2 DEF Start
  <2>2. row' \in SessionRecord /\ Sound(row')
    BY <2>1, NewSessionSound DEF IInv, TypeOK
  <2>3. TypeOK'
    BY <1>2, <2>2 DEF Start, IInv, TypeOK
  <2>4. EveryCopyIsSound'
    BY <1>2, <2>2 DEF Start, IInv, EveryCopyIsSound, Stored
  <2> QED BY <2>3, <2>4 DEF IInv
<1>3. ASSUME NEW before \in 0..clock, PurgeExpired(before)
      PROVE  IInv'
  BY <1>3 DEF PurgeExpired, IInv, TypeOK, EveryCopyIsSound, Stored
<1>4. ASSUME NEW r \in Requests, Get(r)
      PROVE  IInv'
  BY <1>4, GetIInv
<1>5. ASSUME NEW r \in Requests, Decide(r)
      PROVE  IInv'
  BY <1>5, SubmitFrameIInv, CompleteIInv, StatusIInv DEF Decide
<1>6. ASSUME NEW r \in Requests, Update(r)
      PROVE  IInv'
  BY <1>6, UpdateIInv
<1>7. ASSUME NEW r \in Requests, UpdateRefused(r) \/ Abandon(r)
      PROVE  IInv'
  BY <1>7, ReplyIInv DEF UpdateRefused, Abandon
<1>8. CASE UNCHANGED vars
  BY <1>8 DEF vars, IInv, TypeOK, EveryCopyIsSound, Stored
<1> QED BY <1>1, <1>2, <1>3, <1>4, <1>5, <1>6, <1>7, <1>8 DEF Next

(* The strengthening holds in every state. *)
THEOREM Invariance == Spec => []IInv
BY InitIInv, StepIInv, PTL DEF Spec

----------------------------------------------------------------------------
(* Every variable keeps its type: rows and copies in flight are session       *)
(* records within the database's constraints (current_index at most the       *)
(* number of challenges, counters never negative).                            *)
THEOREM TypeCorrect == Spec => []TypeOK
<1>1. IInv => TypeOK
  BY DEF IInv
<1> QED BY <1>1, Invariance, PTL

(* A stored session reads PASSED exactly when no challenge remains, whatever  *)
(* the interleaving of frames, verdicts, status reads and purges.             *)
THEOREM PassedMeansComplete == Spec => []PassedIffComplete
<1>1. IInv => PassedIffComplete
  BY DEF IInv, EveryCopyIsSound, Stored, Sound, PassedIffComplete
<1> QED BY <1>1, Invariance, PTL

(* The optimistic lock counts lifecycle transitions and restarts only.        *)
THEOREM VersionCounts == Spec => []VersionCountsTransitions
<1>1. IInv => VersionCountsTransitions
  BY DEF IInv, EveryCopyIsSound, Stored, Sound, VersionCountsTransitions
<1> QED BY <1>1, Invariance, PTL

(* No stored session has begun or satisfied a challenge without the face      *)
(* later key frames, and enrolment, are compared with.                        *)
THEOREM IdentityComesFirst == Spec => []IdentityBeforeProgress
<1>1. IInv => IdentityBeforeProgress
  BY DEF IInv, EveryCopyIsSound, Stored, Sound, IdentityBeforeProgress
<1> QED BY <1>1, Invariance, PTL

(* The restarts stay in their budget and no deadline outlives the session by  *)
(* more than one challenge.                                                   *)
THEOREM BudgetsBound == Spec => []BudgetsBoundTheSession
<1>1. IInv => BudgetsBoundTheSession
  BY DEF IInv, EveryCopyIsSound, Stored, Sound, BudgetsBoundTheSession
<1> QED BY <1>1, Invariance, PTL

(* A session that passed did not pass on a still image, and the hash window   *)
(* is bounded.                                                                *)
THEOREM NoPassOnAStill == Spec => []PassIsNotAStill
<1>1. IInv => PassIsNotAStill
  BY DEF IInv, EveryCopyIsSound, Stored, Sound, PassIsNotAStill
<1> QED BY <1>1, Invariance, PTL

(* Only Start and Update store a row. *)
LEMMA RowSteps ==
  ASSUME [Next]_vars
  PROVE  \/ row' = row /\ started' = started
         \/ Start
         \/ row' = NoSession /\ started' = started
         \/ \E r \in Requests : Update(r)
BY DEF Next, vars, Tick, PurgeExpired, Get, UpdateRefused, Abandon, Reply, ToSave,
       Decide, SubmitFrame, FrameAfterTheEnd, FrameExpires, FrameRetries, FrameReplayed,
       FrameUnusable, FrameFatal, FrameAccepted, Complete, CompleteExpires,
       CompleteAnswers, Status, StatusExpires, StatusAnswers

(* A row exists only once the session was started, so Start never replaces one. *)
CreatedOnce == row # NoSession => started

LEMMA CreatedOnceInvariant == Spec => []CreatedOnce
<1>1. Init => CreatedOnce
  BY DEF Init, CreatedOnce
<1>2. CreatedOnce /\ [Next]_vars => CreatedOnce'
  BY RowSteps DEF CreatedOnce, Start, Update, Overwrites
<1> QED BY <1>1, <1>2, PTL DEF Spec

(* The stored version never falls. *)
THEOREM VersionMonotone == Spec => VersionNeverFalls
<1>1. ASSUME IInv, CreatedOnce, [Next]_vars, row # NoSession, row' # NoSession
      PROVE  row'.version >= row.version
  <2>1. row \in SessionRecord /\ row.version >= row.version
    BY <1>1 DEF IInv, TypeOK, SessionRecord
  <2>2. CASE row' = row
    BY <2>1, <2>2
  <2>3. ASSUME NEW r \in Requests, Update(r)
        PROVE  row'.version >= row.version
    <3>1. req[r].session \in SessionRecord
      BY <1>1, <2>3 DEF Update, IInv, TypeOK, RequestRecord, Idle
    <3> QED BY <2>1, <2>3, <3>1 DEF Update, Overwrites, SessionRecord
  <2> QED BY <1>1, <2>2, <2>3, RowSteps DEF CreatedOnce, Start
<1>2. IInv /\ CreatedOnce /\ [Next]_vars
        => [row # NoSession /\ row' # NoSession => row'.version >= row.version]_vars
  BY <1>1
<1> QED BY <1>2, Invariance, CreatedOnceInvariant, PTL DEF Spec, VersionNeverFalls

----------------------------------------------------------------------------
(* One client, as web/static/app.js is: at most one request in flight.  Then    *)
(* the stored row is a SessionLifecycle, the sequence number never falls and    *)
(* the reference face never changes.  With two requests none of this holds (the *)
(* violation runs of README.md).                                                *)
SerialClient == \A q, r \in Requests : q = r

(* How one frame, verdict or status read may change the session it read. *)
Attends(s, t) ==
  /\ t.state = "IN_PROGRESS"
  /\ t.current \in {s.current, s.current + 1}
  /\ t.current < ChallengeCount
  /\ t.retries = s.retries

Passes(s, t) ==
  /\ t.state = "PASSED"
  /\ s.current + 1 = ChallengeCount
  /\ t.current = ChallengeCount
  /\ t.retries = s.retries

Restarts(s, t) ==
  /\ s.retries < MaxChallengeRetries
  /\ t.retries = s.retries + 1
  /\ t.state = s.state
  /\ t.current = s.current

Ends(s, t) ==
  /\ t.state \in {"FAILED", "EXPIRED"}
  /\ t.current = s.current
  /\ t.retries = s.retries

Moves(s, t) ==
  /\ s.state \in {"PENDING", "IN_PROGRESS"}
  /\ Attends(s, t) \/ Passes(s, t) \/ Restarts(s, t) \/ Ends(s, t)
  /\ t.lastSeq >= s.lastSeq
  /\ s.reference # NoFace => t.reference = s.reference

(* The request in flight holds the row as it stands, or a move from it. *)
FollowsTheRow(r) ==
  row # NoSession =>
    /\ req[r].pc = "read" => req[r].session = row
    /\ req[r].pc = "save" => Moves(row, req[r].session)

SerialInv ==
  \A r \in Requests : FollowsTheRow(r) /\ (req[r].pc # "idle" => started)

----------------------------------------------------------------------------
LEMMA BeginFields ==
  ASSUME NEW s \in SessionRecord, ~Terminal(s.state)
  PROVE  LET b == Begin(s)
         IN  /\ s.state \in {"PENDING", "IN_PROGRESS"}
             /\ b.state = "IN_PROGRESS" /\ b.current = s.current
             /\ b.retries = s.retries /\ b.lastSeq = s.lastSeq
             /\ b.reference = s.reference
<1>1. s.state \in {"PENDING", "IN_PROGRESS"}
  BY DEF SessionRecord, States, Terminal
<1>2. CASE s.state = "IN_PROGRESS"
  BY <1>2 DEF Begin
<1>3. CASE s.state = "PENDING"
  <2>1. Begin(s) = [s EXCEPT !.state = "IN_PROGRESS", !.version = s.version + 1]
    BY <1>3 DEF Begin, Transition, LegalTransitions
  <2> QED BY <1>1, <2>1 DEF SessionRecord
<1> QED BY <1>1, <1>2, <1>3

LEMMA ExpireMoves ==
  ASSUME NEW s \in SessionRecord, ~Terminal(s.state)
  PROVE  Moves(s, Expire(s))
<1>1. s.state \in {"PENDING", "IN_PROGRESS"} /\ s.lastSeq \in Nat
  BY DEF SessionRecord, States, Terminal
<1>2. Expire(s) = [s EXCEPT !.state = "EXPIRED", !.version = s.version + 1]
  BY <1>1 DEF Expire, Transition, LegalTransitions
<1>3. LET t == Expire(s)
      IN  /\ t.state = "EXPIRED" /\ t.current = s.current /\ t.retries = s.retries
          /\ t.lastSeq = s.lastSeq /\ t.reference = s.reference
  BY <1>2 DEF SessionRecord
<1> QED BY <1>1, <1>3 DEF Moves, Ends

LEMMA FailMoves ==
  ASSUME NEW s \in SessionRecord, ~Terminal(s.state)
  PROVE  Moves(s, Fail(Begin(s)))
<1> DEFINE b == Begin(s)
<1>1. /\ s.state \in {"PENDING", "IN_PROGRESS"}
      /\ b.state = "IN_PROGRESS" /\ b.current = s.current
      /\ b.retries = s.retries /\ b.lastSeq = s.lastSeq
      /\ b.reference = s.reference
  BY BeginFields
<1> HIDE DEF b
<1>2. Fail(b) = [b EXCEPT !.state = "FAILED", !.version = b.version + 1]
  BY <1>1 DEF Fail, Transition, LegalTransitions
<1>3. b \in SessionRecord
  <2>1. CASE s.state = "IN_PROGRESS"
    BY <2>1 DEF Begin, b
  <2>2. CASE s.state = "PENDING"
    <3>1. b = [s EXCEPT !.state = "IN_PROGRESS", !.version = s.version + 1]
      BY <2>2 DEF Begin, Transition, LegalTransitions, b
    <3> QED BY <3>1, MovedType DEF States
  <2> QED BY <1>1, <2>1, <2>2
<1>4. LET t == Fail(b)
      IN  /\ t.state = "FAILED" /\ t.current = s.current /\ t.retries = s.retries
          /\ t.lastSeq = s.lastSeq /\ t.reference = s.reference
  BY <1>1, <1>2, <1>3 DEF SessionRecord
<1>5. s.lastSeq \in Nat
  BY DEF SessionRecord
<1> QED BY <1>1, <1>4, <1>5 DEF Moves, Ends, b

LEMMA RetryMoves ==
  ASSUME NEW s \in SessionRecord, NEW now \in Nat, ChallengeExpired(s, now),
         s.retries < MaxChallengeRetries
  PROVE  Moves(s, RetryChallenge(s, now))
<1> DEFINE t == RetryChallenge(s, now)
<1>1. t = [s EXCEPT !.retries = s.retries + 1, !.progress = "fresh",
                    !.deadline = now + ChallengeTimeout,
                    !.version = s.version + 1]
  BY DEF RetryChallenge, ChallengeExpired
<1>2. /\ t.state = s.state /\ t.current = s.current /\ t.retries = s.retries + 1
      /\ t.lastSeq = s.lastSeq /\ t.reference = s.reference
  BY <1>1 DEF SessionRecord
<1>3. s.state \in {"PENDING", "IN_PROGRESS"} /\ s.lastSeq \in Nat
  BY DEF SessionRecord, States, Terminal, ChallengeExpired
<1> QED BY <1>2, <1>3 DEF Moves, Restarts

LEMMA UnusableMoves ==
  ASSUME NEW s \in SessionRecord, Sound(s), ~Terminal(s.state),
         NEW seq \in Nat, ~SequenceReplayed(Begin(s), seq), NEW picture \in Pictures
  PROVE  Moves(s, Record(Begin(s), seq, picture, NoFace))
<1> DEFINE b == Begin(s)
           t == Record(b, seq, picture, NoFace)
<1>1. b \in SessionRecord
  BY BeginSound
<1>2. /\ s.state \in {"PENDING", "IN_PROGRESS"}
      /\ b.state = "IN_PROGRESS" /\ b.current = s.current
      /\ b.retries = s.retries /\ b.lastSeq = s.lastSeq
      /\ b.reference = s.reference
  BY BeginFields
<1>3. seq >= s.lastSeq
  BY <1>2 DEF SequenceReplayed, SessionRecord
<1>4. s.current < ChallengeCount
  BY <1>2, ConfigAssumption
  DEF Sound, CompleteIffPassed, AllComplete, SessionRecord
<1> HIDE DEF b
<1>5. /\ t.state = b.state /\ t.current = b.current /\ t.lastSeq = seq
      /\ t.retries = b.retries /\ t.reference = b.reference
  BY <1>1, RecordType
<1> HIDE DEF t
<1>6. Moves(s, t)
  BY <1>2, <1>3, <1>4, <1>5 DEF Moves, Attends
<1> QED BY <1>6 DEF t, b

LEMMA AcceptMoves ==
  ASSUME NEW s \in SessionRecord, Sound(s), ~Terminal(s.state), NEW now \in Nat,
         NEW seq \in Nat, ~SequenceReplayed(Begin(s), seq), NEW picture \in Pictures,
         NEW face \in Faces, NEW outcome \in Outcomes(Begin(s))
  PROVE  Moves(s, Accept(Begin(s), now, seq, picture, face, outcome))
<1> DEFINE b == Begin(s)
           judged == [b EXCEPT !.progress = outcome.progress]
           seen == Record(judged, seq, picture, Embedding(b, face))
           t == Accept(b, now, seq, picture, face, outcome)
<1>1. b \in SessionRecord
  BY BeginSound
<1>2. /\ s.state \in {"PENDING", "IN_PROGRESS"}
      /\ b.state = "IN_PROGRESS" /\ b.current = s.current
      /\ b.retries = s.retries /\ b.lastSeq = s.lastSeq
      /\ b.reference = s.reference
  BY BeginFields
<1>3. seq >= s.lastSeq
  BY <1>2 DEF SequenceReplayed, SessionRecord
<1>4. s.current < ChallengeCount /\ s.current \in Nat
  BY <1>2, ConfigAssumption
  DEF Sound, CompleteIffPassed, AllComplete, SessionRecord
<1> HIDE DEF b
<1>5. outcome.progress \in Progresses /\ outcome.satisfied \in BOOLEAN
  BY <1>1 DEF Outcomes, SessionRecord, Progresses, b
<1>6. judged \in SessionRecord
  BY <1>1, <1>5, OneField
<1>7. /\ judged.state = b.state /\ judged.current = b.current
      /\ judged.retries = b.retries /\ judged.reference = b.reference
  BY <1>1 DEF SessionRecord
<1>8. Embedding(b, face) \in Faces \cup {NoFace}
  BY DEF Embedding
<1>9. t = IF outcome.satisfied THEN Advance(seen, now) ELSE seen
  BY DEF Accept
<1> HIDE DEF judged
<1>10. /\ seen \in SessionRecord
       /\ seen.state = "IN_PROGRESS" /\ seen.current = s.current
       /\ seen.retries = s.retries /\ seen.lastSeq = seq
       /\ s.reference # NoFace => seen.reference = s.reference
  BY <1>2, <1>6, <1>7, <1>8, RecordType
<1> HIDE DEF seen
<1>11. CASE ~outcome.satisfied
  <2>1. t = seen
    BY <1>9, <1>11
  <2> QED BY <1>2, <1>3, <1>4, <1>10, <2>1 DEF Moves, Attends, b
<1>12. CASE outcome.satisfied
  <2>1. t = Advance(seen, now)
    BY <1>9, <1>12
  <2>2. /\ t.current = s.current + 1 /\ t.retries = s.retries
        /\ t.lastSeq = seq /\ t.reference = seen.reference
        /\ \/ t.current = ChallengeCount /\ t.state = "PASSED"
           \/ t.current < ChallengeCount /\ t.state = "IN_PROGRESS"
    BY <1>4, <1>10, <2>1, AdvanceFields
  <2> HIDE DEF t
  <2>3. Attends(s, t) \/ Passes(s, t)
    BY <2>2 DEF Attends, Passes
  <2>4. Moves(s, t)
    BY <1>2, <1>3, <1>10, <2>2, <2>3 DEF Moves
  <2> QED BY <2>4 DEF t, b
<1> QED BY <1>5, <1>11, <1>12

----------------------------------------------------------------------------
(* The decision step: whatever it computes from the row is a move of the row. *)
LEMMA DecideMoves ==
  ASSUME IInv, SerialInv, SerialClient, NEW r \in Requests, Decide(r), row # NoSession
  PROVE  Reply(r) \/ \E t : Moves(row, t) /\ ToSave(r, t)
<1> DEFINE s == req[r].session
<1>1. ASSUME NEW op, Deciding(r, op)
      PROVE  s = row
  BY <1>1 DEF Deciding, SerialInv, FollowsTheRow
<1>2. row \in SessionRecord /\ Sound(row) /\ clock \in Nat
  BY DEF IInv, TypeOK, EveryCopyIsSound, Stored
<1>3. ASSUME FrameInTime(r)
      PROVE  s = row /\ ~Terminal(row.state)
  BY <1>1, <1>3 DEF FrameInTime
<1>4. CASE FrameAfterTheEnd(r) \/ StatusAnswers(r)
  BY <1>4 DEF FrameAfterTheEnd, StatusAnswers
<1>5. CASE FrameExpires(r) \/ CompleteExpires(r) \/ StatusExpires(r)
  <2>1. s = row /\ ~Terminal(row.state) /\ ToSave(r, Expire(row))
    BY <1>1, <1>5 DEF FrameExpires, CompleteExpires, StatusExpires
  <2> QED BY <1>2, <2>1, ExpireMoves
<1>6. CASE FrameRetries(r)
  <2>1. s = row
    BY <1>1, <1>6 DEF FrameRetries
  <2>2. ChallengeExpired(row, clock) /\ row.retries < MaxChallengeRetries
        /\ ToSave(r, RetryChallenge(row, clock))
    BY <1>6, <2>1 DEF FrameRetries
  <2> QED BY <1>2, <2>2, RetryMoves
<1>7. ASSUME NEW seq \in Seqs, FrameReplayed(r, seq)
      PROVE  \E t : Moves(row, t) /\ ToSave(r, t)
  <2>1. s = row /\ ~Terminal(row.state) /\ ToSave(r, Fail(Begin(row)))
    BY <1>3, <1>7 DEF FrameReplayed
  <2> QED BY <1>2, <2>1, FailMoves
<1>8. ASSUME NEW seq \in Seqs, NEW picture \in Pictures, FrameUnusable(r, seq, picture)
      PROVE  \E t : Moves(row, t) /\ ToSave(r, t)
  <2>1. /\ s = row /\ ~Terminal(row.state) /\ ~SequenceReplayed(Begin(row), seq)
        /\ ToSave(r, Record(Begin(row), seq, picture, NoFace)) /\ seq \in Nat
    BY <1>3, <1>8, ServiceAssumption DEF FrameUnusable
  <2> QED BY <1>2, <2>1, UnusableMoves
<1>9. ASSUME NEW seq \in Seqs, NEW picture \in Pictures, NEW face \in Faces,
             NEW spoof \in BOOLEAN, FrameFatal(r, seq, picture, face, spoof)
      PROVE  \E t : Moves(row, t) /\ ToSave(r, t)
  <2>1. s = row /\ ~Terminal(row.state) /\ ToSave(r, Fail(Begin(row)))
    BY <1>3, <1>9 DEF FrameFatal
  <2> QED BY <1>2, <2>1, FailMoves
<1>10. ASSUME NEW seq \in Seqs, NEW picture \in Pictures, NEW face \in Faces,
              NEW spoof \in BOOLEAN, FrameAccepted(r, seq, picture, face, spoof)
       PROVE  \E t : Moves(row, t) /\ ToSave(r, t)
  <2>1. /\ s = row /\ ~Terminal(row.state) /\ ~SequenceReplayed(Begin(row), seq)
        /\ seq \in Nat
    BY <1>3, <1>10, ServiceAssumption DEF FrameAccepted
  <2>2. PICK outcome \in Outcomes(Begin(row)) :
          ToSave(r, Accept(Begin(row), clock, seq, picture, face, outcome))
    BY <1>10, <2>1 DEF FrameAccepted
  <2>3. Moves(row, Accept(Begin(row), clock, seq, picture, face, outcome))
    BY <1>2, <2>1, AcceptMoves
  <2> QED BY <2>2, <2>3
<1>11. CASE CompleteAnswers(r)
  <2>1. Terminal(row.state) \/ ~AllComplete(row)
    BY <1>2 DEF Sound, CompleteIffPassed, Terminal
  <2>2. s = row
    BY <1>1, <1>11 DEF CompleteAnswers
  <2> QED BY <1>11, <2>1, <2>2 DEF CompleteAnswers
<1> QED
  BY <1>4, <1>5, <1>6, <1>7, <1>8, <1>9, <1>10, <1>11
  DEF Decide, SubmitFrame, Complete, Status

(* A decision leaves the row alone and ends with an answer or a pending save. *)
LEMMA DecideShape ==
  ASSUME NEW r \in Requests, Decide(r)
  PROVE  /\ req[r].pc = "read"
         /\ Reply(r) \/ \E t : ToSave(r, t)
BY DEF Decide, SubmitFrame, FrameAfterTheEnd, FrameExpires, FrameRetries, FrameInTime,
       FrameReplayed, FrameUnusable, FrameFatal, FrameAccepted, Complete,
       CompleteExpires, CompleteAnswers, Status, StatusExpires, StatusAnswers, Deciding

LEMMA SerialStep ==
  ASSUME SerialClient, IInv, CreatedOnce, SerialInv, [Next]_vars
  PROVE  SerialInv'
<1> SUFFICES ASSUME NEW r \in Requests
             PROVE  FollowsTheRow(r)' /\ (req'[r].pc # "idle" => started')
  BY DEF SerialInv
<1> USE DEF FollowsTheRow
<1>0. req \in [Requests -> RequestRecord]
  BY DEF IInv, TypeOK
<1>1. CASE Tick \/ UNCHANGED vars
  BY <1>1 DEF Tick, vars, SerialInv
<1>2. CASE Start
  BY <1>2 DEF Start, SerialInv
<1>3. ASSUME NEW before \in 0..clock, PurgeExpired(before)
      PROVE  FollowsTheRow(r)' /\ (req'[r].pc # "idle" => started')
  BY <1>3 DEF PurgeExpired, SerialInv
<1>4. ASSUME NEW q \in Requests, Get(q)
      PROVE  FollowsTheRow(r)' /\ (req'[r].pc # "idle" => started')
  <2>1. q = r
    BY DEF SerialClient
  <2>2. PICK op \in Ops : req' = [req EXCEPT ![r] = Reading(op, row)]
    BY <1>4, <2>1 DEF Get
  <2>3. req'[r] = Reading(op, row)
    BY <1>0, <2>2
  <2> QED BY <1>4, <2>3 DEF Get, Reading, CreatedOnce
<1>5. ASSUME NEW q \in Requests, Reply(q)
      PROVE  FollowsTheRow(r)' /\ (req'[r].pc # "idle" => started')
  <2>1. q = r
    BY DEF SerialClient
  <2>2. req'[r] = Idle
    BY <1>0, <1>5, <2>1 DEF Reply
  <2> QED BY <2>2 DEF Idle
<1>6. ASSUME NEW q \in Requests, Decide(q), ~Reply(q)
      PROVE  FollowsTheRow(r)' /\ (req'[r].pc # "idle" => started')
  <2>1. q = r
    BY DEF SerialClient
  <2>2. started
    BY <1>6, <2>1, DecideShape DEF SerialInv
  <2>3. CASE row = NoSession
    BY <1>6, <2>2, <2>3, DecideShape DEF ToSave
  <2>4. CASE row # NoSession
    <3>1. PICK t : Moves(row, t) /\ ToSave(r, t)
      BY <1>6, <2>1, <2>4, DecideMoves
    <3>2. req'[r] = Saving(t) /\ row' = row /\ started' = started
      BY <1>0, <3>1 DEF ToSave
    <3> QED BY <2>2, <3>1, <3>2 DEF Saving
  <2> QED BY <2>3, <2>4
<1>7. ASSUME NEW q \in Requests, Update(q)
      PROVE  FollowsTheRow(r)' /\ (req'[r].pc # "idle" => started')
  <2>1. q = r
    BY DEF SerialClient
  <2>2. req'[r] = Idle
    BY <1>0, <1>7, <2>1 DEF Update
  <2> QED BY <2>2 DEF Idle
<1> QED
  BY <1>1, <1>2, <1>3, <1>4, <1>5, <1>6, <1>7 DEF Next, UpdateRefused, Abandon

LEMMA SerialInvariant ==
  ASSUME SerialClient
  PROVE  Spec => []SerialInv
<1>1. Init => SerialInv
  BY DEF Init, SerialInv, FollowsTheRow, Idle
<1>2. IInv /\ CreatedOnce /\ SerialInv /\ [Next]_vars => SerialInv'
  BY SerialStep
<1> QED BY <1>1, <1>2, Invariance, CreatedOnceInvariant, PTL DEF Spec

----------------------------------------------------------------------------
(* Every write to the row is a move from the row it replaces. *)
LEMMA SerialUpdate ==
  ASSUME SerialInv, NEW r \in Requests, Update(r)
  PROVE  row # NoSession /\ Moves(row, row')
BY DEF Update, Overwrites, SerialInv, FollowsTheRow

(* A single-request client sees a session lifecycle: one legal state change   *)
(* per write, challenges satisfied one at a time and never taken back,        *)
(* restarts within the budget, and terminal states never left.                *)
THEOREM SerialImplementsLifecycle ==
  ASSUME SerialClient
  PROVE  Spec => ImplementsLifecycle
<1>1. Init => Lifecycle!LifecycleInit
  BY DEF Init, Lifecycle!LifecycleInit, LifecycleState
<1>2. ASSUME IInv, CreatedOnce, SerialInv, [Next]_vars
      PROVE  [Lifecycle!LifecycleNext]_(Lifecycle!lifecycleVars)
  <2>1. CASE row' = row /\ started' = started
    BY <2>1 DEF Lifecycle!lifecycleVars, LifecycleState
  <2>2. CASE Start
    <3>1. row = NoSession
      BY <1>2, <2>2 DEF CreatedOnce, Start
    <3>2. PICK challenges \in ChallengeSets : row' = NewSession(clock, challenges)
      BY <2>2 DEF Start
    <3>3. row' # NoSession
      BY <1>2, <3>2, NewSessionSound, ServiceAssumption DEF IInv, TypeOK
    <3> QED
      BY <2>2, <3>1, <3>2, <3>3
      DEF Lifecycle!LifecycleNext, Lifecycle!Create, LifecycleState, Start, NewSession
  <2>3. CASE row' = NoSession /\ started' = started /\ row # NoSession
    <3>1. started /\ row.state \in States
      BY <1>2, <2>3 DEF CreatedOnce, IInv, TypeOK, SessionRecord
    <3> QED
      BY <2>3, <3>1
      DEF Lifecycle!LifecycleNext, Lifecycle!Purge, Lifecycle!Open, Lifecycle!Ended,
          LifecycleState, States
  <2>4. ASSUME NEW r \in Requests, Update(r)
        PROVE  Lifecycle!LifecycleNext
    <3>1. row # NoSession /\ Moves(row, row')
      BY <1>2, <2>4, SerialUpdate
    <3>2. row' # NoSession
      BY <1>2, <2>4, ServiceAssumption DEF Update, IInv, TypeOK, RequestRecord, Idle
    <3> QED
      BY <2>4, <3>1, <3>2
      DEF Moves, Attends, Passes, Restarts, Ends, LifecycleState,
          Lifecycle!LifecycleNext, Lifecycle!Attend, Lifecycle!Pass,
          Lifecycle!Restart, Lifecycle!End, Lifecycle!Open
  <2> QED BY <1>2, <2>1, <2>2, <2>3, <2>4, RowSteps
<1> QED
  BY <1>1, <1>2, Invariance, CreatedOnceInvariant, SerialInvariant, PTL
  DEF Spec, ImplementsLifecycle, Lifecycle!LifecycleSpec

(* The highest accepted sequence number never falls, so no frame number is    *)
(* accepted twice.                                                            *)
THEOREM SerialSequenceMonotone ==
  ASSUME SerialClient
  PROVE  Spec => SequenceNeverFalls
<1>1. ASSUME IInv, CreatedOnce, SerialInv, [Next]_vars, row # NoSession, row' # NoSession
      PROVE  row'.lastSeq >= row.lastSeq
  <2>1. ASSUME row' = row
        PROVE  row'.lastSeq >= row.lastSeq
    BY <1>1, <2>1 DEF IInv, TypeOK, SessionRecord
  <2>2. ASSUME NEW r \in Requests, Update(r)
        PROVE  row'.lastSeq >= row.lastSeq
    <3>1. Moves(row, row')
      BY <1>1, <2>2, SerialUpdate
    <3> QED BY <3>1 DEF Moves
  <2> QED BY <1>1, <2>1, <2>2, RowSteps DEF CreatedOnce, Start
<1>2. IInv /\ CreatedOnce /\ SerialInv /\ [Next]_vars
        => [row # NoSession /\ row' # NoSession => row'.lastSeq >= row.lastSeq]_vars
  BY <1>1
<1> QED
  BY <1>2, Invariance, CreatedOnceInvariant, SerialInvariant, PTL
  DEF Spec, SequenceNeverFalls

(* The reference face, once set, is the one every later key frame is judged   *)
(* against.                                                                   *)
THEOREM SerialReferenceFixed ==
  ASSUME SerialClient
  PROVE  Spec => ReferenceIsFixed
<1>1. ASSUME CreatedOnce, SerialInv, [Next]_vars, row # NoSession, row' # NoSession,
             row.reference # NoFace
      PROVE  row'.reference = row.reference
  <2>1. ASSUME NEW r \in Requests, Update(r)
        PROVE  row'.reference = row.reference
    <3>1. Moves(row, row')
      BY <1>1, <2>1, SerialUpdate
    <3> QED BY <1>1, <3>1 DEF Moves
  <2> QED BY <1>1, <2>1, RowSteps DEF CreatedOnce, Start
<1>2. CreatedOnce /\ SerialInv /\ [Next]_vars
        => [row # NoSession /\ row' # NoSession /\ row.reference # NoFace
              => row'.reference = row.reference]_vars
  BY <1>1
<1> QED
  BY <1>2, CreatedOnceInvariant, SerialInvariant, PTL DEF Spec, ReferenceIsFixed
=============================================================================
