-------------------------- MODULE EvaluatorProofs --------------------------
(***************************************************************************)
(* For any thresholds Validate accepts and any measurements: the evaluator's *)
(* memory stays well typed, a still face satisfies no motion challenge, and   *)
(* a challenge is credited by the frame that completes it and by no other.   *)
(***************************************************************************)
EXTENDS Evaluator, FiniteSetTheorems, TLAPS

(* What Progress remembers is the frames of the running attempt and no others: *)
(* the widest eye, the first pose, and a shut frame behind every SawClose.     *)
RemembersTheAttempt ==
  /\ kind = "BLINK" => \A i \in 1..Len(attempt) : attempt[i].ear <= progress.peakEAR
  /\ kind \in {"TURN_LEFT", "TURN_RIGHT", "NOD"} /\ attempt # << >> => progress.haveBaseline
  /\ progress.haveBaseline =>
       /\ attempt # << >>
       /\ progress.baselineYaw = attempt[1].yaw
       /\ progress.baselinePitch = attempt[1].pitch
  /\ progress.sawClose =>
       \E i \in 1..Len(attempt) : Shut(progress.peakEAR, attempt[i].ear)

Memory == TypeOK /\ RemembersTheAttempt

----------------------------------------------------------------------------
(* A wider eye keeps a shut frame shut, and an open one is wider than it.      *)
LEMMA WiderStaysShut ==
  ASSUME NEW r \in Nat, NEW p \in Nat, NEW q \in Nat, p <= q
  PROVE  p * r <= q * r
<1>1. PICK d \in Nat : q = p + d
  <2>1. q - p \in Nat /\ q = p + (q - p)
    OBVIOUS
  <2> QED BY <2>1
<1>2. q * r = p * r + d * r /\ d * r \in Nat /\ p * r \in Nat
  BY <1>1
<1> QED BY <1>2

LEMMA ProductIsNat ==
  ASSUME NEW a \in Nat, NEW b \in Nat
  PROVE  a * b \in Nat /\ a * b = b * a
OBVIOUS

LEMMA RatioBounds ==
  ASSUME EvaluatorAssumption, ratios \in Ratios
  PROVE  ratios[1] \in Nat /\ ratios[2] \in Nat /\ ratios[1] <= ratios[2]
<1>1. ratios[1] \in 1..99 /\ ratios[2] \in 1..100 /\ ratios[1] < ratios[2]
  BY DEF EvaluatorAssumption, RatiosAccepted
<1> QED BY <1>1

LEMMA NoProgressTyped == NoProgress \in ProgressRecord
BY DEF NoProgress, ProgressRecord

(* What Blink does, case by case. *)
LEMMA BlinkResult ==
  ASSUME EvaluatorAssumption, ratios \in Ratios,
         NEW p \in ProgressRecord, NEW face \in FaceRecord
  PROVE  LET b == Blink(p, face).progress IN
         /\ b \in ProgressRecord
         /\ b.peakEAR >= p.peakEAR /\ b.peakEAR >= face.ear
         /\ b.haveBaseline = p.haveBaseline
         /\ b.baselineYaw = p.baselineYaw
         /\ b.baselinePitch = p.baselinePitch
         /\ b.sawClose => p.sawClose \/ Shut(b.peakEAR, face.ear)
         /\ Blink(p, face).satisfied \in BOOLEAN
         /\ Blink(p, face).satisfied => p.sawClose /\ Open(b.peakEAR, face.ear)
<1> DEFINE peak == IF face.ear > p.peakEAR THEN face.ear ELSE p.peakEAR
           seen == [p EXCEPT !.peakEAR = peak]
           shut == [seen EXCEPT !.closedFrames = @ + 1,
                                !.sawClose = @ \/ p.closedFrames + 1 >= BlinkMinFrames]
           reset == [seen EXCEPT !.closedFrames = 0]
<1>1. /\ face.ear \in Nat /\ p.peakEAR \in Nat /\ peak \in Nat
      /\ peak >= p.peakEAR /\ peak >= face.ear
      /\ p.closedFrames \in Nat /\ p.sawClose \in BOOLEAN
  BY DEF FaceRecord, ProgressRecord
<1> HIDE DEF peak
<1>2. /\ seen \in ProgressRecord
      /\ seen.peakEAR = peak /\ seen.sawClose = p.sawClose
      /\ seen.closedFrames = p.closedFrames
      /\ seen.haveBaseline = p.haveBaseline
      /\ seen.baselineYaw = p.baselineYaw /\ seen.baselinePitch = p.baselinePitch
  BY <1>1 DEF ProgressRecord
<1>3. /\ reset \in ProgressRecord
      /\ reset.peakEAR = peak /\ reset.sawClose = p.sawClose
      /\ reset.haveBaseline = p.haveBaseline
      /\ reset.baselineYaw = p.baselineYaw /\ reset.baselinePitch = p.baselinePitch
  BY <1>2 DEF ProgressRecord
<1>4. /\ shut \in ProgressRecord
      /\ shut.peakEAR = peak
      /\ shut.haveBaseline = p.haveBaseline
      /\ shut.baselineYaw = p.baselineYaw /\ shut.baselinePitch = p.baselinePitch
  <2>1. (seen.sawClose \/ p.closedFrames + 1 >= BlinkMinFrames) \in BOOLEAN
    OBVIOUS
  <2>2. seen.closedFrames + 1 \in Nat
    BY <1>1, <1>2
  <2> QED BY <1>2, <2>1, <2>2 DEF ProgressRecord
<1> HIDE DEF seen, reset, shut
<1>5. Blink(p, face) =
        CASE peak <= 0 -> Result(seen, FALSE)
          [] peak > 0 /\ Shut(peak, face.ear) -> Result(shut, FALSE)
          [] peak > 0 /\ Open(peak, face.ear) ->
               IF p.sawClose THEN Result(seen, TRUE) ELSE Result(reset, FALSE)
          [] OTHER -> Result(seen, FALSE)
  BY DEF Blink, peak, seen, reset, shut
<1>6. \/ Blink(p, face) = Result(seen, FALSE)
      \/ Blink(p, face) = Result(reset, FALSE)
      \/ Blink(p, face) = Result(shut, FALSE) /\ Shut(peak, face.ear)
      \/ Blink(p, face) = Result(seen, TRUE) /\ p.sawClose /\ Open(peak, face.ear)
  <2>1. CASE peak <= 0
    <3>1. ~(peak > 0)
      BY <2>1, <1>1
    <3> QED BY <2>1, <3>1, <1>5
  <2>2. CASE peak > 0 /\ Shut(peak, face.ear)
    <3>1. ~(peak <= 0)
      BY <2>2, <1>1
    <3>2. ~Open(peak, face.ear)
      <4>1. ratios[1] \in Nat /\ ratios[2] \in Nat /\ ratios[1] <= ratios[2]
        BY RatioBounds
      <4>2. ratios[1] * peak <= ratios[2] * peak
        BY <4>1, <1>1, WiderStaysShut
      <4>3. 100 * face.ear < peak * ratios[1]
        BY <2>2 DEF Shut
      <4> QED BY <4>1, <4>2, <4>3, <1>1 DEF Open
    <3> QED BY <2>2, <3>1, <3>2, <1>5
  <2>3. CASE peak > 0 /\ ~Shut(peak, face.ear) /\ Open(peak, face.ear)
    <3>1. ~(peak <= 0)
      BY <2>3, <1>1
    <3> QED BY <2>3, <3>1, <1>5
  <2>4. CASE peak > 0 /\ ~Shut(peak, face.ear) /\ ~Open(peak, face.ear)
    <3>1. ~(peak <= 0)
      BY <2>4, <1>1
    <3> QED BY <2>4, <3>1, <1>5
  <2>5. peak <= 0 \/ peak > 0
    BY <1>1
  <2> QED BY <2>1, <2>2, <2>3, <2>4, <2>5, Zenon
<1>7. CASE Blink(p, face) = Result(seen, FALSE)
  BY <1>1, <1>2, <1>7 DEF Result
<1>8. CASE Blink(p, face) = Result(reset, FALSE)
  BY <1>1, <1>3, <1>8 DEF Result
<1>9. CASE Blink(p, face) = Result(shut, FALSE) /\ Shut(peak, face.ear)
  <2>1. Blink(p, face).progress = shut /\ Blink(p, face).satisfied = FALSE
    BY <1>9 DEF Result
  <2>2. Shut(shut.peakEAR, face.ear)
    BY <1>4, <1>9
  <2> QED BY <1>1, <1>4, <2>1, <2>2
<1>10. CASE Blink(p, face) = Result(seen, TRUE) /\ p.sawClose /\ Open(peak, face.ear)
  <2>1. Blink(p, face).progress = seen /\ Blink(p, face).satisfied = TRUE
    BY <1>10 DEF Result
  <2>2. Open(seen.peakEAR, face.ear)
    BY <1>2, <1>10
  <2> QED BY <1>1, <1>2, <1>10, <2>1, <2>2
<1> QED BY <1>6, <1>7, <1>8, <1>9, <1>10, Zenon

LEMMA BaselineResult ==
  ASSUME NEW p \in ProgressRecord, NEW face \in FaceRecord
  PROVE  LET b == WithBaseline(p, face) IN
         /\ b \in ProgressRecord
         /\ b.haveBaseline
         /\ b.peakEAR = p.peakEAR /\ b.sawClose = p.sawClose
         /\ IF p.haveBaseline
            THEN b.baselineYaw = p.baselineYaw /\ b.baselinePitch = p.baselinePitch
            ELSE b.baselineYaw = face.yaw /\ b.baselinePitch = face.pitch
<1>1. CASE p.haveBaseline
  BY <1>1 DEF WithBaseline
<1>2. CASE ~p.haveBaseline
  BY <1>2 DEF WithBaseline, ProgressRecord, FaceRecord
<1> QED BY <1>1, <1>2

(* What any challenge takes from a frame, and what it asks before it is         *)
(* satisfied.                                                                   *)
LEMMA EvaluateResult ==
  ASSUME EvaluatorAssumption, ratios \in Ratios,
         NEW k \in ChallengeKinds, NEW p \in ProgressRecord, NEW face \in FaceRecord
  PROVE  LET b == Evaluate(k, p, face).progress
             yes == Evaluate(k, p, face).satisfied IN
         /\ b \in ProgressRecord
         /\ b.peakEAR >= p.peakEAR
         /\ k = "BLINK" => b.peakEAR >= face.ear
         /\ b.sawClose => p.sawClose \/ Shut(b.peakEAR, face.ear)
         /\ b.haveBaseline =>
              IF p.haveBaseline
              THEN b.baselineYaw = p.baselineYaw /\ b.baselinePitch = p.baselinePitch
              ELSE b.baselineYaw = face.yaw /\ b.baselinePitch = face.pitch
         /\ k \in {"TURN_LEFT", "TURN_RIGHT", "NOD"} => b.haveBaseline
         /\ k = "BLINK" /\ yes => p.sawClose /\ Open(b.peakEAR, face.ear)
         /\ k \in {"TURN_LEFT", "TURN_RIGHT", "NOD"} /\ yes =>
              /\ p.haveBaseline
              /\ <<face.yaw, face.pitch>> # <<p.baselineYaw, p.baselinePitch>>
<1> DEFINE base == WithBaseline(p, face)
<1>0. /\ p.peakEAR \in Nat /\ p.haveBaseline \in BOOLEAN /\ p.sawClose \in BOOLEAN
      /\ p.baselineYaw \in Int /\ p.baselinePitch \in Int
      /\ face.yaw \in Int /\ face.pitch \in Int /\ face.ear \in Nat
      /\ YawTurnDeg \in Nat \ {0} /\ PitchNodDeg \in Nat \ {0}
  BY DEF ProgressRecord, FaceRecord, EvaluatorAssumption
<1>1. CASE k = "BLINK"
  <2>1. Evaluate(k, p, face) = Blink(p, face)
    BY <1>1 DEF Evaluate
  <2>2. Blink(p, face).progress.peakEAR \in Nat
    BY BlinkResult DEF ProgressRecord
  <2>3. p.haveBaseline = Blink(p, face).progress.haveBaseline
    BY BlinkResult
  <2>4. ~p.haveBaseline => ~Blink(p, face).progress.haveBaseline
    BY <2>3
  <2> QED BY <1>1, <2>1, <2>4, BlinkResult
<1>2. ASSUME NEW d \in {-1, 1}, Evaluate(k, p, face) = Turn(p, face, d), k # "BLINK"
      PROVE  /\ Evaluate(k, p, face).progress = base
             /\ Evaluate(k, p, face).satisfied =>
                  p.haveBaseline /\ face.yaw # p.baselineYaw
  <2>1. /\ Evaluate(k, p, face).progress = base
        /\ Evaluate(k, p, face).satisfied =
             ((face.yaw - base.baselineYaw) * d >= YawTurnDeg)
    BY <1>2 DEF Turn, Result
  <2>2. base.baselineYaw = face.yaw => ~((face.yaw - base.baselineYaw) * d >= YawTurnDeg)
    BY <1>0
  <2> QED BY <2>1, <2>2, BaselineResult
<1>3. CASE k = "NOD"
  <2>1. /\ Evaluate(k, p, face).progress = base
        /\ Evaluate(k, p, face).satisfied =
             (Abs(face.pitch - base.baselinePitch) >= PitchNodDeg)
    BY <1>3 DEF Evaluate, Nod, Result
  <2>2. base.baselinePitch = face.pitch =>
          ~(Abs(face.pitch - base.baselinePitch) >= PitchNodDeg)
    BY <1>0 DEF Abs
  <2>3. Evaluate(k, p, face).satisfied => p.haveBaseline /\ face.pitch # p.baselinePitch
    BY <2>1, <2>2, BaselineResult
  <2> QED BY <1>0, <1>3, <2>1, <2>3, BaselineResult
<1>4. CASE k = "MOUTH_OPEN"
  <2>1. Evaluate(k, p, face).progress = p
    BY <1>4 DEF Evaluate, MouthOpen, Result
  <2> QED BY <1>0, <1>4, <2>1
<1>5. CASE k = "TURN_LEFT"
  <2>1. Evaluate(k, p, face) = Turn(p, face, -1)
    BY <1>5 DEF Evaluate
  <2> QED BY <1>0, <1>2, <1>5, <2>1, BaselineResult
<1>6. CASE k = "TURN_RIGHT"
  <2>1. Evaluate(k, p, face) = Turn(p, face, 1)
    BY <1>6 DEF Evaluate
  <2> QED BY <1>0, <1>2, <1>6, <2>1, BaselineResult
<1> QED BY <1>1, <1>3, <1>4, <1>5, <1>6 DEF ChallengeKinds

----------------------------------------------------------------------------
LEMMA InitMemory == EvaluatorAssumption /\ Init => Memory
<1> SUFFICES ASSUME EvaluatorAssumption, Init PROVE Memory
  OBVIOUS
<1>1. TypeOK
  BY NoProgressTyped DEF Init, TypeOK, EvaluatorAssumption
<1>2. RemembersTheAttempt
  BY DEF Init, RemembersTheAttempt, NoProgress
<1> QED BY <1>1, <1>2 DEF Memory

LEMMA JudgeRemembers ==
  ASSUME EvaluatorAssumption, Memory, NEW face \in Faces, Judge(face)
  PROVE  Memory'
<1> DEFINE b == Evaluate(kind, progress, face).progress
<1>1. /\ ratios \in Ratios /\ kind \in ChallengeKinds /\ progress \in ProgressRecord
      /\ attempt \in Seq(Faces) /\ Len(attempt) < MaxFrames /\ MaxFrames \in Nat
      /\ face \in FaceRecord /\ Faces \subseteq FaceRecord
      /\ progress.peakEAR \in Nat
  BY DEF Memory, TypeOK, Judge, EvaluatorAssumption, ProgressRecord
<1>2. /\ progress' = b /\ attempt' = Append(attempt, face)
      /\ ratios' = ratios /\ kind' = kind
  BY DEF Judge
<1> HIDE DEF b
<1>3. /\ b \in ProgressRecord /\ b.peakEAR \in Nat
      /\ b.peakEAR >= progress.peakEAR
      /\ kind = "BLINK" => b.peakEAR >= face.ear
      /\ b.sawClose => progress.sawClose \/ Shut(b.peakEAR, face.ear)
      /\ b.haveBaseline =>
           IF progress.haveBaseline
           THEN b.baselineYaw = progress.baselineYaw /\ b.baselinePitch = progress.baselinePitch
           ELSE b.baselineYaw = face.yaw /\ b.baselinePitch = face.pitch
  <2>1. b \in ProgressRecord
    BY <1>1, EvaluateResult DEF b
  <2>2. b.peakEAR \in Nat
    BY <2>1 DEF ProgressRecord
  <2> QED BY <1>1, <2>1, <2>2, EvaluateResult DEF b
<1>4. /\ Len(attempt') = Len(attempt) + 1
      /\ attempt'[Len(attempt) + 1] = face
      /\ \A i \in 1..Len(attempt) : attempt'[i] = attempt[i]
      /\ attempt' \in Seq(Faces)
      /\ Len(attempt) \in Nat
  BY <1>1, <1>2
<1>5. TypeOK'
  BY <1>1, <1>2, <1>3, <1>4 DEF TypeOK
<1>6. kind' = "BLINK" => \A i \in 1..Len(attempt') : attempt'[i].ear <= progress'.peakEAR
  <2> SUFFICES ASSUME kind = "BLINK", NEW i \in 1..Len(attempt')
               PROVE  attempt'[i].ear <= b.peakEAR
    BY <1>2
  <2>1. CASE i = Len(attempt) + 1
    BY <1>1, <1>3, <1>4, <2>1 DEF FaceRecord
  <2>2. CASE i \in 1..Len(attempt)
    <3>1. attempt[i].ear <= progress.peakEAR
      BY <2>2 DEF Memory, RemembersTheAttempt
    <3>2. attempt[i] \in FaceRecord
      BY <1>1, <2>2
    <3>3. attempt[i].ear \in Nat
      BY <3>2 DEF FaceRecord
    <3> QED BY <1>1, <1>3, <1>4, <2>2, <3>1, <3>3
  <2> QED BY <1>4, <2>1, <2>2
<1>7. progress'.haveBaseline =>
        /\ attempt' # << >>
        /\ progress'.baselineYaw = attempt'[1].yaw
        /\ progress'.baselinePitch = attempt'[1].pitch
  <2> SUFFICES ASSUME b.haveBaseline
               PROVE  /\ attempt' # << >>
                      /\ b.baselineYaw = attempt'[1].yaw
                      /\ b.baselinePitch = attempt'[1].pitch
    BY <1>2
  <2>1. CASE progress.haveBaseline
    <3>1. /\ attempt # << >> /\ progress.baselineYaw = attempt[1].yaw
          /\ progress.baselinePitch = attempt[1].pitch
      BY <2>1 DEF Memory, RemembersTheAttempt
    <3>2. attempt'[1] = attempt[1]
      BY <1>1, <1>4, <3>1
    <3> QED BY <1>3, <1>4, <2>1, <3>1, <3>2
  <2>2. CASE ~progress.haveBaseline
    <3>1. attempt'[1] = face
      <4>1. CASE attempt = << >>
        BY <1>4, <4>1
      <4>2. CASE attempt # << >>
        (* A turn or a nod takes its baseline from the first frame, so none is *)
        (* missing after it; a blink or an open mouth never takes one.         *)
        <5>1. CASE kind \in {"TURN_LEFT", "TURN_RIGHT", "NOD"}
          BY <2>2, <4>2, <5>1 DEF Memory, RemembersTheAttempt
        <5>2. CASE kind \in {"BLINK", "MOUTH_OPEN"}
          <6>1. b.haveBaseline = progress.haveBaseline
            BY <1>1, <5>2, BlinkResult DEF b, Evaluate, MouthOpen, Result
          <6> QED BY <2>2, <6>1
        <5> QED BY <1>1, <5>1, <5>2 DEF ChallengeKinds
      <4> QED BY <4>1, <4>2
    <3> QED BY <1>3, <1>4, <2>2, <3>1
  <2> QED BY <2>1, <2>2
<1>8. kind' \in {"TURN_LEFT", "TURN_RIGHT", "NOD"} => progress'.haveBaseline
  BY <1>1, <1>2, EvaluateResult DEF b
<1>9. progress'.sawClose =>
        \E i \in 1..Len(attempt') : 100 * attempt'[i].ear < progress'.peakEAR * ratios'[1]
  <2> SUFFICES ASSUME b.sawClose
               PROVE  \E i \in 1..Len(attempt') : 100 * attempt'[i].ear < b.peakEAR * ratios[1]
    BY <1>2
  <2>1. CASE Shut(b.peakEAR, face.ear)
    <3>1. 100 * attempt'[Len(attempt) + 1].ear < b.peakEAR * ratios[1]
      BY <1>4, <2>1 DEF Shut
    <3>2. Len(attempt) + 1 \in 1..Len(attempt')
      BY <1>4
    <3> QED BY <3>1, <3>2
  <2>2. CASE progress.sawClose
    <3>1. PICK i \in 1..Len(attempt) : 100 * attempt[i].ear < progress.peakEAR * ratios[1]
      BY <2>2 DEF Memory, RemembersTheAttempt, Shut
    <3>2. ratios[1] \in Nat
      BY <1>1, RatioBounds
    <3>3. progress.peakEAR * ratios[1] <= b.peakEAR * ratios[1]
      BY <1>1, <1>3, <3>2, WiderStaysShut
    <3>4. attempt[i] \in FaceRecord
      BY <1>1
    <3>5. /\ attempt[i].ear \in Nat
          /\ progress.peakEAR * ratios[1] \in Nat /\ b.peakEAR * ratios[1] \in Nat
      <4>1. attempt[i].ear \in Nat
        BY <3>4 DEF FaceRecord
      <4> QED BY <1>1, <1>3, <3>2, <4>1, ProductIsNat
    <3>6. 100 * attempt[i].ear < b.peakEAR * ratios[1]
      <4> HIDE DEF b
      <4> DEFINE x == progress.peakEAR * ratios[1]
                 y == b.peakEAR * ratios[1]
                 e == attempt[i].ear
      <4>1. x \in Nat /\ y \in Nat /\ e \in Nat /\ 100 * e < x /\ x <= y
        BY <3>1, <3>3, <3>5
      <4> HIDE DEF x, y, e
      <4>2. 100 * e < y
        BY <4>1
      <4> QED BY <4>2 DEF y, e
    <3>7. i \in 1..Len(attempt') /\ attempt'[i] = attempt[i]
      BY <1>4
    <3> QED BY <3>6, <3>7
  <2> QED BY <1>3, <2>1, <2>2
<1>10. RemembersTheAttempt'
  BY <1>6, <1>7, <1>8, <1>9 DEF RemembersTheAttempt, Shut
<1> QED BY <1>5, <1>10 DEF Memory

LEMMA ForgettingRemembers ==
  ASSUME EvaluatorAssumption, Memory, kind' \in ChallengeKinds, progress' = NoProgress, attempt' = << >>,
         UNCHANGED ratios
  PROVE  Memory'
<1>1. TypeOK'
  <2>1. attempt' \in Seq(Faces) /\ Len(attempt') = 0 /\ MaxFrames \in Nat
    BY DEF EvaluatorAssumption
  <2>2. ratios' \in Ratios
    BY DEF Memory, TypeOK
  <2> QED BY <2>1, <2>2, NoProgressTyped DEF TypeOK
<1>2. RemembersTheAttempt'
  BY DEF RemembersTheAttempt, NoProgress
<1> QED BY <1>1, <1>2 DEF Memory

LEMMA NextRemembers == EvaluatorAssumption /\ Memory /\ [Next]_vars => Memory'
<1> SUFFICES ASSUME EvaluatorAssumption, Memory, [Next]_vars PROVE Memory'
  OBVIOUS
<1>1. ASSUME NEW face \in Faces, Judge(face) PROVE Memory'
  BY <1>1, JudgeRemembers
<1>2. ASSUME NEW face \in Faces, Satisfy(face) PROVE Memory'
  BY <1>2, ForgettingRemembers DEF Satisfy
<1>3. CASE Restart
  BY <1>3, ForgettingRemembers DEF Restart, Memory, TypeOK
<1>4. CASE UNCHANGED vars
  BY <1>4 DEF vars, Memory, TypeOK, RemembersTheAttempt, Shut
<1> QED BY <1>1, <1>2, <1>3, <1>4 DEF Next

(* The evaluator's memory is always that of the running attempt. *)
THEOREM MemoryIsOfTheAttempt == Spec => []Memory
BY EvaluatorAssumption, InitMemory, NextRemembers, PTL DEF Spec

(* Type correctness, for every threshold and any measurements. *)
THEOREM EvaluatorTypeCorrect == Spec => []TypeOK
<1>1. Memory => TypeOK
  BY DEF Memory
<1> QED BY <1>1, MemoryIsOfTheAttempt, PTL

----------------------------------------------------------------------------
(* The frame that earns a motion challenge differs from an earlier one.        *)
LEMMA CreditNeedsMovement == EvaluatorAssumption /\ Memory => Credited(Moved)
<1> SUFFICES ASSUME EvaluatorAssumption, Memory,
                    NEW face \in Faces, Satisfy(face), kind # "MOUTH_OPEN"
             PROVE  \E i, j \in 1..Len(Append(attempt, face)) :
                      LET a == Append(attempt, face)[i]  b == Append(attempt, face)[j]
                      IN  <<a.ear, a.yaw, a.pitch>> # <<b.ear, b.yaw, b.pitch>>
  BY DEF Credited, Moved
<1> DEFINE frames == Append(attempt, face)
<1>1. /\ ratios \in Ratios /\ kind \in ChallengeKinds /\ progress \in ProgressRecord
      /\ attempt \in Seq(Faces) /\ face \in FaceRecord /\ Faces \subseteq FaceRecord
      /\ Evaluate(kind, progress, face).satisfied
      /\ progress.peakEAR \in Nat /\ face.ear \in Nat
  BY DEF Memory, TypeOK, Satisfy, EvaluatorAssumption, ProgressRecord, FaceRecord
<1>2. /\ Len(frames) = Len(attempt) + 1 /\ Len(attempt) \in Nat
      /\ frames[Len(attempt) + 1] = face
      /\ \A i \in 1..Len(attempt) : frames[i] = attempt[i]
  BY <1>1
<1> HIDE DEF frames
<1>3. CASE kind = "BLINK"
  <2> DEFINE peak == Evaluate(kind, progress, face).progress.peakEAR
  <2>1. /\ progress.sawClose /\ Open(peak, face.ear)
        /\ peak >= progress.peakEAR /\ Evaluate(kind, progress, face).progress \in ProgressRecord
    BY <1>1, <1>3, EvaluateResult
  <2>2. peak \in Nat
    BY <2>1 DEF ProgressRecord
  <2> HIDE DEF peak
  <2>3. PICK i \in 1..Len(attempt) : 100 * attempt[i].ear < progress.peakEAR * ratios[1]
    BY <2>1 DEF Memory, RemembersTheAttempt, Shut
  <2>4. /\ ratios[1] \in Nat /\ ratios[2] \in Nat /\ ratios[1] <= ratios[2]
    BY <1>1, RatioBounds
  <2>5. progress.peakEAR * ratios[1] <= peak * ratios[1]
    BY <1>1, <2>1, <2>2, <2>4, WiderStaysShut
  <2>6. ratios[1] * peak <= ratios[2] * peak
    BY <2>2, <2>4, WiderStaysShut
  <2>7. attempt[i] \in FaceRecord
    BY <1>1
  <2>8. attempt[i].ear \in Nat
    BY <2>7 DEF FaceRecord
  <2>9. peak * ratios[2] < 100 * face.ear
    BY <1>1, <2>1, <2>2, <2>4 DEF Open
  <2>10. /\ ratios[1] * peak = peak * ratios[1] /\ ratios[2] * peak = peak * ratios[2]
         /\ peak * ratios[1] \in Nat /\ peak * ratios[2] \in Nat
         /\ progress.peakEAR * ratios[1] \in Nat
    BY <1>1, <2>2, <2>4, ProductIsNat
  <2>11. 100 * attempt[i].ear < 100 * face.ear
    <3> DEFINE x == progress.peakEAR * ratios[1]
               y == peak * ratios[1]
               z == peak * ratios[2]
               e == attempt[i].ear
    <3>1. /\ x \in Nat /\ y \in Nat /\ z \in Nat /\ e \in Nat
          /\ 100 * e < x /\ x <= y /\ y <= z /\ z < 100 * face.ear
      BY <2>3, <2>5, <2>6, <2>8, <2>9, <2>10
    <3> HIDE DEF x, y, z, e
    <3>2. 100 * e < 100 * face.ear
      BY <1>1, <3>1
    <3> QED BY <3>2 DEF e
  <2>12. attempt[i].ear # face.ear
    BY <1>1, <2>8, <2>11
  <2>13. i \in 1..Len(frames) /\ Len(attempt) + 1 \in 1..Len(frames)
    BY <1>2
  <2> QED BY <1>2, <2>12, <2>13 DEF frames
<1>4. CASE kind \in {"TURN_LEFT", "TURN_RIGHT", "NOD"}
  <2>1. /\ progress.haveBaseline
        /\ <<face.yaw, face.pitch>> # <<progress.baselineYaw, progress.baselinePitch>>
    BY <1>1, <1>4, EvaluateResult
  <2>2. /\ attempt # << >> /\ progress.baselineYaw = attempt[1].yaw
        /\ progress.baselinePitch = attempt[1].pitch
    BY <2>1 DEF Memory, RemembersTheAttempt
  <2>3. 1 \in 1..Len(attempt)
    BY <1>1, <2>2
  <2>4. frames[1] = attempt[1] /\ 1 \in 1..Len(frames) /\ Len(attempt) + 1 \in 1..Len(frames)
    BY <1>2, <2>3
  <2>5. <<frames[1].yaw, frames[1].pitch>>
          # <<frames[Len(attempt) + 1].yaw, frames[Len(attempt) + 1].pitch>>
    BY <1>2, <2>1, <2>2, <2>4
  <2> QED BY <2>4, <2>5 DEF frames
<1> QED BY <1>1, <1>3, <1>4 DEF ChallengeKinds

(* One still face never satisfies a motion challenge, whatever the thresholds, *)
(* however many frames and restarts it is given.                               *)
THEOREM StillFaceEarnsNothing == Spec => StillnessEarnsNothing
<1>1. Memory => Credited(Moved)
  BY EvaluatorAssumption, CreditNeedsMovement
<1>2. Memory /\ [Next]_vars => [Credited(Moved)]_vars
  BY <1>1
<1> QED BY <1>2, MemoryIsOfTheAttempt, PTL DEF Spec, StillnessEarnsNothing

(* Thresholds.Validate accepts a BlinkOpenRatio of 1 (evaluator.go, "at most 1"): *)
(* no frame is wider than the widest seen, so a blink is then never credited,      *)
(* whatever the camera sees and however many frames it is given.                   *)
RatioOfOne == ratios[2] = 100
BlinkIsStuck == [][kind = "BLINK" /\ RatioOfOne => kind' = "BLINK"]_vars

(* So an eye challenge under that ratio stays the one in hand. *)
THEOREM RatioOfOneNeverBlinks == Spec => BlinkIsStuck
<1>1. ASSUME Memory, NEW face \in Faces, Satisfy(face), kind = "BLINK", RatioOfOne
      PROVE  FALSE
  <2>1. /\ ratios \in Ratios /\ kind \in ChallengeKinds /\ progress \in ProgressRecord
        /\ face \in FaceRecord /\ Evaluate(kind, progress, face).satisfied
    BY <1>1, EvaluatorAssumption DEF Memory, TypeOK, Satisfy, EvaluatorAssumption
  <2> DEFINE peak == Blink(progress, face).progress.peakEAR
  <2>2. Blink(progress, face).satisfied
    BY <1>1, <2>1 DEF Evaluate
  <2>3. Open(peak, face.ear) /\ peak >= face.ear /\ Blink(progress, face).progress \in ProgressRecord
    BY <2>1, <2>2, EvaluatorAssumption, BlinkResult
  <2>4. peak \in Nat /\ face.ear \in Nat
    BY <2>1, <2>3 DEF ProgressRecord, FaceRecord
  <2> HIDE DEF peak
  <2> QED BY <1>1, <2>3, <2>4 DEF Open, RatioOfOne
<1>2. Memory /\ [Next]_vars => [kind = "BLINK" /\ RatioOfOne => kind' = "BLINK"]_vars
  BY <1>1 DEF Next, Judge, Restart
<1> QED BY <1>2, MemoryIsOfTheAttempt, PTL DEF Spec, BlinkIsStuck

----------------------------------------------------------------------------
(* Up to every frame of an attempt, some frame has the widest eye.  (Said of    *)
(* the attempt, it is an invariant; said of every sequence, an induction.)      *)
HasWidest(frames) ==
  \A n \in 1..Len(frames) : \E k \in 1..n : \A i \in 1..n : frames[i].ear <= frames[k].ear

(* ShutAt and OpenAt with the ratios as an argument.                            *)
ShutFrames(r, frames, i, j) ==
  {n \in i..j : 100 * frames[n].ear < WidestUpTo(frames, n) * r[1]}

NoneOpen(r, frames, i, j) ==
  \A n \in i..j : ~(100 * frames[n].ear > WidestUpTo(frames, n) * r[2])

(* The memory of a blink: after frame o, the last open one (0 when there is     *)
(* none), closedFrames counts the shut frames; up to it, no stretch without an  *)
(* open frame has enough of them.                                               *)
Counts(r, frames, p, o) ==
  /\ NoneOpen(r, frames, o + 1, Len(frames))
  /\ p.closedFrames = Cardinality(ShutFrames(r, frames, o + 1, Len(frames)))
  /\ p.sawClose <=> p.closedFrames >= BlinkMinFrames
  /\ o # 0 => 100 * frames[o].ear > WidestUpTo(frames, o) * r[2]
  /\ \A i, j \in 1..Len(frames) :
       i <= o /\ NoneOpen(r, frames, i, j) =>
         Cardinality(ShutFrames(r, frames, i, j)) < BlinkMinFrames

CountsTheBlink(r, frames, p) ==
  /\ HasWidest(frames)
  /\ p.peakEAR = IF frames = << >> THEN 0 ELSE WidestUpTo(frames, Len(frames))
  /\ \E o \in 0..Len(frames) : Counts(r, frames, p, o)

----------------------------------------------------------------------------
LEMMA WidestIs ==
  ASSUME NEW frames \in Seq(FaceRecord), NEW n \in 1..Len(frames), NEW k \in 1..n,
         \A i \in 1..n : frames[i].ear <= frames[k].ear
  PROVE  WidestUpTo(frames, n) = frames[k].ear
<1> DEFINE S == {frames[i].ear : i \in 1..n}
           w == WidestUpTo(frames, n)
<1>1. \A i \in 1..n : frames[i].ear \in Nat
  <2> SUFFICES ASSUME NEW i \in 1..n PROVE frames[i].ear \in Nat
    OBVIOUS
  <2>1. frames[i] \in FaceRecord
    OBVIOUS
  <2> QED BY <2>1 DEF FaceRecord
<1>2. frames[k].ear \in S
  OBVIOUS
<1>3. w \in S /\ \A i \in 1..n : frames[i].ear <= w
  BY <1>2 DEF WidestUpTo
<1>4. PICK m \in 1..n : w = frames[m].ear
  BY <1>3
<1>5. w <= frames[k].ear /\ frames[k].ear <= w
  BY <1>3, <1>4
<1>6. w \in Nat /\ frames[k].ear \in Nat
  BY <1>1, <1>4
<1> HIDE DEF w
<1>7. w = frames[k].ear
  BY <1>5, <1>6
<1> QED BY <1>7 DEF w

(* What one more frame changes.                                                 *)
LEMMA OneMoreFrame ==
  ASSUME NEW frames \in Seq(FaceRecord), NEW face \in FaceRecord
  PROVE  LET more == Append(frames, face) IN
         /\ more \in Seq(FaceRecord) /\ Len(frames) \in Nat
         /\ Len(more) = Len(frames) + 1 /\ more # << >>
         /\ more[Len(frames) + 1] = face
         /\ \A i \in 1..Len(frames) : more[i] = frames[i]
OBVIOUS

LEMMA WidestGrows ==
  ASSUME NEW frames \in Seq(FaceRecord), HasWidest(frames), NEW face \in FaceRecord,
         NEW peak \in Nat,
         peak = IF frames = << >> THEN 0 ELSE WidestUpTo(frames, Len(frames))
  PROVE  LET more == Append(frames, face) IN
         /\ HasWidest(more)
         /\ \A n \in 1..Len(frames) : WidestUpTo(more, n) = WidestUpTo(frames, n)
         /\ WidestUpTo(more, Len(more)) = IF face.ear > peak THEN face.ear ELSE peak
<1> DEFINE more == Append(frames, face)
           N == Len(frames)
<1>1. /\ more \in Seq(FaceRecord) /\ N \in Nat
      /\ Len(more) = N + 1
      /\ more[N + 1] = face
      /\ \A i \in 1..N : more[i] = frames[i]
  BY OneMoreFrame
<1>2. /\ \A i \in 1..(N + 1) : more[i].ear \in Nat
      /\ face.ear \in Nat
  <2>1. \A i \in 1..(N + 1) : more[i] \in FaceRecord
    BY <1>1
  <2> QED BY <2>1 DEF FaceRecord
<1> HIDE DEF more
<1>3. ASSUME NEW n \in 1..N
      PROVE  /\ \E k \in 1..n : \A i \in 1..n : more[i].ear <= more[k].ear
             /\ WidestUpTo(more, n) = WidestUpTo(frames, n)
  <2>1. PICK k \in 1..n : \A i \in 1..n : frames[i].ear <= frames[k].ear
    BY DEF HasWidest
  <2>2. \A i \in 1..n : more[i] = frames[i]
    BY <1>1
  <2>3. \A i \in 1..n : more[i].ear <= more[k].ear
    BY <2>1, <2>2
  <2>4. WidestUpTo(frames, n) = frames[k].ear
    BY <2>1, WidestIs
  <2>5. n \in 1..Len(more)
    BY <1>1
  <2>6. WidestUpTo(more, n) = more[k].ear
    BY <1>1, <2>3, <2>5, WidestIs
  <2> QED BY <2>2, <2>3, <2>4, <2>6
<1>4. PICK k \in 1..(N + 1) :
        /\ \A i \in 1..(N + 1) : more[i].ear <= more[k].ear
        /\ more[k].ear = IF face.ear > peak THEN face.ear ELSE peak
  <2>1. CASE N = 0
    <3>1. peak = 0
      BY <2>1
    <3>2. more[1] = face /\ N + 1 = 1
      BY <1>1, <2>1
    <3> QED BY <1>2, <3>1, <3>2
  <2>2. CASE N # 0
    <3>1. frames # << >> /\ N \in 1..N
      BY <1>1, <2>2
    <3>2. PICK m \in 1..N : \A i \in 1..N : more[i].ear <= more[m].ear
      BY <1>3, <3>1
    <3>3. \A i \in 1..N : frames[i].ear <= frames[m].ear
      BY <1>1, <3>2
    <3>4. peak = more[m].ear
      BY <1>1, <3>1, <3>3, WidestIs
    <3>5. CASE face.ear > peak
      <4>1. ASSUME NEW i \in 1..(N + 1) PROVE more[i].ear <= more[N + 1].ear
        <5>1. more[i].ear \in Nat /\ more[N + 1].ear = face.ear /\ face.ear \in Nat
          BY <1>1, <1>2
        <5>2. i \in 1..N => more[i].ear <= peak
          BY <3>2, <3>4
        <5>3. i = N + 1 \/ i \in 1..N
          BY <1>1
        <5> QED BY <3>5, <5>1, <5>2, <5>3
      <4> QED BY <1>1, <3>5, <4>1
    <3>6. CASE ~(face.ear > peak)
      <4>1. \A i \in 1..(N + 1) : more[i].ear <= more[m].ear
        BY <1>1, <1>2, <3>2, <3>4, <3>6
      <4>2. m \in 1..(N + 1)
        BY <1>1
      <4> QED BY <3>4, <3>6, <4>1, <4>2
    <3> QED BY <3>5, <3>6
  <2> QED BY <2>1, <2>2
<1>5. WidestUpTo(more, N + 1) = more[k].ear
  BY <1>1, <1>4, WidestIs
<1>6. HasWidest(more)
  <2> SUFFICES ASSUME NEW n \in 1..(N + 1)
               PROVE  \E q \in 1..n : \A i \in 1..n : more[i].ear <= more[q].ear
    BY <1>1 DEF HasWidest
  <2>1. CASE n \in 1..N
    BY <1>3, <2>1
  <2>2. CASE n = N + 1
    BY <1>4, <2>2
  <2> QED BY <1>1, <2>1, <2>2
<1> QED BY <1>1, <1>3, <1>4, <1>5, <1>6 DEF more

----------------------------------------------------------------------------
(* What a frame does to the memory of a blink, by how it compares with the      *)
(* widest eye.                                                                  *)
LEMMA BlinkDecides ==
  ASSUME EvaluatorAssumption, ratios \in Ratios,
         NEW p \in ProgressRecord, NEW face \in FaceRecord,
         NEW peak \in Nat, peak = IF face.ear > p.peakEAR THEN face.ear ELSE p.peakEAR
  PROVE  LET b == Blink(p, face).progress
             yes == Blink(p, face).satisfied IN
         /\ b.peakEAR = peak
         /\ Shut(peak, face.ear) =>
              /\ ~Open(peak, face.ear) /\ ~yes
              /\ b.closedFrames = p.closedFrames + 1
              /\ b.sawClose <=> p.sawClose \/ p.closedFrames + 1 >= BlinkMinFrames
         /\ Open(peak, face.ear) =>
              /\ yes <=> p.sawClose
              /\ ~p.sawClose => b.closedFrames = 0 /\ ~b.sawClose
         /\ ~Shut(peak, face.ear) /\ ~Open(peak, face.ear) =>
              /\ ~yes /\ b.closedFrames = p.closedFrames /\ b.sawClose = p.sawClose
<1> DEFINE seen == [p EXCEPT !.peakEAR = peak]
           shut == [seen EXCEPT !.closedFrames = @ + 1,
                                !.sawClose = @ \/ p.closedFrames + 1 >= BlinkMinFrames]
           reset == [seen EXCEPT !.closedFrames = 0]
<1>1. /\ face.ear \in Nat /\ p.peakEAR \in Nat /\ peak >= face.ear
      /\ p.closedFrames \in Nat /\ p.sawClose \in BOOLEAN
  BY DEF FaceRecord, ProgressRecord
<1>2. /\ seen \in ProgressRecord
      /\ seen.peakEAR = peak /\ seen.sawClose = p.sawClose
      /\ seen.closedFrames = p.closedFrames
  BY <1>1 DEF ProgressRecord
<1>3. reset.peakEAR = peak /\ reset.closedFrames = 0 /\ reset.sawClose = p.sawClose
  BY <1>2 DEF ProgressRecord
<1>4. /\ shut.peakEAR = peak /\ shut.closedFrames = p.closedFrames + 1
      /\ shut.sawClose = (p.sawClose \/ p.closedFrames + 1 >= BlinkMinFrames)
  BY <1>2 DEF ProgressRecord
<1> HIDE DEF seen, reset, shut
<1>5. Blink(p, face) =
        CASE peak <= 0 -> Result(seen, FALSE)
          [] peak > 0 /\ Shut(peak, face.ear) -> Result(shut, FALSE)
          [] peak > 0 /\ Open(peak, face.ear) ->
               IF p.sawClose THEN Result(seen, TRUE) ELSE Result(reset, FALSE)
          [] OTHER -> Result(seen, FALSE)
  BY DEF Blink, seen, reset, shut
<1>6. /\ ratios[1] \in Nat /\ ratios[2] \in Nat
      /\ Shut(peak, face.ear) => peak > 0 /\ ~Open(peak, face.ear)
      /\ Open(peak, face.ear) => peak > 0
  <2>1. ratios[1] \in Nat /\ ratios[2] \in Nat /\ ratios[1] <= ratios[2]
    BY RatioBounds
  <2>2. ratios[1] * peak <= ratios[2] * peak
    BY <2>1, WiderStaysShut
  <2>3. peak = 0 => peak * ratios[1] = 0 /\ peak * ratios[2] = 0 /\ face.ear = 0
    BY <1>1, <2>1
  <2>4. Shut(peak, face.ear) => ~Open(peak, face.ear)
    BY <1>1, <2>1, <2>2 DEF Shut, Open
  <2>5. peak = 0 => ~Shut(peak, face.ear) /\ ~Open(peak, face.ear)
    BY <2>3 DEF Shut, Open
  <2> QED BY <2>1, <2>4, <2>5
<1>7. CASE Shut(peak, face.ear)
  <2>1. ~(peak <= 0) /\ peak > 0 /\ ~Open(peak, face.ear)
    BY <1>6, <1>7
  <2>2. Blink(p, face) = Result(shut, FALSE)
    BY <1>5, <1>7, <2>1
  <2>3. Blink(p, face).progress = shut /\ Blink(p, face).satisfied = FALSE
    BY <2>2 DEF Result
  <2>4. shut.sawClose <=> p.sawClose \/ p.closedFrames + 1 >= BlinkMinFrames
    BY <1>4
  <2> QED BY <1>4, <1>7, <2>1, <2>3, <2>4
<1>8. CASE Open(peak, face.ear)
  <2>1. ~(peak <= 0) /\ peak > 0 /\ ~Shut(peak, face.ear)
    BY <1>6, <1>8
  <2>2. Blink(p, face) = IF p.sawClose THEN Result(seen, TRUE) ELSE Result(reset, FALSE)
    BY <1>5, <1>8, <2>1
  <2> QED BY <1>1, <1>2, <1>3, <1>8, <2>1, <2>2 DEF Result
<1>9. CASE ~Shut(peak, face.ear) /\ ~Open(peak, face.ear)
  <2>1. Blink(p, face) = Result(seen, FALSE)
    BY <1>5, <1>9
  <2> QED BY <1>2, <1>9, <2>1 DEF Result
<1> QED BY <1>7, <1>8, <1>9

LEMMA ShutFramesFinite ==
  ASSUME NEW r, NEW frames, NEW i \in Int, NEW j \in Int
  PROVE  /\ IsFiniteSet(ShutFrames(r, frames, i, j))
         /\ Cardinality(ShutFrames(r, frames, i, j)) \in Nat
<1>1. ShutFrames(r, frames, i, j) \in SUBSET (i..j)
  BY DEF ShutFrames
<1>2. IsFiniteSet(i..j)
  BY FS_Interval
<1>3. IsFiniteSet(ShutFrames(r, frames, i, j))
  BY <1>1, <1>2, FS_Subset
<1> QED BY <1>3, FS_CardinalityType

(* A stretch that lies in another has at most its shut frames.                  *)
LEMMA FewerInLess ==
  ASSUME NEW r, NEW frames, NEW i \in Int, NEW j \in Int, NEW k \in Int, NEW l \in Int,
         i..j \subseteq k..l
  PROVE  Cardinality(ShutFrames(r, frames, i, j)) <= Cardinality(ShutFrames(r, frames, k, l))
<1>1. ShutFrames(r, frames, i, j) \in SUBSET ShutFrames(r, frames, k, l)
  BY DEF ShutFrames
<1> QED BY <1>1, ShutFramesFinite, FS_Subset

(* The frames judged so far stay as they were judged.                           *)
LEMMA JudgedFrames ==
  ASSUME NEW r, NEW frames, NEW more, NEW N \in Nat,
         \A n \in 1..N : more[n] = frames[n] /\ WidestUpTo(more, n) = WidestUpTo(frames, n),
         NEW i \in Nat \ {0}, NEW j \in Int, j <= N
  PROVE  /\ ShutFrames(r, more, i, j) = ShutFrames(r, frames, i, j)
         /\ NoneOpen(r, more, i, j) <=> NoneOpen(r, frames, i, j)
<1>1. \A n \in i..j : n \in 1..N
  OBVIOUS
<1> QED BY <1>1 DEF ShutFrames, NoneOpen

----------------------------------------------------------------------------
(* One more frame of a blink, judged by how it compares with the widest eye:     *)
(* BlinkDecides, of any memory.                                                 *)
Judged(r, face, p, b, peak) ==
  /\ b.peakEAR = peak
  /\ \/ /\ 100 * face.ear < peak * r[1] /\ ~(100 * face.ear > peak * r[2])
        /\ b.closedFrames = p.closedFrames + 1
        /\ b.sawClose <=> p.sawClose \/ p.closedFrames + 1 >= BlinkMinFrames
     \/ /\ ~p.sawClose
        /\ 100 * face.ear > peak * r[2]
        /\ b.closedFrames = 0 /\ ~b.sawClose
     \/ /\ ~(100 * face.ear < peak * r[1]) /\ ~(100 * face.ear > peak * r[2])
        /\ b.closedFrames = p.closedFrames /\ b.sawClose = p.sawClose

LEMMA CountsOneMore ==
  ASSUME BlinkMinFrames \in Nat \ {0},
         NEW r, NEW frames \in Seq(FaceRecord), NEW face \in FaceRecord,
         NEW p \in ProgressRecord, NEW b \in ProgressRecord,
         NEW peak \in Nat, peak = IF face.ear > p.peakEAR THEN face.ear ELSE p.peakEAR,
         CountsTheBlink(r, frames, p), Judged(r, face, p, b, peak)
  PROVE  CountsTheBlink(r, Append(frames, face), b)
<1> DEFINE more == Append(frames, face)
           N == Len(frames)
<1>1. /\ more \in Seq(FaceRecord) /\ N \in Nat
      /\ Len(more) = N + 1 /\ more # << >>
      /\ more[N + 1] = face
      /\ \A i \in 1..N : more[i] = frames[i]
  BY OneMoreFrame
<1>2. /\ HasWidest(more)
      /\ \A n \in 1..N : WidestUpTo(more, n) = WidestUpTo(frames, n)
      /\ WidestUpTo(more, N + 1) = peak
  <2>1. p.peakEAR \in Nat
    BY DEF ProgressRecord
  <2> QED BY <1>1, <2>1, WidestGrows DEF CountsTheBlink
<1> HIDE DEF more
<1>3. /\ 100 * more[N + 1].ear < WidestUpTo(more, N + 1) * r[1] <=> 100 * face.ear < peak * r[1]
      /\ 100 * more[N + 1].ear > WidestUpTo(more, N + 1) * r[2] <=> 100 * face.ear > peak * r[2]
  BY <1>1, <1>2
<1>4. ASSUME NEW i \in Nat \ {0}, NEW j \in Int, j <= N
      PROVE  /\ ShutFrames(r, more, i, j) = ShutFrames(r, frames, i, j)
             /\ NoneOpen(r, more, i, j) <=> NoneOpen(r, frames, i, j)
  BY <1>1, <1>2, <1>4, JudgedFrames
<1>5. PICK o \in 0..N : Counts(r, frames, p, o)
  BY DEF CountsTheBlink
<1>6. /\ o + 1 \in Nat \ {0} /\ N \in Int /\ N <= N
      /\ p.closedFrames \in Nat /\ p.sawClose \in BOOLEAN
      /\ b.closedFrames \in Nat /\ b.sawClose \in BOOLEAN
  BY <1>1 DEF ProgressRecord
<1>7. /\ NoneOpen(r, more, o + 1, N)
      /\ p.closedFrames = Cardinality(ShutFrames(r, more, o + 1, N))
      /\ p.sawClose <=> p.closedFrames >= BlinkMinFrames
      /\ o # 0 => 100 * more[o].ear > WidestUpTo(more, o) * r[2]
  <2>1. o # 0 => more[o] = frames[o] /\ WidestUpTo(more, o) = WidestUpTo(frames, o)
    BY <1>1, <1>2
  <2> QED BY <1>4, <1>5, <1>6, <2>1 DEF Counts
<1>8. ASSUME NEW i \in 1..N, NEW j \in 1..N, i <= o, NoneOpen(r, more, i, j)
      PROVE  Cardinality(ShutFrames(r, more, i, j)) < BlinkMinFrames
  <2>1. i \in Nat \ {0} /\ j \in Int /\ j <= N
    OBVIOUS
  <2>2. NoneOpen(r, frames, i, j) /\ ShutFrames(r, more, i, j) = ShutFrames(r, frames, i, j)
    BY <1>4, <1>8, <2>1
  <2> QED BY <1>5, <1>8, <2>2 DEF Counts
(* A stretch that begins at or before the last open frame and has no open one    *)
(* among its frames ends before it.                                             *)
<1>9. ASSUME ~(100 * face.ear > peak * r[2])
      PROVE  /\ NoneOpen(r, more, o + 1, N + 1)
             /\ \A i, j \in 1..(N + 1) :
                  i <= o /\ NoneOpen(r, more, i, j) =>
                    Cardinality(ShutFrames(r, more, i, j)) < BlinkMinFrames
  <2>1. NoneOpen(r, more, o + 1, N + 1)
    <3> SUFFICES ASSUME NEW n \in (o + 1)..(N + 1)
                 PROVE  ~(100 * more[n].ear > WidestUpTo(more, n) * r[2])
      BY DEF NoneOpen
    <3>1. n = N + 1 \/ n \in (o + 1)..N
      BY <1>1
    <3> QED BY <1>3, <1>7, <1>9, <3>1 DEF NoneOpen
  <2>2. ASSUME NEW i \in 1..(N + 1), NEW j \in 1..(N + 1), i <= o, NoneOpen(r, more, i, j)
        PROVE  Cardinality(ShutFrames(r, more, i, j)) < BlinkMinFrames
    <3>1. i \in 1..N /\ o # 0 /\ (j \in 1..N \/ o \in i..j)
      BY <1>1, <2>2
    <3>2. o \notin i..j
      BY <1>7, <2>2, <3>1 DEF NoneOpen
    <3> QED BY <1>8, <2>2, <3>1, <3>2
  <2> QED BY <2>1, <2>2
<1>10. ASSUME 100 * face.ear < peak * r[1], ~(100 * face.ear > peak * r[2]),
              b.closedFrames = p.closedFrames + 1,
              b.sawClose <=> p.sawClose \/ p.closedFrames + 1 >= BlinkMinFrames
       PROVE  Counts(r, more, b, o)
  <2> DEFINE S == ShutFrames(r, more, o + 1, N)
  <2>1. ShutFrames(r, more, o + 1, N + 1) = S \cup {N + 1} /\ N + 1 \notin S
    <3>1. (o + 1)..(N + 1) = ((o + 1)..N) \cup {N + 1} /\ N + 1 \notin (o + 1)..N
      BY <1>1
    <3>2. 100 * more[N + 1].ear < WidestUpTo(more, N + 1) * r[1]
      BY <1>3, <1>10
    <3> QED BY <3>1, <3>2 DEF ShutFrames
  <2>2. IsFiniteSet(S)
    BY <1>6, ShutFramesFinite
  <2> HIDE DEF S
  <2>3. Cardinality(S \cup {N + 1}) = Cardinality(S) + 1
    BY <2>1, <2>2, FS_AddElement
  <2>4. b.closedFrames = Cardinality(ShutFrames(r, more, o + 1, N + 1))
    BY <1>7, <1>10, <2>1, <2>3 DEF S
  <2>5. b.sawClose <=> b.closedFrames >= BlinkMinFrames
    BY <1>6, <1>7, <1>10
  <2> QED BY <1>1, <1>7, <1>9, <1>10, <2>4, <2>5 DEF Counts
<1>11. ASSUME ~p.sawClose, 100 * face.ear > peak * r[2],
              b.closedFrames = 0, ~b.sawClose
       PROVE  Counts(r, more, b, N + 1)
  <2>1. /\ (N + 2)..(N + 1) = {}
        /\ NoneOpen(r, more, N + 2, N + 1) /\ ShutFrames(r, more, N + 2, N + 1) = {}
    <3>1. (N + 2)..(N + 1) = {}
      BY <1>1
    <3> QED BY <3>1 DEF NoneOpen, ShutFrames
  <2>2. b.closedFrames = Cardinality(ShutFrames(r, more, N + 2, N + 1))
    BY <1>11, <2>1, FS_EmptySet
  <2>3. 100 * more[N + 1].ear > WidestUpTo(more, N + 1) * r[2]
    BY <1>3, <1>11
  <2>4. ASSUME NEW i \in 1..(N + 1), NEW j \in 1..(N + 1), NoneOpen(r, more, i, j)
        PROVE  Cardinality(ShutFrames(r, more, i, j)) < BlinkMinFrames
    <3>1. j \in 1..N
      <4>1. j = N + 1 => N + 1 \in i..j
        BY <1>1
      <4> QED BY <1>1, <2>3, <2>4, <4>1 DEF NoneOpen
    <3>2. CASE i <= o
      <4>1. i \in 1..N
        BY <1>1, <3>2
      <4> QED BY <1>8, <2>4, <3>1, <3>2, <4>1
    <3>3. CASE ~(i <= o)
      <4>1. /\ i \in Int /\ j \in Int /\ o + 1 \in Int /\ N \in Int
            /\ i..j \subseteq (o + 1)..N
        BY <1>1, <3>1, <3>3
      <4>2. Cardinality(ShutFrames(r, more, i, j)) <= p.closedFrames
        BY <1>7, <4>1, FewerInLess
      <4>3. p.closedFrames < BlinkMinFrames
        BY <1>6, <1>7, <1>11
      <4>4. Cardinality(ShutFrames(r, more, i, j)) \in Nat
        BY <4>1, ShutFramesFinite
      <4> QED BY <1>6, <4>2, <4>3, <4>4
    <3> QED BY <3>2, <3>3
  <2>5. N + 1 + 1 = N + 2 /\ (b.sawClose <=> b.closedFrames >= BlinkMinFrames)
    BY <1>1, <1>11
  <2> QED BY <1>1, <2>1, <2>2, <2>3, <2>4, <2>5 DEF Counts
<1>12. ASSUME ~(100 * face.ear < peak * r[1]), ~(100 * face.ear > peak * r[2]),
              b.closedFrames = p.closedFrames, b.sawClose = p.sawClose
       PROVE  Counts(r, more, b, o)
  <2>1. ShutFrames(r, more, o + 1, N + 1) = ShutFrames(r, more, o + 1, N)
    <3>1. (o + 1)..(N + 1) = ((o + 1)..N) \cup {N + 1}
      BY <1>1
    <3>2. ~(100 * more[N + 1].ear < WidestUpTo(more, N + 1) * r[1])
      BY <1>3, <1>12
    <3> QED BY <3>1, <3>2 DEF ShutFrames
  <2> QED BY <1>1, <1>7, <1>9, <1>12, <2>1 DEF Counts
<1>13. \E q \in 0..Len(more) : Counts(r, more, b, q)
  <2>1. o \in 0..Len(more) /\ N + 1 \in 0..Len(more)
    BY <1>1
  <2> QED BY <1>10, <1>11, <1>12, <2>1 DEF Judged
<1>14. b.peakEAR = WidestUpTo(more, Len(more))
  BY <1>1, <1>2 DEF Judged
<1> QED BY <1>1, <1>2, <1>13, <1>14 DEF CountsTheBlink, more

----------------------------------------------------------------------------
Recalls == Memory /\ (kind = "BLINK" => CountsTheBlink(ratios, attempt, progress))

(* A blink is credited by the frame that completes it.                          *)
LEMMA BlinkMeansShown ==
  ASSUME EvaluatorAssumption, Recalls, kind = "BLINK", NEW face \in Faces
  PROVE  Blink(progress, face).satisfied <=> BlinkShown(Append(attempt, face))
<1> DEFINE more == Append(attempt, face)
           N == Len(attempt)
           peak == IF face.ear > progress.peakEAR THEN face.ear ELSE progress.peakEAR
<1>1. /\ ratios \in Ratios /\ progress \in ProgressRecord
      /\ attempt \in Seq(FaceRecord) /\ face \in FaceRecord
      /\ BlinkMinFrames \in Nat \ {0}
      /\ CountsTheBlink(ratios, attempt, progress)
  BY DEF Recalls, Memory, TypeOK, EvaluatorAssumption
<1>2. progress.peakEAR \in Nat /\ face.ear \in Nat /\ peak \in Nat
  BY <1>1 DEF ProgressRecord, FaceRecord
<1>3. /\ N \in Nat /\ Len(more) = N + 1 /\ more[N + 1] = face
      /\ \A n \in 1..N : more[n] = attempt[n] /\ WidestUpTo(more, n) = WidestUpTo(attempt, n)
      /\ WidestUpTo(more, N + 1) = peak
  BY <1>1, <1>2, OneMoreFrame, WidestGrows DEF CountsTheBlink
<1> HIDE DEF more, peak
<1>4. Blink(progress, face).satisfied <=> Open(peak, face.ear) /\ progress.sawClose
  <2>1. peak = IF face.ear > progress.peakEAR THEN face.ear ELSE progress.peakEAR
    BY DEF peak
  <2>2. Blink(progress, face).satisfied \in BOOLEAN
    BY <1>1, BlinkResult
  <2> QED BY <1>1, <1>2, <2>1, <2>2, BlinkDecides
<1>5. OpenAt(more, N + 1) <=> Open(peak, face.ear)
  BY <1>3 DEF OpenAt
<1>6. PICK o \in 0..N : Counts(ratios, attempt, progress, o)
  BY <1>1 DEF CountsTheBlink
<1>7. ASSUME NEW i \in 1..N, NEW j \in 1..N
      PROVE  /\ (\A n \in i..j : ~OpenAt(more, n)) <=> NoneOpen(ratios, attempt, i, j)
             /\ {n \in i..j : ShutAt(more, n)} = ShutFrames(ratios, attempt, i, j)
  <2>1. (\A n \in i..j : ~OpenAt(more, n)) <=> NoneOpen(ratios, more, i, j)
    BY DEF OpenAt, Open, NoneOpen
  <2>2. {n \in i..j : ShutAt(more, n)} = ShutFrames(ratios, more, i, j)
    BY DEF ShutAt, Shut, ShutFrames
  <2>3. i \in Nat \ {0} /\ j \in Int /\ j <= N
    BY <1>3
  <2>4. /\ ShutFrames(ratios, more, i, j) = ShutFrames(ratios, attempt, i, j)
        /\ NoneOpen(ratios, more, i, j) <=> NoneOpen(ratios, attempt, i, j)
    BY <1>3, <2>3, JudgedFrames
  <2>5. {n \in i..j : ShutAt(more, n)} = ShutFrames(ratios, attempt, i, j)
    BY <2>2, <2>4
  <2> QED BY <2>1, <2>4, <2>5
<1>8. /\ progress.closedFrames = Cardinality(ShutFrames(ratios, attempt, o + 1, N))
      /\ progress.sawClose <=> progress.closedFrames >= BlinkMinFrames
      /\ NoneOpen(ratios, attempt, o + 1, N)
      /\ o + 1 \in Nat /\ N \in Int /\ progress.closedFrames \in Nat
  BY <1>1, <1>3, <1>6 DEF Counts, ProgressRecord
<1>9. ASSUME progress.sawClose
      PROVE  \E i, j \in 1..N :
               /\ \A n \in i..j : ~OpenAt(more, n)
               /\ Cardinality({n \in i..j : ShutAt(more, n)}) >= BlinkMinFrames
  <2>1. ShutFrames(ratios, attempt, o + 1, N) # {}
    <3>1. Cardinality(ShutFrames(ratios, attempt, o + 1, N)) # 0
      BY <1>1, <1>8, <1>9
    <3> QED BY <3>1, FS_EmptySet
  <2>2. o + 1 \in 1..N /\ N \in 1..N
    BY <1>3, <2>1 DEF ShutFrames
  <2> QED BY <1>7, <1>8, <1>9, <2>2
<1>10. ASSUME NEW i \in 1..N, NEW j \in 1..N,
              \A n \in i..j : ~OpenAt(more, n),
              Cardinality({n \in i..j : ShutAt(more, n)}) >= BlinkMinFrames
       PROVE  progress.sawClose
  <2>1. /\ NoneOpen(ratios, attempt, i, j)
        /\ Cardinality(ShutFrames(ratios, attempt, i, j)) >= BlinkMinFrames
    BY <1>7, <1>10
  <2>2. i \in Int /\ j \in Int
    BY <1>3
  <2>3. Cardinality(ShutFrames(ratios, attempt, i, j)) \in Nat
    BY <2>2, ShutFramesFinite
  <2>4. ~(i <= o)
    BY <1>1, <1>6, <2>1, <2>3 DEF Counts
  <2>5. i..j \subseteq (o + 1)..N
    BY <1>3, <2>4
  <2>6. Cardinality(ShutFrames(ratios, attempt, i, j)) <= progress.closedFrames
    BY <1>8, <2>2, <2>5, FewerInLess
  <2> QED BY <1>1, <1>8, <2>1, <2>3, <2>6
<1>11. BlinkShown(more) <=>
         /\ OpenAt(more, N + 1)
         /\ \E i, j \in 1..N :
              /\ \A n \in i..j : ~OpenAt(more, n)
              /\ Cardinality({n \in i..j : ShutAt(more, n)}) >= BlinkMinFrames
  <2>1. Len(more) - 1 = N /\ Len(more) = N + 1
    BY <1>3
  <2> QED BY <2>1 DEF BlinkShown
<1>12. BlinkShown(more) <=> Open(peak, face.ear) /\ progress.sawClose
  BY <1>5, <1>9, <1>10, <1>11
<1> QED BY <1>4, <1>12 DEF more

(* Every challenge is credited by the frame that completes it, and by no other.  *)
LEMMA CreditMeansShown ==
  ASSUME EvaluatorAssumption, Recalls, NEW face \in Faces
  PROVE  Evaluate(kind, progress, face).satisfied <=> Shown(kind, Append(attempt, face))
<1> DEFINE more == Append(attempt, face)
           N == Len(attempt)
           base == WithBaseline(progress, face)
<1>1. /\ kind \in ChallengeKinds /\ progress \in ProgressRecord
      /\ attempt \in Seq(FaceRecord) /\ face \in FaceRecord
  BY DEF Recalls, Memory, TypeOK, EvaluatorAssumption
<1>2. /\ N \in Nat /\ Len(more) = N + 1 /\ more # << >> /\ more[N + 1] = face
      /\ \A n \in 1..N : more[n] = attempt[n]
  BY <1>1, OneMoreFrame
<1>3. ASSUME kind \in {"TURN_LEFT", "TURN_RIGHT", "NOD"}
      PROVE  base.baselineYaw = more[1].yaw /\ base.baselinePitch = more[1].pitch
  <2>1. CASE attempt = << >>
    <3>1. ~progress.haveBaseline
      BY <2>1 DEF Recalls, Memory, RemembersTheAttempt
    <3>2. more[1] = face
      BY <1>2, <2>1
    <3> QED BY <1>1, <3>1, <3>2, BaselineResult
  <2>2. CASE attempt # << >>
    <3>1. /\ progress.haveBaseline
          /\ progress.baselineYaw = attempt[1].yaw
          /\ progress.baselinePitch = attempt[1].pitch
      BY <1>3, <2>2 DEF Recalls, Memory, RemembersTheAttempt
    <3>2. more[1] = attempt[1]
      BY <1>1, <1>2, <2>2
    <3> QED BY <1>1, <3>1, <3>2, BaselineResult
  <2> QED BY <2>1, <2>2
<1> HIDE DEF more, base
<1>4. CASE kind = "BLINK"
  <2>1. Evaluate(kind, progress, face).satisfied <=> BlinkShown(more)
    BY <1>4, BlinkMeansShown DEF Evaluate, more
  <2>2. Shown(kind, more) <=> BlinkShown(more)
    BY <1>2, <1>4 DEF Shown
  <2> QED BY <2>1, <2>2 DEF more
<1>5. CASE kind = "TURN_LEFT"
  <2>1. Evaluate(kind, progress, face).satisfied <=>
          (face.yaw - base.baselineYaw) * (-1) >= YawTurnDeg
    BY <1>5 DEF Evaluate, Turn, Result, base
  <2>2. Shown(kind, more) <=> (face.yaw - more[1].yaw) * (-1) >= YawTurnDeg
    BY <1>2, <1>5 DEF Shown, TurnShown
  <2> QED BY <1>3, <1>5, <2>1, <2>2 DEF more
<1>6. CASE kind = "TURN_RIGHT"
  <2>1. Evaluate(kind, progress, face).satisfied <=>
          (face.yaw - base.baselineYaw) * 1 >= YawTurnDeg
    BY <1>6 DEF Evaluate, Turn, Result, base
  <2>2. Shown(kind, more) <=> (face.yaw - more[1].yaw) * 1 >= YawTurnDeg
    BY <1>2, <1>6 DEF Shown, TurnShown
  <2> QED BY <1>3, <1>6, <2>1, <2>2 DEF more
<1>7. CASE kind = "NOD"
  <2>1. Evaluate(kind, progress, face).satisfied <=>
          Abs(face.pitch - base.baselinePitch) >= PitchNodDeg
    BY <1>7 DEF Evaluate, Nod, Result, base
  <2>2. Shown(kind, more) <=> Abs(face.pitch - more[1].pitch) >= PitchNodDeg
    BY <1>2, <1>7 DEF Shown
  <2> QED BY <1>3, <1>7, <2>1, <2>2 DEF more
<1>8. CASE kind = "MOUTH_OPEN"
  <2>1. Evaluate(kind, progress, face).satisfied <=> face.mar >= MARMouthOpen
    BY <1>8 DEF Evaluate, MouthOpen, Result
  <2>2. Shown(kind, more) <=> face.mar >= MARMouthOpen
    BY <1>2, <1>8 DEF Shown
  <2> QED BY <2>1, <2>2 DEF more
<1> QED BY <1>1, <1>4, <1>5, <1>6, <1>7, <1>8 DEF ChallengeKinds

LEMMA NothingCounted ==
  ASSUME BlinkMinFrames \in Nat \ {0}, NEW r
  PROVE  CountsTheBlink(r, << >>, NoProgress)
<1>1. Len(<< >>) = 0 /\ 1..0 = {}
  OBVIOUS
<1>2. NoneOpen(r, << >>, 1, 0) /\ ShutFrames(r, << >>, 1, 0) = {}
  BY <1>1 DEF NoneOpen, ShutFrames
<1>3. Counts(r, << >>, NoProgress, 0)
  BY <1>1, <1>2, FS_EmptySet DEF Counts, NoProgress
<1> QED BY <1>1, <1>3 DEF CountsTheBlink, HasWidest, NoProgress

(* BlinkShown with the ratios as an argument.                                   *)
BlinkIn(r, frames) ==
  LET last == Len(frames) IN
  /\ 100 * frames[last].ear > WidestUpTo(frames, last) * r[2]
  /\ \E i, j \in 1..(last - 1) :
       /\ \A n \in i..j : ~(100 * frames[n].ear > WidestUpTo(frames, n) * r[2])
       /\ Cardinality({n \in i..j : 100 * frames[n].ear < WidestUpTo(frames, n) * r[1]})
            >= BlinkMinFrames

LEMMA ShownStays ==
  ASSUME NEW frames, attempt' = frames, UNCHANGED <<ratios, kind>>, kind \in ChallengeKinds,
         ~Shown(kind, frames)
  PROVE  (~Shown(kind, attempt))'
<1>1. BlinkShown(attempt)' <=> BlinkIn(ratios', attempt')
  BY DEF BlinkShown, OpenAt, ShutAt, Open, Shut, BlinkIn
<1>2. BlinkShown(frames) <=> BlinkIn(ratios, frames)
  BY DEF BlinkShown, OpenAt, ShutAt, Open, Shut, BlinkIn
<1>3. BlinkShown(attempt)' <=> BlinkShown(frames)
  BY <1>1, <1>2
<1>4. CASE kind = "BLINK"
  <2>1. Shown(kind, attempt)' => attempt' # << >> /\ BlinkShown(attempt)'
    BY <1>4 DEF Shown
  <2>2. frames # << >> /\ BlinkShown(frames) => Shown(kind, frames)
    BY <1>4 DEF Shown
  <2> QED BY <1>3, <2>1, <2>2
<1>5. CASE kind = "TURN_LEFT"
  BY <1>5 DEF Shown, TurnShown
<1>6. CASE kind = "TURN_RIGHT"
  BY <1>6 DEF Shown, TurnShown
<1>7. CASE kind = "NOD"
  BY <1>7 DEF Shown
<1>8. CASE kind = "MOUTH_OPEN"
  BY <1>8 DEF Shown
<1> QED BY <1>4, <1>5, <1>6, <1>7, <1>8 DEF ChallengeKinds

Equivalence == Recalls /\ ~Shown(kind, attempt)

LEMMA JudgeRecalls ==
  ASSUME EvaluatorAssumption, Equivalence, NEW face \in Faces, Judge(face)
  PROVE  Equivalence'
<1> DEFINE b == Evaluate(kind, progress, face).progress
           peak == IF face.ear > progress.peakEAR THEN face.ear ELSE progress.peakEAR
<1>1. /\ ratios \in Ratios /\ progress \in ProgressRecord
      /\ attempt \in Seq(FaceRecord) /\ face \in FaceRecord
      /\ BlinkMinFrames \in Nat \ {0}
  BY DEF Equivalence, Recalls, Memory, TypeOK, EvaluatorAssumption
<1>2. /\ progress' = b /\ attempt' = Append(attempt, face)
      /\ ratios' = ratios /\ kind' = kind
      /\ ~Evaluate(kind, progress, face).satisfied
  BY DEF Judge
<1>3. Memory'
  BY JudgeRemembers DEF Equivalence, Recalls
<1>4. ASSUME kind = "BLINK"
      PROVE  CountsTheBlink(ratios, Append(attempt, face), b)
  <2>1. b = Blink(progress, face).progress /\ ~Blink(progress, face).satisfied
    BY <1>2, <1>4 DEF Evaluate
  <2>2. b \in ProgressRecord /\ peak \in Nat
    BY <1>1, <2>1, BlinkResult DEF ProgressRecord, FaceRecord
  <2>3. Judged(ratios, face, progress, b, peak)
    <3> HIDE DEF b, peak
    <3>1. peak = IF face.ear > progress.peakEAR THEN face.ear ELSE progress.peakEAR
      BY DEF peak
    <3>2. /\ b.peakEAR = peak
          /\ Shut(peak, face.ear) =>
               /\ ~Open(peak, face.ear)
               /\ b.closedFrames = progress.closedFrames + 1
               /\ b.sawClose <=> progress.sawClose \/ progress.closedFrames + 1 >= BlinkMinFrames
          /\ Open(peak, face.ear) => ~progress.sawClose /\ b.closedFrames = 0 /\ ~b.sawClose
          /\ ~Shut(peak, face.ear) /\ ~Open(peak, face.ear) =>
               b.closedFrames = progress.closedFrames /\ b.sawClose = progress.sawClose
      BY <1>1, <2>1, <2>2, <3>1, BlinkDecides
    <3> QED BY <3>2 DEF Judged, Shut, Open
  <2>4. CountsTheBlink(ratios, attempt, progress)
    BY <1>4 DEF Equivalence, Recalls
  <2> HIDE DEF b
  <2> QED BY <1>1, <2>2, <2>3, <2>4, CountsOneMore
<1>5. ~Shown(kind, Append(attempt, face))
  BY <1>2, CreditMeansShown DEF Equivalence
<1> HIDE DEF b
<1>6. (kind = "BLINK" => CountsTheBlink(ratios, attempt, progress))'
  BY <1>2, <1>4
<1>7. (~Shown(kind, attempt))'
  <2>1. kind \in ChallengeKinds
    BY DEF Equivalence, Recalls, Memory, TypeOK
  <2> QED BY <1>2, <1>5, <2>1, ShownStays
<1> QED BY <1>3, <1>6, <1>7 DEF Equivalence, Recalls

LEMMA ForgettingRecalls ==
  ASSUME EvaluatorAssumption, Equivalence, kind' \in ChallengeKinds, progress' = NoProgress,
         attempt' = << >>, UNCHANGED ratios
  PROVE  Equivalence'
<1>1. Memory'
  BY ForgettingRemembers DEF Equivalence, Recalls
<1>2. CountsTheBlink(ratios', attempt', progress')
  BY NothingCounted DEF EvaluatorAssumption
<1>3. (~Shown(kind, attempt))'
  BY DEF Shown
<1> QED BY <1>1, <1>2, <1>3 DEF Equivalence, Recalls

(* The evaluator's progress is exactly what the frames of the attempt have shown. *)
THEOREM EvaluatorIsExact == Spec => []Equivalence
<1>1. EvaluatorAssumption /\ Init => Equivalence
  <2> SUFFICES ASSUME EvaluatorAssumption, Init PROVE Equivalence
    OBVIOUS
  <2>1. CountsTheBlink(ratios, attempt, progress)
    BY NothingCounted DEF Init, EvaluatorAssumption
  <2>2. ~Shown(kind, attempt)
    BY DEF Init, Shown
  <2> QED BY <2>1, <2>2, InitMemory DEF Equivalence, Recalls
<1>2. EvaluatorAssumption /\ Equivalence /\ [Next]_vars => Equivalence'
  <2> SUFFICES ASSUME EvaluatorAssumption, Equivalence, [Next]_vars PROVE Equivalence'
    OBVIOUS
  <2>1. ASSUME NEW face \in Faces, Judge(face) PROVE Equivalence'
    BY <2>1, JudgeRecalls
  <2>2. ASSUME NEW face \in Faces, Satisfy(face) PROVE Equivalence'
    BY <2>2, ForgettingRecalls DEF Satisfy
  <2>3. CASE Restart
    BY <2>3, ForgettingRecalls DEF Restart, Equivalence, Recalls, Memory, TypeOK
  <2>4. CASE UNCHANGED vars
    <3>1. Memory'
      BY <2>4, NextRemembers DEF Equivalence, Recalls
    <3>2. ratios' = ratios /\ kind' = kind /\ progress' = progress /\ attempt' = attempt
      BY <2>4 DEF vars
    <3>3. (kind = "BLINK" => CountsTheBlink(ratios, attempt, progress))'
      BY <3>2 DEF Equivalence, Recalls
    <3>4. (~Shown(kind, attempt))'
      BY <3>2, ShownStays DEF Equivalence, Recalls, Memory, TypeOK
    <3> QED BY <3>1, <3>3, <3>4 DEF Equivalence, Recalls
  <2> QED BY <2>1, <2>2, <2>3, <2>4 DEF Next
<1> QED BY EvaluatorAssumption, <1>1, <1>2, PTL DEF Spec

(* No attempt is left running that already shows what was asked.                 *)
THEOREM NoFrameTooLate == Spec => []ShownIsCredited
<1>1. Equivalence => ShownIsCredited
  BY DEF Equivalence, ShownIsCredited
<1> QED BY <1>1, EvaluatorIsExact, PTL

(* A challenge is credited only when the frames of that attempt show it.         *)
THEOREM NoFrameTooSoon == Spec => CreditIsEarned
<1>1. EvaluatorAssumption /\ Equivalence => Credited(ShowsTheChallenge)
  BY CreditMeansShown DEF Equivalence, Credited, ShowsTheChallenge, Satisfy
<1>2. EvaluatorAssumption /\ Equivalence /\ [Next]_vars => [Credited(ShowsTheChallenge)]_vars
  BY <1>1
<1> QED BY EvaluatorAssumption, <1>2, EvaluatorIsExact, PTL DEF Spec, CreditIsEarned
============================================================================
