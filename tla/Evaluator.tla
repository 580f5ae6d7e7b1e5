----------------------------- MODULE Evaluator -----------------------------
(***************************************************************************)
(* internal/liveness/evaluator.go: how a sequence of frames satisfies a     *)
(* challenge.                                                               *)
(*                                                                          *)
(* The eye and mouth ratios and the pose angles are integers in a unit fine  *)
(* enough for the thresholds; BlinkCloseRatio and BlinkOpenRatio are in      *)
(* percent of the widest eye opening seen.  attempt is a history variable:   *)
(* the frames judged since the challenge began or was restarted.             *)
(***************************************************************************)
EXTENDS Integers, Sequences, FiniteSets

CONSTANTS
  Faces,       \* what the landmarks of a frame can measure
  MaxFrames,   \* bound on the length of an attempt
  Ratios,      \* the <<BlinkCloseRatio, BlinkOpenRatio>> a deployment may choose
  BlinkMinFrames, YawTurnDeg, PitchNodDeg, MARMouthOpen

FaceRecord == [ear : Nat, yaw : Int, pitch : Int, mar : Nat]

(* Thresholds.Validate. *)
RatiosAccepted(close, open) ==
  /\ close \in 1..99
  /\ open \in 1..100
  /\ close < open

ASSUME EvaluatorAssumption ==
  /\ Faces \subseteq FaceRecord
  /\ MaxFrames \in Nat
  /\ \A r \in Ratios : r = <<r[1], r[2]>> /\ RatiosAccepted(r[1], r[2])
  /\ BlinkMinFrames \in Nat \ {0}
  /\ YawTurnDeg \in Nat \ {0}
  /\ PitchNodDeg \in Nat \ {0}
  /\ MARMouthOpen \in Nat \ {0}

ChallengeKinds == {"BLINK", "TURN_LEFT", "TURN_RIGHT", "NOD", "MOUTH_OPEN"}

VARIABLES
  ratios,      \* the blink ratios of this deployment, never changed
  kind,        \* the active challenge
  progress,    \* Session.Progress
  attempt      \* history: the frames judged in this attempt

vars == <<ratios, kind, progress, attempt>>

ProgressRecord ==
  [closedFrames : Nat, sawClose : BOOLEAN, peakEAR : Nat,
   baselineYaw : Int, baselinePitch : Int, haveBaseline : BOOLEAN]

(* Progress{}: what Advance and RetryChallenge set. *)
NoProgress ==
  [closedFrames |-> 0, sawClose |-> FALSE, peakEAR |-> 0,
   baselineYaw |-> 0, baselinePitch |-> 0, haveBaseline |-> FALSE]

Shut(peak, ear) == 100 * ear < peak * ratios[1]

Open(peak, ear) == 100 * ear > peak * ratios[2]

Abs(x) == IF x < 0 THEN -x ELSE x

----------------------------------------------------------------------------
(* Evaluate, one operator per kind: what the frame leaves in Progress, and    *)
(* whether it satisfies the challenge.                                        *)

Result(p, satisfied) == [progress |-> p, satisfied |-> satisfied]

(* Seeded defects: a frame in the band ends the run of shut frames; an open     *)
(* frame takes back one shut frame instead of all of them.                      *)
BlinkUnbrokenRun(p, face) ==
  LET peak == IF face.ear > p.peakEAR THEN face.ear ELSE p.peakEAR
      seen == [p EXCEPT !.peakEAR = peak]
      shut == [seen EXCEPT !.closedFrames = @ + 1,
                           !.sawClose = @ \/ p.closedFrames + 1 >= BlinkMinFrames]
  IN  CASE Shut(peak, face.ear) -> Result(shut, FALSE)
        [] Open(peak, face.ear) /\ p.sawClose -> Result(seen, TRUE)
        [] OTHER -> Result([seen EXCEPT !.closedFrames = 0], FALSE)

BlinkCountsDown(p, face) ==
  LET peak == IF face.ear > p.peakEAR THEN face.ear ELSE p.peakEAR
      seen == [p EXCEPT !.peakEAR = peak]
      shut == [seen EXCEPT !.closedFrames = @ + 1,
                           !.sawClose = @ \/ p.closedFrames + 1 >= BlinkMinFrames]
  IN  CASE Shut(peak, face.ear) -> Result(shut, FALSE)
        [] Open(peak, face.ear) /\ p.sawClose -> Result(seen, TRUE)
        [] OTHER -> Result([seen EXCEPT !.closedFrames = @ - 1], FALSE)

(* The eyes close and open again, judged against the widest they have been    *)
(* seen.  An open frame before the closing is complete starts the count over; *)
(* one in the band between the two ratios changes nothing.                     *)
Blink(p, face) ==
  LET peak == IF face.ear > p.peakEAR THEN face.ear ELSE p.peakEAR
      seen == [p EXCEPT !.peakEAR = peak]
      shut == [seen EXCEPT !.closedFrames = @ + 1,
                           !.sawClose = @ \/ p.closedFrames + 1 >= BlinkMinFrames]
  IN  CASE peak <= 0 -> Result(seen, FALSE)
        [] peak > 0 /\ Shut(peak, face.ear) -> Result(shut, FALSE)
        [] peak > 0 /\ Open(peak, face.ear) ->
             IF p.sawClose THEN Result(seen, TRUE)
             ELSE Result([seen EXCEPT !.closedFrames = 0], FALSE)
        [] OTHER -> Result(seen, FALSE)

(* Seeded defect: the pose is taken as an absolute angle. *)
AbsolutePose(p, face) == [p EXCEPT !.haveBaseline = TRUE]

(* The first frame of a turn or a nod is the pose the movement is measured    *)
(* from.                                                                      *)
WithBaseline(p, face) ==
  IF p.haveBaseline THEN p
  ELSE [p EXCEPT !.baselineYaw = face.yaw, !.baselinePitch = face.pitch,
                 !.haveBaseline = TRUE]

Turn(p, face, direction) ==
  LET b == WithBaseline(p, face)
  IN  Result(b, (face.yaw - b.baselineYaw) * direction >= YawTurnDeg)

Nod(p, face) ==
  LET b == WithBaseline(p, face)
  IN  Result(b, Abs(face.pitch - b.baselinePitch) >= PitchNodDeg)

MouthOpen(p, face) == Result(p, face.mar >= MARMouthOpen)

Evaluate(k, p, face) ==
  CASE k = "BLINK"      -> Blink(p, face)
    [] k = "TURN_LEFT"  -> Turn(p, face, -1)
    [] k = "TURN_RIGHT" -> Turn(p, face, 1)
    [] k = "NOD"        -> Nod(p, face)
    [] k = "MOUTH_OPEN" -> MouthOpen(p, face)

----------------------------------------------------------------------------
Init ==
  /\ ratios \in Ratios
  /\ kind \in ChallengeKinds
  /\ progress = NoProgress
  /\ attempt = << >>

(* A frame that leaves the challenge open. *)
Judge(face) ==
  LET result == Evaluate(kind, progress, face) IN
  /\ Len(attempt) < MaxFrames
  /\ ~result.satisfied
  /\ progress' = result.progress
  /\ attempt' = Append(attempt, face)
  /\ UNCHANGED <<ratios, kind>>

(* A frame that satisfies it; Session.Advance moves to one of the others. *)
Satisfy(face) ==
  LET result == Evaluate(kind, progress, face) IN
  /\ Len(attempt) < MaxFrames
  /\ result.satisfied
  /\ kind' \in ChallengeKinds \ {kind}
  /\ progress' = NoProgress
  /\ attempt' = << >>
  /\ UNCHANGED ratios

(* Seeded defect: a restart that keeps what the missed attempt had shown. *)
RestartKeepingProgress ==
  /\ attempt # << >>
  /\ attempt' = << >>
  /\ UNCHANGED <<ratios, kind, progress>>

(* Session.RetryChallenge: the subject tries the same challenge again. *)
Restart ==
  /\ attempt # << >>
  /\ progress' = NoProgress
  /\ attempt' = << >>
  /\ UNCHANGED <<ratios, kind>>

Next == (\E face \in Faces : Judge(face) \/ Satisfy(face)) \/ Restart

Spec == Init /\ [][Next]_vars

TypeOK ==
  /\ ratios \in Ratios
  /\ kind \in ChallengeKinds
  /\ progress \in ProgressRecord
  /\ attempt \in Seq(Faces)
  /\ Len(attempt) <= MaxFrames

----------------------------------------------------------------------------
(* What each challenge asks of the frames of one attempt, said without the    *)
(* evaluator's memory.                                                        *)

WidestUpTo(frames, n) ==
  CHOOSE w \in {frames[i].ear : i \in 1..n} : \A i \in 1..n : frames[i].ear <= w

ShutAt(frames, n) == Shut(WidestUpTo(frames, n), frames[n].ear)

OpenAt(frames, n) == Open(WidestUpTo(frames, n), frames[n].ear)

(* The last frame is open, and before it BlinkMinFrames frames were shut with  *)
(* no open one among them.                                                    *)
BlinkShown(frames) ==
  LET last == Len(frames) IN
  /\ OpenAt(frames, last)
  /\ \E i, j \in 1..(last - 1) :
       /\ \A n \in i..j : ~OpenAt(frames, n)
       /\ Cardinality({n \in i..j : ShutAt(frames, n)}) >= BlinkMinFrames

TurnShown(frames, direction) ==
  (frames[Len(frames)].yaw - frames[1].yaw) * direction >= YawTurnDeg

Shown(k, frames) ==
  /\ frames # << >>
  /\ CASE k = "BLINK"      -> BlinkShown(frames)
       [] k = "TURN_LEFT"  -> TurnShown(frames, -1)
       [] k = "TURN_RIGHT" -> TurnShown(frames, 1)
       [] k = "NOD"        -> Abs(frames[Len(frames)].pitch - frames[1].pitch) >= PitchNodDeg
       [] k = "MOUTH_OPEN" -> frames[Len(frames)].mar >= MARMouthOpen

(* The frames a step credits with the active challenge have property P. *)
Credited(P(_)) == \A face \in Faces : Satisfy(face) => P(Append(attempt, face))

(* A challenge is credited only when the frames of that very attempt show it: *)
(* nothing a restart discarded, or an earlier challenge left, counts.         *)
ShowsTheChallenge(frames) == Shown(kind, frames)
CreditIsEarned == [][Credited(ShowsTheChallenge)]_vars

(* And it is credited as soon as they do: no attempt is left running that     *)
(* already shows what was asked.                                              *)
ShownIsCredited == ~Shown(kind, attempt)

(* What Session.Outcomes assumes: a motion challenge takes two frames of one  *)
(* attempt that differ, so one still picture never satisfies it, however many *)
(* frames and restarts it is given.                                           *)
Moved(frames) ==
  kind # "MOUTH_OPEN" =>
    \E i, j \in 1..Len(frames) :
      LET a == frames[i]  b == frames[j]
      IN  <<a.ear, a.yaw, a.pitch>> # <<b.ear, b.yaw, b.pitch>>
StillnessEarnsNothing == [][Credited(Moved)]_vars

============================================================================
