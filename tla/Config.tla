------------------------------- MODULE Config -------------------------------
(***************************************************************************)
(* internal/config, and the checks the components make of what they are given *)
(* of it (cmd/server/wire.go).  Numbers are whole: seconds for durations,      *)
(* hundredths for floats.  What is not a number (paths, keys, the log) is left *)
(* to whether it is given, as its value is never looked at.                   *)
(***************************************************************************)
EXTENDS Integers, FiniteSets, Functions

CONSTANT MaxGiven  \* bound: the variables given a value at once

(* What ParseFloat makes of "NaN": no comparison with it holds. *)
NaN == -1000000

Below(x, y) == x # NaN /\ y # NaN /\ x < y
AtMost(x, y) == x # NaN /\ y # NaN /\ x <= y

Number(kind, default, least, most) ==
  [kind |-> kind, default |-> default, least |-> least, most |-> most]

Duration(default, least, most) == Number("duration", default, least, most)
Whole(default, least, most) == Number("int", default, least, most)
Float(default, least, most) == Number("float", default, least, most)

Numbers == [
  ReadTimeout |-> Duration(10, 1, 300), WriteTimeout |-> Duration(30, 1, 300),
  IdleTimeout |-> Duration(60, 1, 1800), RequestTimeout |-> Duration(20, 1, 300),
  ShutdownTimeout |-> Duration(10, 1, 120), MaxFrameBytes |-> Whole(2097152, 65536, 33554432),
  RateLimitPerMin |-> Whole(600, 1, 100000),
  MaxConns |-> Whole(10, 1, 500), MinConns |-> Whole(2, 0, 500), ConnectTimeout |-> Duration(5, 1, 60),
  PoolSize |-> Whole(2, 1, 64), IntraOpThreads |-> Whole(0, 0, 128),
  DetectorInputSize |-> Whole(320, 128, 1920), DetectorNMSIoU |-> Float(40, 1, 100),
  MaxDecodedPixels |-> Whole(16000000, 100000, 200000000), MinFaceWidthPx |-> Whole(112, 32, 4096),
  MinLaplacianVar |-> Float(8000, 0, 10000000), MinBrightness |-> Float(4000, 0, 25500),
  MaxBrightness |-> Float(21500, 0, 25500), PHashMinDistance |-> Whole(5, 0, 64),
  SessionTTL |-> Duration(90, 10, 600), ChallengeTimeout |-> Duration(5, 3, 300),
  ChallengeCount |-> Whole(3, 1, 5), MaxChallengeRetries |-> Whole(2, 0, 5),
  MinDetectionScore |-> Float(60, 0, 100), MinScore |-> Float(80, 0, 100),
  BlinkCloseRatio |-> Float(60, 5, 95), BlinkOpenRatio |-> Float(85, 10, 100),
  BlinkMinFrames |-> Whole(2, 1, 30), YawTurnDeg |-> Float(1500, 500, 8900),
  PitchNodDeg |-> Float(1500, 500, 8900), MARMouthOpen |-> Float(55, 0, 500),
  IdentityCosineMin |-> Float(70, 0, 100),
  MatchCosineMin |-> Float(42, 0, 100), SearchTopK |-> Whole(5, 1, 1000),
  HNSWM |-> Whole(16, 2, 100), HNSWEfConstruction |-> Whole(64, 4, 1000),
  HNSWEfSearch |-> Whole(40, 1, 1000), TokenTTL |-> Duration(300, 30, 3600)]

Required == {"APIKeys", "DatabaseURL", "Endpoint", "AccessKey", "SecretKey", "TokenSecret"}

(* A level, a format, a mode or a boolean that is not one of those there are. *)
Words == {"AllowAnonymousSessions", "Level", "Format", "UseSSL", "Mode", "EnforceAntiSpoof", "StoreArtifacts"}

Variables == DOMAIN Numbers \cup Required \cup Words

VARIABLE given  \* the variables of the environment that differ from an ordinary deployment's

(* What the environment may say: nothing, or blanks; what does not parse; a number. *)
Unset == [said |-> "nothing", number |-> 0]
Junk == [said |-> "junk", number |-> 0]
Say(n) == [said |-> "number", number |-> n]

(* Each side of both ends of the range, an odd number, and what is no number. *)
Sayings(v) ==
  IF v \in Required THEN {Unset}
  ELSE IF v \in Words THEN {Junk}
  ELSE LET n == Numbers[v]
       IN  {Junk} \cup {Say(k) : k \in {n.least - 1, n.least, n.default + 1, n.most, n.most + 1}}
           \cup (IF n.kind = "float" THEN {Say(NaN)} ELSE {})

----------------------------------------------------------------------------
(* intRange, float and duration are written alike. *)
(* Seeded defect: the upper end of a range is not checked. *)
OutOfRangeBelow(v, n) == Below(n, Numbers[v].least)

OutOfRange(v, n) == Below(n, Numbers[v].least) \/ Below(Numbers[v].most, n)

Refused(v) ==
  /\ v \in DOMAIN given
  /\ \/ given[v].said = "junk"
     \/ v \in Required /\ given[v].said = "nothing"
     \/ v \in DOMAIN Numbers /\ given[v].said = "number" /\ OutOfRange(v, given[v].number)

(* A value that is refused leaves the default for crossValidate to see. *)
Value(v) == IF v \in DOMAIN given /\ ~Refused(v) THEN given[v].number ELSE Numbers[v].default

CrossProblems ==
  {v \in {"SessionTTL"} :
     Value(v) < (Value("ChallengeCount") + Value("MaxChallengeRetries")) * Value("ChallengeTimeout")}
  \cup {v \in {"WriteTimeout"} : Value(v) <= Value("RequestTimeout")}
  \cup {v \in {"BlinkCloseRatio"} : AtMost(Value("BlinkOpenRatio"), Value(v))}
  \cup {v \in {"MinBrightness"} : AtMost(Value("MaxBrightness"), Value(v))}
  \cup {v \in {"MinConns"} : Value(v) > Value("MaxConns")}
  \cup {v \in {"DetectorInputSize"} : Value(v) % 32 # 0}
  \cup {v \in {"HNSWEfSearch"} : Value(v) < Value("SearchTopK")}

(* All the problems are told at once. *)
Problems == {v \in Variables : Refused(v)} \cup CrossProblems

Loads == Problems = {}

----------------------------------------------------------------------------
(* What each component refuses to be built with. *)
NotIn(v, least, most) == Below(Value(v), least) \/ Below(most, Value(v))

Thresholds ==
  {v \in {"BlinkCloseRatio"} : AtMost(Value(v), 0) \/ AtMost(100, Value(v))}
  \cup {v \in {"BlinkOpenRatio"} : AtMost(Value(v), Value("BlinkCloseRatio")) \/ Below(100, Value(v))}
  \cup {v \in {"BlinkMinFrames"} : Value(v) < 1}
  \cup {v \in {"YawTurnDeg", "PitchNodDeg", "MARMouthOpen"} : AtMost(Value(v), 0)}

Guard ==
  {v \in {"MinScore"} : NotIn(v, 0, 100)}
  \cup {v \in {"IdentityCosineMin"} : NotIn(v, -100, 100)}
  \cup {v \in {"PHashMinDistance"} : NotIn(v, 0, 64)}

Liveness ==
  {v \in {"SessionTTL", "ChallengeTimeout"} : Value(v) <= 0}
  \cup {v \in {"ChallengeCount"} : Value(v) < 1}
  \cup {v \in {"MaxChallengeRetries"} : Value(v) < 0}

(* With the stub no model is loaded. *)
Onnx ==
  {v \in {"PoolSize"} : Value(v) < 1}
  \cup {v \in {"IntraOpThreads"} : Value(v) < 0}
  \cup {v \in {"DetectorInputSize"} : Value(v) <= 0 \/ Value(v) % 32 # 0}
  \cup {v \in {"MinDetectionScore"} : NotIn(v, 0, 100)}
  \cup {v \in {"DetectorNMSIoU"} : AtMost(Value(v), 0) \/ Below(100, Value(v))}

EnrollmentService ==
  {v \in {"MatchCosineMin", "IdentityCosineMin"} : AtMost(Value(v), 0) \/ Below(100, Value(v))}
  \cup {v \in {"SearchTopK"} : Value(v) < 1}

TokenService == {v \in {"TokenTTL"} : Value(v) <= 0}

FaceRepo == {v \in {"HNSWEfSearch"} : Value(v) < 1}

(* NewChallengeSet, which is called for each session only. *)
ChallengeSet == {v \in {"ChallengeCount"} : Value(v) > 5}

RefusedByComponents ==
  Thresholds \cup Guard \cup Liveness \cup Onnx \cup EnrollmentService \cup TokenService
  \cup FaceRepo \cup ChallengeSet

----------------------------------------------------------------------------
ConfigInit == given = [v \in {} |-> Unset]

Give ==
  /\ Cardinality(DOMAIN given) < MaxGiven
  /\ \E v \in Variables \ DOMAIN given : \E said \in Sayings(v) :
       given' = [w \in DOMAIN given \cup {v} |-> IF w = v THEN said ELSE given[w]]

(* The environment is validated here so that a deployment is not restarted once per  *)
(* mistake: what loads is accepted by every component it is handed to, in whichever  *)
(* combination, save for the three thresholds that may load as zero, which the service    *)
(* that uses each refuses.                                                           *)
WhatLoadsIsBuilt ==
  Loads => \A v \in RefusedByComponents :
             v \in {"MARMouthOpen", "MatchCosineMin", "IdentityCosineMin"} /\ Value(v) = 0
=============================================================================
