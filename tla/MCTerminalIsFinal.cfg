SPECIFICATION Spec
CONSTANTS
  InstantKinds = {"MOUTH_OPEN"}
  MotionKinds = {"BLINK"}
  ChallengeCount = 2
  TTL = 2
  ChallengeTimeout = 1
  MaxChallengeRetries = 1
  KeyFrameInterval = 2
  Pictures <- OnePicture
  Similar <- NoneSimilar
  MaxRecentHashes = 1
  MaxDuplicateStreak = 2
  Faces <- TwoFaces
  SamePerson <- SelfOnly
  NoFace = NoFace
  EnforceAntiSpoof = TRUE
  Requests <- TwoRequests
  Seqs = {1, 2, 3}
  MaxClock = 3
  NoSession = NoSession
  face1 = face1
  face2 = face2
  face3 = face3
  pic1 = pic1
  pic2 = pic2
  r1 = r1
  r2 = r2
CHECK_DEADLOCK FALSE
PROPERTY TerminalIsFinal
