SPECIFICATION Spec
CONSTANTS
  InstantKinds = {"MOUTH_OPEN"}
  MotionKinds = {"BLINK"}
  ChallengeCount = 2
  TTL = 3
  ChallengeTimeout = 1
  MaxChallengeRetries = 1
  KeyFrameInterval = 2
  Pictures <- TwoPictures
  Similar <- Identical
  MaxRecentHashes = 2
  MaxDuplicateStreak = 2
  Faces <- ThreeFaces
  SamePerson <- Lookalikes
  NoFace = NoFace
  EnforceAntiSpoof = TRUE
  Requests <- OneRequest
  Seqs = {1, 2, 3, 4}
  MaxClock = 4
  NoSession = NoSession
  face1 = face1
  face2 = face2
  face3 = face3
  pic1 = pic1
  pic2 = pic2
  r1 = r1
  r2 = r2
CHECK_DEADLOCK FALSE
INVARIANT PassIsNotAStill
PROPERTIES ImplementsLifecycle SequenceNeverFalls ReferenceIsFixed
