SPECIFICATION Spec
CONSTANTS
  Sessions = {s1}
  Tokens = {t1, t2}
  Subjects = {alice}
  FaceIds = {id1, id2}
  Faces = {face1, face2}
  NoFace = NoFace
  Gone = Gone
  SamePerson <- Alike
  Matches <- Alike
  Requests = {r1, r2}
  TokenTTL = 1
  StoreArtifacts = TRUE
  NoToken = NoToken
  NoId = NoId
  NoSubject = NoSubject
  NoSession = NoSession
  MaxClock = 1
  MaxTrail = 3
CHECK_DEADLOCK FALSE
SYMMETRY Symmetry
INVARIANTS TypeOK OneOutcomePerToken FacesWereVerified ImagesAreThere TrailAccountsForGallery
 
