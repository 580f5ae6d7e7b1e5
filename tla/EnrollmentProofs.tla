-------------------------- MODULE EnrollmentProofs --------------------------
(***************************************************************************)
(* Proofs about Enrollment, for any sessions, tokens and calls in flight:    *)
(* type correctness, one outcome per token, what every row of the gallery     *)
(* can show for itself, and that the audit trail adds up to the gallery.      *)
(***************************************************************************)
EXTENDS Enrollment, FiniteSetTheorems, WellFoundedInduction, TLAPS

(* The inductive invariant.  A call past its redemption has the session the     *)
(* token named; past the match, a face that session vouched for; past the image, *)
(* the image.  The gallery's properties follow from the calls that write it.     *)
Vouches(s, face) ==
  \E v \in vouched : v[1] = s /\ <<v[2], face>> \in SamePerson

RowsWereVouched ==
  \A s \in Sessions : sessions[s] \in Faces => <<s, sessions[s]>> \in vouched

Redeemed(call) == call.stage \in {"verify", "match", "refuse", "store", "insert"}

Sound(call) ==
  /\ Redeemed(call) => call.session \in Sessions
  /\ call.stage = "match" => <<call.session, call.verified>> \in vouched
  /\ call.stage \in {"store", "insert"} =>
       call.id \in FaceIds /\ call.face \in Faces /\ Vouches(call.session, call.face)
  /\ call.stage = "insert" /\ StoreArtifacts => call.id \in artifacts
CallsAreSound == \A r \in Requests : Sound(req[r])

(* Spending a token is for ever, purged or not, and one call alone gets to do it. *)
Spent(t, issued, table) == t \in issued /\ (table[t] = NoToken \/ table[t].spent)
TokensAreSpentOnce ==
  /\ \A t \in Tokens : tokens[t] # NoToken => t \in minted
  /\ \A r \in Requests : Redeemed(req[r]) => Spent(req[r].token, minted, tokens)
  /\ \A p \in outcomes : Spent(p[1], minted, tokens)
  /\ \A r, q \in Requests :
       Redeemed(req[r]) /\ Redeemed(req[q]) /\ req[r].token = req[q].token => r = q
  /\ \A r \in Requests, p \in outcomes :
       Redeemed(req[r]) /\ p[1] = req[r].token => req[r].stage = "refuse"
  /\ OneOutcomePerToken

IInv ==
  /\ TypeOK
  /\ RowsWereVouched
  /\ CallsAreSound
  /\ TokensAreSpentOnce
  /\ FacesWereVerified
  /\ ImagesAreThere
  /\ FacesAreAudited

----------------------------------------------------------------------------
(* A call that is not idle has all its locals. *)
LEMMA CallsInFlight ==
  ASSUME TypeOK, NEW r \in Requests, NEW stage \in Stages, At(r, stage)
  PROVE  req[r] \in EnrollCall
BY DEF TypeOK, At, Stages, NoCall, EnrollCall

(* Every step keeps the types, given what the calls in flight hold. *)
LEMMA TypeStep == TypeOK /\ CallsAreSound /\ [Next]_vars => TypeOK'
<1> SUFFICES ASSUME TypeOK, CallsAreSound, [Next]_vars PROVE TypeOK'
  OBVIOUS
<1> USE EnrollmentAssumption
<1>1. CASE Tick
  BY <1>1 DEF Tick, TypeOK, gallery, history
<1>2. ASSUME NEW s \in Sessions, NEW reference \in Faces, SessionPasses(s, reference)
      PROVE  TypeOK'
  BY <1>2 DEF SessionPasses, TypeOK, gallery
<1>3. ASSUME NEW s \in Sessions, NEW to \in {NoFace, Gone}, SessionTakenBack(s, to)
      PROVE  TypeOK'
  BY <1>3 DEF SessionTakenBack, TypeOK, gallery, history
<1>4. ASSUME NEW s \in Sessions, CompletePasses(s) \/ IssueFails(s)
      PROVE  TypeOK'
  BY <1>4 DEF CompletePasses, IssueFails, TypeOK, gallery, history
<1>5. ASSUME NEW s \in Sessions, NEW t \in Tokens, IssueToken(s, t)
      PROVE  TypeOK'
  BY <1>5 DEF IssueToken, TypeOK, TokenRecord, gallery
<1>6. ASSUME NEW before \in 0..MaxClock + 1, PurgeTokens(before)
      PROVE  TypeOK'
  BY <1>6 DEF PurgeTokens, TypeOK, gallery, history
<1>7. ASSUME NEW r \in Requests, EnrollStep(r)
      PROVE  TypeOK'
  <2>1. ASSUME NEW t \in Tokens, NEW subject \in Subjects, Enroll(r, t, subject)
        PROVE  TypeOK'
    BY <2>1 DEF Enroll, Goto, TypeOK, EnrollCall, Stages, gallery, history
  <2>2. CASE Redeem(r)
    <3>1. req[r] \in EnrollCall
      BY <2>2, CallsInFlight DEF Redeem, Stages
    <3>2. tokens[req[r].token] \in TokenRecord
      BY <2>2, <3>1 DEF Redeem, TypeOK, EnrollCall
    <3>3. tokens' \in [Tokens -> TokenRecord \cup {NoToken}]
      BY <2>2, <3>1, <3>2 DEF Redeem, TypeOK, EnrollCall, TokenRecord
    <3>4. req' \in [Requests -> EnrollCall \cup {NoCall}]
      BY <2>2, <3>1, <3>2 DEF Redeem, Goto, TypeOK, EnrollCall, Stages, TokenRecord
    <3> QED BY <2>2, <3>3, <3>4 DEF Redeem, TypeOK, gallery, history
  <2>3. CASE Verify(r)
    <3>1. req[r] \in EnrollCall
      BY <2>3, CallsInFlight DEF Verify, Stages
    <3>2. req' \in [Requests -> EnrollCall \cup {NoCall}]
      BY <2>3, <3>1 DEF Verify, Goto, TypeOK, EnrollCall, Stages
    <3> QED BY <2>3, <3>2 DEF Verify, TypeOK, gallery, history
  <2>4. ASSUME NEW face \in Faces, Refused(r, face)
        PROVE  TypeOK'
    <3>1. req[r] \in EnrollCall
      BY <2>4, CallsInFlight DEF Refused, Stages
    <3>2. req' \in [Requests -> EnrollCall \cup {NoCall}]
      BY <2>4, <3>1 DEF Refused, Goto, TypeOK, EnrollCall, Stages
    <3>3. outcomes' \subseteq Tokens \X (FaceIds \cup {NoId})
      BY <2>4, <3>1 DEF Refused, TypeOK, EnrollCall
    <3> QED BY <2>4, <3>2, <3>3 DEF Refused, TypeOK, gallery
  <2>5. ASSUME NEW face \in Faces, NEW id \in FaceIds, Matched(r, face, id)
        PROVE  TypeOK'
    <3>1. req[r] \in EnrollCall
      BY <2>5, CallsInFlight DEF Matched, Stages
    <3>2. req' \in [Requests -> EnrollCall \cup {NoCall}]
      BY <2>5, <3>1 DEF Matched, Goto, TypeOK, EnrollCall, Stages
    <3> QED BY <2>5, <3>2 DEF Matched, TypeOK, gallery
  <2>6. CASE RecordRefusal(r)
    <3>1. req[r] \in EnrollCall
      BY <2>6, CallsInFlight DEF RecordRefusal, Stages
    <3>2. trail' \in Seq(AuditEntry)
      BY <2>6, <3>1 DEF RecordRefusal, TypeOK, EnrollCall, AuditEntry
    <3> QED BY <2>6, <3>2 DEF RecordRefusal, Goto, TypeOK, history
  <2>7. CASE PutArtifact(r)
    <3>1. req[r] \in EnrollCall
      BY <2>7, CallsInFlight DEF PutArtifact, Stages
    <3>2. req[r].id \in FaceIds
      BY <2>7 DEF CallsAreSound, Sound, PutArtifact, At
    <3>3. req' \in [Requests -> EnrollCall \cup {NoCall}]
      BY <2>7, <3>1 DEF PutArtifact, Goto, TypeOK, EnrollCall, Stages
    <3> QED BY <2>7, <3>2, <3>3 DEF PutArtifact, TypeOK, history
  <2>8. CASE Insert(r)
    <3>1. req[r] \in EnrollCall
      BY <2>8, CallsInFlight DEF Insert, Stages
    <3>2. req[r].id \in FaceIds /\ req[r].face \in Faces /\ req[r].session \in Sessions
      BY <2>8 DEF CallsAreSound, Sound, Redeemed, Insert, At
    <3>3. StoredFace(r) \in FaceRecord
      BY <3>1, <3>2 DEF StoredFace, FaceRecord, EnrollCall
    <3>4. EnrollEntry(StoredFace(r)) \in AuditEntry
      BY <3>3 DEF EnrollEntry, FaceRecord, AuditEntry
    <3>5. outcomes' \subseteq Tokens \X (FaceIds \cup {NoId})
      BY <2>8, <3>1, <3>2 DEF Insert, TypeOK, EnrollCall
    <3>6. IsFiniteSet(faces \cup {StoredFace(r)})
      BY FS_AddElement DEF TypeOK
    <3> QED BY <2>8, <3>3, <3>4, <3>5, <3>6 DEF Insert, Goto, TypeOK
  <2>9. CASE Fails(r)
    BY <2>9 DEF Fails, Goto, TypeOK, gallery, history
  <2> QED BY <1>7, <2>1, <2>2, <2>3, <2>4, <2>5, <2>6, <2>7, <2>8, <2>9 DEF EnrollStep
<1>8. ASSUME NEW shown \in Faces, SearchGallery(shown)
      PROVE  TypeOK'
  <2>1. look' \in Match \cup {NoSearch}
    <3>1. NoMatch \in Match
      BY DEF NoMatch, Match
    <3>2. \A f \in Best(shown) : [subject |-> f.subject, face |-> f.id] \in Match
      BY DEF Best, TypeOK, FaceRecord, Match
    <3> QED BY <1>8, <3>1, <3>2 DEF SearchGallery
  <2> QED BY <1>8, <2>1 DEF SearchGallery, TypeOK, gallery, history
<1>9. CASE SearchRecorded
  <2>1. look \in Match
    BY <1>9 DEF SearchRecorded, TypeOK
  <2>2. SearchEntry(look) \in AuditEntry
    BY <2>1 DEF SearchEntry, Match, AuditEntry
  <2> QED BY <1>9, <2>2 DEF SearchRecorded, TypeOK, history
<1>10. CASE SearchUnrecorded
  BY <1>10 DEF SearchUnrecorded, TypeOK, gallery, history
<1>11. ASSUME NEW subject \in Subjects, DeleteSubject(subject)
       PROVE  TypeOK'
  <2>1. IsFiniteSet(FacesOf(subject)) /\ IsFiniteSet(faces \ FacesOf(subject))
    BY FS_Subset DEF TypeOK, FacesOf
  <2>2. Cardinality(FacesOf(subject)) \in Nat
    BY <2>1, FS_CardinalityType
  <2>3. DeleteEntry(subject, Cardinality(FacesOf(subject))) \in AuditEntry
    BY <2>2 DEF DeleteEntry, AuditEntry
  <2> QED BY <1>11, <2>1, <2>3 DEF DeleteSubject, TypeOK, history
<1>12. CASE UNCHANGED vars
  BY <1>12 DEF vars, TypeOK
<1> QED
  BY <1>1, <1>2, <1>3, <1>4, <1>5, <1>6, <1>7, <1>8, <1>9, <1>10, <1>11, <1>12 DEF Next

----------------------------------------------------------------------------
(* What every step leaves alone. *)
LEMMA StepFrame ==
  ASSUME [Next]_vars
  PROVE  /\ vouched \subseteq vouched' /\ artifacts \subseteq artifacts'
         /\ req' = req \/ \E r \in Requests : EnrollStep(r)
         /\ \/ UNCHANGED <<tokens, minted, outcomes, req>>
            \/ \E r \in Requests : EnrollStep(r)
            \/ \E s \in Sessions, t \in Tokens : IssueToken(s, t)
            \/ \E before \in 0..MaxClock + 1 : PurgeTokens(before)
         /\ \/ UNCHANGED <<faces, trail>>
            \/ \E r \in Requests : Insert(r)
            \/ \E entry : trail' = Append(trail, entry) /\ faces' \subseteq faces
<1>1. CASE Tick
  BY <1>1 DEF Tick, gallery, history
<1>2. ASSUME NEW s \in Sessions, NEW reference \in Faces, SessionPasses(s, reference)
      PROVE  /\ vouched \subseteq vouched' 
             /\ UNCHANGED <<artifacts, req, tokens, minted, outcomes, faces, trail>>
  BY <1>2 DEF SessionPasses, gallery
<1>3. ASSUME NEW s \in Sessions,
             \/ \E to \in {NoFace, Gone} : SessionTakenBack(s, to)
             \/ CompletePasses(s)
             \/ IssueFails(s)
      PROVE  UNCHANGED <<vouched, artifacts, req, tokens, minted, outcomes, faces, trail>>
  BY <1>3 DEF SessionTakenBack, CompletePasses, IssueFails, gallery, history
<1>4. ASSUME NEW s \in Sessions, NEW t \in Tokens, IssueToken(s, t)
      PROVE  UNCHANGED <<vouched, artifacts, req, faces, trail>>
  BY <1>4 DEF IssueToken, gallery
<1>5. ASSUME NEW before \in 0..MaxClock + 1, PurgeTokens(before)
      PROVE  UNCHANGED <<vouched, artifacts, req, faces, trail>>
  BY <1>5 DEF PurgeTokens, gallery, history
<1>6. ASSUME NEW r \in Requests, EnrollStep(r)
      PROVE  /\ vouched \subseteq vouched' /\ artifacts \subseteq artifacts'
             /\ \/ UNCHANGED <<faces, trail>>
                \/ Insert(r)
                \/ \E entry : trail' = Append(trail, entry) /\ faces' \subseteq faces
  BY <1>6 DEF EnrollStep, Enroll, Redeem, Verify, Refused, Matched, RecordRefusal,
              PutArtifact, Insert, Fails, gallery, history
<1>7. ASSUME NEW shown \in Faces, SearchGallery(shown)
      PROVE  UNCHANGED <<vouched, artifacts, req, tokens, minted, outcomes, faces, trail>>
  BY <1>7 DEF SearchGallery, gallery, history
<1>8. CASE SearchUnrecorded
  BY <1>8 DEF SearchUnrecorded, gallery, history
<1>9. CASE SearchRecorded
  BY <1>9 DEF SearchRecorded, history
<1>10. ASSUME NEW subject \in Subjects, DeleteSubject(subject)
       PROVE  /\ UNCHANGED <<vouched, artifacts, req, tokens, minted, outcomes>>
              /\ \E entry : trail' = Append(trail, entry) /\ faces' \subseteq faces
  BY <1>10 DEF DeleteSubject, history
<1>11. CASE UNCHANGED vars
  BY <1>11 DEF vars
<1> QED
  BY <1>1, <1>2, <1>3, <1>4, <1>5, <1>6, <1>7, <1>8, <1>9, <1>10, <1>11 DEF Next

(* A row that reads PASSED has vouched. *)
LEMMA RowsStep == TypeOK /\ RowsWereVouched /\ [Next]_vars => RowsWereVouched'
<1> SUFFICES ASSUME TypeOK, RowsWereVouched, [Next]_vars PROVE RowsWereVouched'
  OBVIOUS
<1>1. ASSUME NEW s \in Sessions, NEW reference \in Faces, SessionPasses(s, reference)
      PROVE  RowsWereVouched'
  BY <1>1 DEF SessionPasses, RowsWereVouched, TypeOK
<1>2. ASSUME NEW s \in Sessions, NEW to \in {NoFace, Gone}, SessionTakenBack(s, to)
      PROVE  RowsWereVouched'
  BY <1>2, EnrollmentAssumption DEF SessionTakenBack, RowsWereVouched, TypeOK, history
<1>3. CASE UNCHANGED <<sessions, vouched>>
  BY <1>3 DEF RowsWereVouched
<1>4. ASSUME NEW s \in Sessions,
             \/ CompletePasses(s)
             \/ IssueFails(s)
             \/ \E t \in Tokens : IssueToken(s, t)
      PROVE  UNCHANGED <<sessions, vouched>>
  BY <1>4 DEF CompletePasses, IssueFails, IssueToken, history
<1>5. ASSUME NEW r \in Requests, EnrollStep(r)
      PROVE  UNCHANGED <<sessions, vouched>>
  BY <1>5 DEF EnrollStep, Enroll, Redeem, Verify, Refused, Matched, RecordRefusal,
              PutArtifact, Insert, Fails, history
<1>6. ASSUME \/ Tick
             \/ \E before \in 0..MaxClock + 1 : PurgeTokens(before)
             \/ \E shown \in Faces : SearchGallery(shown)
             \/ SearchRecorded
             \/ SearchUnrecorded
             \/ \E subject \in Subjects : DeleteSubject(subject)
             \/ UNCHANGED vars
      PROVE  UNCHANGED <<sessions, vouched>>
  BY <1>6 DEF Tick, PurgeTokens, SearchGallery, SearchRecorded, SearchUnrecorded,
              DeleteSubject, vars, history
<1> QED BY <1>1, <1>2, <1>3, <1>4, <1>5, <1>6 DEF Next

(* Each call carries what its next step relies on. *)
LEMMA CallsStep ==
  TypeOK /\ RowsWereVouched /\ CallsAreSound /\ [Next]_vars => CallsAreSound'
<1> SUFFICES ASSUME TypeOK, RowsWereVouched, CallsAreSound, [Next]_vars
             PROVE  CallsAreSound'
  OBVIOUS
<1>1. vouched \subseteq vouched' /\ artifacts \subseteq artifacts'
  BY StepFrame
<1>2. \A q \in Requests : req'[q] = req[q] => Sound(req[q])'
  BY <1>1 DEF CallsAreSound, Sound, Redeemed, Vouches
<1>3. CASE req' = req
  BY <1>2, <1>3 DEF CallsAreSound
<1>4. ASSUME NEW r \in Requests, EnrollStep(r)
      PROVE  CallsAreSound'
  <2>1. SUFFICES ASSUME \E call : Goto(r, call) PROVE Sound(req[r])'
    <3>1. \E call : Goto(r, call)
      BY <1>4 DEF EnrollStep, Enroll, Redeem, Verify, Refused, Matched, RecordRefusal,
                  PutArtifact, Insert, Fails
    <3>2. \A q \in Requests : q # r => req'[q] = req[q]
      BY <3>1 DEF Goto, TypeOK
    <3> QED BY <1>2, <2>1, <3>1, <3>2 DEF CallsAreSound
  <2>2. ASSUME NEW t \in Tokens, NEW subject \in Subjects, Enroll(r, t, subject)
        PROVE  Sound(req[r])'
    BY <2>2 DEF Enroll, Goto, Sound, Redeemed, TypeOK
  <2>3. CASE Redeem(r)
    <3>1. req[r] \in EnrollCall
      BY <2>3, CallsInFlight DEF Redeem, Stages
    <3>2. tokens[req[r].token].session \in Sessions
      BY <2>3, <3>1 DEF Redeem, TypeOK, EnrollCall, TokenRecord
    <3>3. req'[r].stage = "verify" /\ req'[r].session \in Sessions
      BY <2>3, <3>1, <3>2 DEF Redeem, Goto, TypeOK, EnrollCall
    <3> QED BY <3>3 DEF Sound, Redeemed
  <2>4. CASE Verify(r)
    <3>1. req[r] \in EnrollCall /\ req[r].session \in Sessions
      BY <2>4, CallsInFlight DEF Verify, Stages, At, CallsAreSound, Sound, Redeemed
    <3>2. /\ req'[r].stage = "match" /\ req'[r].session = req[r].session
          /\ req'[r].verified = sessions[req[r].session]
      BY <2>4, <3>1 DEF Verify, Goto, TypeOK, EnrollCall
    <3>3. <<req[r].session, sessions[req[r].session]>> \in vouched'
      BY <1>1, <2>4, <3>1 DEF Verify, RowsWereVouched
    <3> QED BY <3>1, <3>2, <3>3 DEF Sound, Redeemed
  <2>5. ASSUME NEW face \in Faces, Refused(r, face)
        PROVE  Sound(req[r])'
    <3>1. req[r] \in EnrollCall /\ req[r].session \in Sessions
      BY <2>5, CallsInFlight DEF Refused, Stages, At, CallsAreSound, Sound, Redeemed
    <3>2. req'[r].stage = "refuse" /\ req'[r].session = req[r].session
      BY <2>5, <3>1 DEF Refused, Goto, TypeOK, EnrollCall
    <3> QED BY <3>1, <3>2 DEF Sound, Redeemed
  <2>6. ASSUME NEW face \in Faces, NEW id \in FaceIds, Matched(r, face, id)
        PROVE  Sound(req[r])'
    <3>1. /\ req[r] \in EnrollCall /\ req[r].session \in Sessions
          /\ <<req[r].session, req[r].verified>> \in vouched
      BY <2>6, CallsInFlight DEF Matched, Stages, At, CallsAreSound, Sound, Redeemed
    <3>2. /\ req'[r].stage = IF StoreArtifacts THEN "store" ELSE "insert"
          /\ req'[r].session = req[r].session
          /\ req'[r].face = face /\ req'[r].id = id
      BY <2>6, <3>1 DEF Matched, Goto, TypeOK, EnrollCall
    <3>3. \E v \in vouched' : v[1] = req[r].session /\ <<v[2], face>> \in SamePerson
      BY <1>1, <2>6, <3>1 DEF Matched
    <3>4. CASE StoreArtifacts
      BY <3>1, <3>2, <3>3, <3>4 DEF Sound, Redeemed, Vouches
    <3>5. CASE ~StoreArtifacts
      BY <3>1, <3>2, <3>3, <3>5 DEF Sound, Redeemed, Vouches
    <3> QED BY <3>4, <3>5
  <2>7. CASE PutArtifact(r)
    <3>1. /\ req[r] \in EnrollCall /\ req[r].session \in Sessions
          /\ req[r].id \in FaceIds /\ req[r].face \in Faces
          /\ Vouches(req[r].session, req[r].face)
      BY <2>7, CallsInFlight DEF PutArtifact, Stages, At, CallsAreSound, Sound, Redeemed
    <3>2. /\ req'[r].stage = "insert" /\ req'[r].session = req[r].session
          /\ req'[r].face = req[r].face /\ req'[r].id = req[r].id
          /\ req[r].id \in artifacts'
      BY <2>7, <3>1 DEF PutArtifact, Goto, TypeOK, EnrollCall
    <3> QED BY <1>1, <3>1, <3>2 DEF Sound, Redeemed, Vouches
  <2>8. CASE RecordRefusal(r) \/ Insert(r) \/ Fails(r)
    <3>1. req'[r] = NoCall
      BY <2>8 DEF RecordRefusal, Insert, Fails, Goto, TypeOK
    <3> QED BY <3>1 DEF Sound, Redeemed, NoCall
  <2> QED BY <1>4, <2>2, <2>3, <2>4, <2>5, <2>6, <2>7, <2>8 DEF EnrollStep
<1> QED BY <1>3, <1>4, StepFrame

(* A step of a call that keeps its token and settles nothing disturbs no token. *)
LEMMA CarriesOn ==
  ASSUME TypeOK, TokensAreSpentOnce, NEW r \in Requests, NEW call, Goto(r, call),
         UNCHANGED <<tokens, minted, outcomes>>,
         \/ ~Redeemed(call)
         \/ /\ Redeemed(req[r]) /\ Redeemed(call) /\ call.token = req[r].token
            /\ req[r].stage # "refuse"
  PROVE  TokensAreSpentOnce'
<1>1. \A q \in Requests : q # r => req'[q] = req[q]
  BY DEF Goto, TypeOK
<1>2. req'[r] = call
  BY DEF Goto, TypeOK
<1>3. \A t \in Tokens : tokens'[t] # NoToken => t \in minted'
  BY DEF TokensAreSpentOnce
<1>4. minted' = minted /\ tokens' = tokens
  OBVIOUS
<1>5. \A q \in Requests :
        Redeemed(req'[q]) => Redeemed(req[q]) /\ req'[q].token = req[q].token
  BY <1>1, <1>2
<1>6. \A q \in Requests : Redeemed(req'[q]) => Spent(req'[q].token, minted', tokens')
  BY <1>4, <1>5 DEF TokensAreSpentOnce
<1>7. \A p \in outcomes' : Spent(p[1], minted', tokens')
  BY <1>4 DEF TokensAreSpentOnce
<1>8. \A q1, q2 \in Requests :
        Redeemed(req'[q1]) /\ Redeemed(req'[q2]) /\ req'[q1].token = req'[q2].token
          => q1 = q2
  BY <1>5 DEF TokensAreSpentOnce
<1>9. \A q \in Requests, p \in outcomes' :
        Redeemed(req'[q]) /\ p[1] = req'[q].token => req'[q].stage = "refuse"
  BY <1>1, <1>2, <1>5 DEF TokensAreSpentOnce
<1>10. OneOutcomePerToken'
  BY DEF TokensAreSpentOnce, OneOutcomePerToken
<1> QED BY <1>3, <1>6, <1>7, <1>8, <1>9, <1>10 DEF TokensAreSpentOnce, Redeemed

(* However the calls interleave, one of them spends a token, and settles it. *)
LEMMA TokensStep == TypeOK /\ TokensAreSpentOnce /\ [Next]_vars => TokensAreSpentOnce'
<1> SUFFICES ASSUME TypeOK, TokensAreSpentOnce, [Next]_vars PROVE TokensAreSpentOnce'
  OBVIOUS
<1>1. CASE UNCHANGED <<tokens, minted, outcomes, req>>
  BY <1>1 DEF TokensAreSpentOnce, Spent, Redeemed, OneOutcomePerToken
<1>2. ASSUME NEW s \in Sessions, NEW t \in Tokens, IssueToken(s, t)
      PROVE  TokensAreSpentOnce'
  <2>1. req' = req /\ outcomes' = outcomes /\ minted' = minted \cup {t} /\ t \notin minted
    BY <1>2 DEF IssueToken
  <2>2. \A u \in Tokens : u # t => tokens'[u] = tokens[u]
    BY <1>2 DEF IssueToken, TypeOK
  <2>3. \A u \in Tokens : Spent(u, minted, tokens) => Spent(u, minted', tokens')
    BY <2>1, <2>2 DEF Spent
  <2>4. \A r \in Requests : Redeemed(req[r]) => req[r].token \in Tokens
    BY DEF TypeOK, Redeemed, EnrollCall, NoCall
  <2>5. \A p \in outcomes : p[1] \in Tokens
    BY DEF TypeOK
  <2>6. \A u \in Tokens : tokens'[u] # NoToken => u \in minted'
    BY <2>1, <2>2 DEF TokensAreSpentOnce
  <2>7. \A r \in Requests : Redeemed(req[r]) => Spent(req[r].token, minted', tokens')
    BY <2>3, <2>4 DEF TokensAreSpentOnce
  <2>8. \A p \in outcomes : Spent(p[1], minted', tokens')
    BY <2>3, <2>5 DEF TokensAreSpentOnce
  <2> QED BY <2>1, <2>6, <2>7, <2>8 DEF TokensAreSpentOnce, Redeemed, OneOutcomePerToken
<1>3. ASSUME NEW before \in 0..MaxClock + 1, PurgeTokens(before)
      PROVE  TokensAreSpentOnce'
  <2>1. req' = req /\ outcomes' = outcomes /\ minted' = minted
    BY <1>3 DEF PurgeTokens, history
  <2>2. \A u \in Tokens : tokens'[u] \in {tokens[u], NoToken}
    BY <1>3 DEF PurgeTokens
  <2>3. \A u \in Tokens : Spent(u, minted, tokens) => Spent(u, minted', tokens')
    BY <2>1, <2>2 DEF Spent
  <2>4. \A r \in Requests : Redeemed(req[r]) => req[r].token \in Tokens
    BY DEF TypeOK, Redeemed, EnrollCall, NoCall
  <2>5. \A p \in outcomes : p[1] \in Tokens
    BY DEF TypeOK
  <2>6. \A u \in Tokens : tokens'[u] # NoToken => u \in minted'
    BY <2>1, <2>2 DEF TokensAreSpentOnce
  <2>7. \A r \in Requests : Redeemed(req[r]) => Spent(req[r].token, minted', tokens')
    BY <2>3, <2>4 DEF TokensAreSpentOnce
  <2>8. \A p \in outcomes : Spent(p[1], minted', tokens')
    BY <2>3, <2>5 DEF TokensAreSpentOnce
  <2> QED BY <2>1, <2>6, <2>7, <2>8 DEF TokensAreSpentOnce, Redeemed, OneOutcomePerToken
<1>4. ASSUME NEW r \in Requests, EnrollStep(r)
      PROVE  TokensAreSpentOnce'
  <2>1. ASSUME NEW t \in Tokens, NEW subject \in Subjects, Enroll(r, t, subject)
        PROVE  TokensAreSpentOnce'
    <3>1. \E call : Goto(r, call) /\ ~Redeemed(call)
      BY <2>1 DEF Enroll, Redeemed
    <3> QED BY <2>1, <3>1, CarriesOn DEF Enroll, history
  <2>2. CASE Redeem(r)
    <3> DEFINE t == req[r].token
               call == [req[r] EXCEPT !.stage = "verify", !.session = tokens[t].session,
                                      !.now = 0]
    <3>1. req[r] \in EnrollCall
      BY <2>2, CallsInFlight DEF Redeem, Stages
    <3>2. t \in Tokens /\ tokens[t] \in TokenRecord /\ tokens[t] # NoToken /\ ~tokens[t].spent
      BY <2>2, <3>1 DEF Redeem, TypeOK, EnrollCall
    <3>3. call.token = t /\ call.stage = "verify"
      BY <3>1 DEF EnrollCall
    <3>4. req'[r] = call /\ \A q \in Requests : q # r => req'[q] = req[q]
      BY <2>2 DEF Redeem, Goto, TypeOK
    <3> HIDE DEF call
    <3>5. tokens'[t].spent /\ \A u \in Tokens : u # t => tokens'[u] = tokens[u]
      BY <2>2, <3>2 DEF Redeem, TypeOK, TokenRecord
    <3>6. minted' = minted /\ outcomes' = outcomes
      BY <2>2 DEF Redeem, history
    <3>7. t \in minted /\ ~Spent(t, minted, tokens)
      BY <3>2 DEF TokensAreSpentOnce, Spent
    <3>8. \A u \in Tokens : Spent(u, minted, tokens) => Spent(u, minted', tokens')
      BY <3>5, <3>6, <3>7 DEF Spent
    <3>9. Spent(t, minted', tokens')
      BY <3>5, <3>6, <3>7 DEF Spent
    <3>10. \A q \in Requests : Redeemed(req[q]) => req[q].token \in Tokens /\ req[q].token # t
      BY <3>7 DEF TokensAreSpentOnce, TypeOK, Redeemed, EnrollCall, NoCall
    <3>11. \A p \in outcomes : p[1] \in Tokens /\ p[1] # t
      BY <3>7 DEF TokensAreSpentOnce, TypeOK
    <3>12. \A u \in Tokens : tokens'[u] # NoToken => u \in minted'
      BY <3>5, <3>6, <3>7 DEF TokensAreSpentOnce
    <3>13. \A q \in Requests : Redeemed(req'[q]) => Spent(req'[q].token, minted', tokens')
      BY <3>3, <3>4, <3>8, <3>9, <3>10 DEF TokensAreSpentOnce
    <3>14. \A p \in outcomes' : Spent(p[1], minted', tokens')
      BY <3>6, <3>8, <3>11 DEF TokensAreSpentOnce
    <3>15. \A q1, q2 \in Requests :
             Redeemed(req'[q1]) /\ Redeemed(req'[q2]) /\ req'[q1].token = req'[q2].token
               => q1 = q2
      BY <3>3, <3>4, <3>10 DEF TokensAreSpentOnce
    <3>16. \A q \in Requests, p \in outcomes' :
             Redeemed(req'[q]) /\ p[1] = req'[q].token => req'[q].stage = "refuse"
      BY <3>3, <3>4, <3>6, <3>10, <3>11 DEF TokensAreSpentOnce
    <3>17. OneOutcomePerToken'
      BY <3>6 DEF TokensAreSpentOnce, OneOutcomePerToken
    <3> QED BY <3>12, <3>13, <3>14, <3>15, <3>16, <3>17 DEF TokensAreSpentOnce, Redeemed
  <2>3. CASE Verify(r)
    <3>1. req[r] \in EnrollCall
      BY <2>3, CallsInFlight DEF Verify, Stages
    <3> DEFINE call == [req[r] EXCEPT !.stage = "match",
                                      !.verified = sessions[req[r].session]]
    <3>2. Goto(r, call)
      BY <2>3 DEF Verify
    <3>3. Redeemed(call) /\ call.token = req[r].token
      BY <3>1 DEF Redeemed, EnrollCall
    <3> HIDE DEF call
    <3> QED BY <2>3, <3>1, <3>2, <3>3, CarriesOn DEF Verify, At, Redeemed, history
  <2>4. ASSUME NEW face \in Faces, Refused(r, face)
        PROVE  TokensAreSpentOnce'
    <3> DEFINE t == req[r].token
               call == [req[r] EXCEPT !.stage = "refuse", !.verified = NoFace]
    <3>1. req[r] \in EnrollCall /\ Redeemed(req[r]) /\ req[r].stage # "refuse"
      BY <2>4, CallsInFlight DEF Refused, Stages, At, Redeemed
    <3>2. call.token = t /\ call.stage = "refuse"
      BY <3>1 DEF EnrollCall
    <3>3. req'[r] = call /\ \A q \in Requests : q # r => req'[q] = req[q]
      BY <2>4 DEF Refused, Goto, TypeOK
    <3> HIDE DEF call
    <3>4. /\ tokens' = tokens /\ minted' = minted
          /\ outcomes' = outcomes \cup {<<t, NoId>>}
      BY <2>4 DEF Refused
    <3>5. \A q \in Requests :
            Redeemed(req'[q]) => Redeemed(req[q]) /\ req'[q].token = req[q].token
      BY <3>1, <3>2, <3>3
    <3>6. \A q \in Requests : q # r /\ Redeemed(req[q]) => req[q].token # t
      BY <3>1 DEF TokensAreSpentOnce
    <3>7. \A p \in outcomes : p[1] # t
      BY <3>1 DEF TokensAreSpentOnce
    <3>8. Spent(t, minted, tokens)
      BY <3>1 DEF TokensAreSpentOnce
    <3>9. \A q \in Requests : Redeemed(req'[q]) => Spent(req'[q].token, minted', tokens')
      BY <3>4, <3>5 DEF TokensAreSpentOnce
    <3>10. \A p \in outcomes' : Spent(p[1], minted', tokens')
      BY <3>4, <3>8 DEF TokensAreSpentOnce
    <3>11. \A q1, q2 \in Requests :
             Redeemed(req'[q1]) /\ Redeemed(req'[q2]) /\ req'[q1].token = req'[q2].token
               => q1 = q2
      BY <3>5 DEF TokensAreSpentOnce
    <3>12. \A q \in Requests, p \in outcomes' :
             Redeemed(req'[q]) /\ p[1] = req'[q].token => req'[q].stage = "refuse"
      BY <3>2, <3>3, <3>4, <3>5, <3>6, <3>7 DEF TokensAreSpentOnce
    <3>13. OneOutcomePerToken'
      BY <3>4, <3>7 DEF TokensAreSpentOnce, OneOutcomePerToken
    <3>14. \A u \in Tokens : tokens'[u] # NoToken => u \in minted'
      BY <3>4 DEF TokensAreSpentOnce
    <3> QED BY <3>9, <3>10, <3>11, <3>12, <3>13, <3>14 DEF TokensAreSpentOnce, Redeemed
  <2>5. ASSUME NEW face \in Faces, NEW id \in FaceIds, Matched(r, face, id)
        PROVE  TokensAreSpentOnce'
    <3>1. req[r] \in EnrollCall
      BY <2>5, CallsInFlight DEF Matched, Stages
    <3> DEFINE call == [req[r] EXCEPT
                         !.stage = IF StoreArtifacts THEN "store" ELSE "insert",
                         !.verified = NoFace, !.face = face, !.id = id]
    <3>2. Goto(r, call)
      BY <2>5 DEF Matched
    <3>3. Redeemed(call) /\ call.token = req[r].token
      BY <3>1 DEF Redeemed, EnrollCall
    <3> HIDE DEF call
    <3> QED BY <2>5, <3>1, <3>2, <3>3, CarriesOn DEF Matched, At, Redeemed
  <2>6. CASE PutArtifact(r)
    <3>1. req[r] \in EnrollCall
      BY <2>6, CallsInFlight DEF PutArtifact, Stages
    <3>2. \E call : /\ Goto(r, call) /\ Redeemed(call)
                    /\ call.token = req[r].token
      BY <2>6, <3>1 DEF PutArtifact, Redeemed, EnrollCall
    <3> QED BY <2>6, <3>2, CarriesOn DEF PutArtifact, At, Redeemed, history
  <2>7. CASE RecordRefusal(r) \/ Fails(r)
    <3>1. Goto(r, NoCall) /\ ~Redeemed(NoCall)
      BY <2>7 DEF RecordRefusal, Fails, Redeemed, NoCall
    <3>2. UNCHANGED <<tokens, minted, outcomes>>
      BY <2>7 DEF RecordRefusal, Fails, history
    <3> QED BY <3>1, <3>2, CarriesOn
  <2>8. CASE Insert(r)
    <3> DEFINE t == req[r].token
    <3>1. req[r] \in EnrollCall /\ Redeemed(req[r]) /\ req[r].stage # "refuse"
      BY <2>8, CallsInFlight DEF Insert, Stages, At, Redeemed
    <3>2. ~Redeemed(req'[r]) /\ \A q \in Requests : q # r => req'[q] = req[q]
      BY <2>8 DEF Insert, Goto, TypeOK, Redeemed, NoCall
    <3>3. /\ tokens' = tokens /\ minted' = minted
          /\ outcomes' = outcomes \cup {<<t, req[r].id>>}
      BY <2>8 DEF Insert
    <3>4. \A q \in Requests : Redeemed(req'[q]) => q # r /\ req'[q] = req[q]
      BY <3>2
    <3>5. \A q \in Requests : Redeemed(req'[q]) => req[q].token # t
      BY <3>1, <3>4 DEF TokensAreSpentOnce
    <3>6. \A p \in outcomes : p[1] # t
      BY <3>1 DEF TokensAreSpentOnce
    <3>7. Spent(t, minted, tokens)
      BY <3>1 DEF TokensAreSpentOnce
    <3>8. \A q \in Requests : Redeemed(req'[q]) => Spent(req'[q].token, minted', tokens')
      BY <3>3, <3>4 DEF TokensAreSpentOnce
    <3>9. \A p \in outcomes' : Spent(p[1], minted', tokens')
      BY <3>3, <3>7 DEF TokensAreSpentOnce
    <3>10. \A q1, q2 \in Requests :
             Redeemed(req'[q1]) /\ Redeemed(req'[q2]) /\ req'[q1].token = req'[q2].token
               => q1 = q2
      BY <3>4 DEF TokensAreSpentOnce
    <3>11. \A q \in Requests, p \in outcomes' :
             Redeemed(req'[q]) /\ p[1] = req'[q].token => req'[q].stage = "refuse"
      BY <3>3, <3>4, <3>5 DEF TokensAreSpentOnce
    <3>12. OneOutcomePerToken'
      BY <3>3, <3>6 DEF TokensAreSpentOnce, OneOutcomePerToken
    <3>13. \A u \in Tokens : tokens'[u] # NoToken => u \in minted'
      BY <3>3 DEF TokensAreSpentOnce
    <3> QED BY <3>8, <3>9, <3>10, <3>11, <3>12, <3>13 DEF TokensAreSpentOnce, Redeemed
  <2> QED BY <1>4, <2>1, <2>2, <2>3, <2>4, <2>5, <2>6, <2>7, <2>8 DEF EnrollStep
<1> QED BY <1>1, <1>2, <1>3, <1>4, StepFrame

(* Only Insert adds a row, and it brings what the row can show for itself. *)
LEMMA GalleryStep ==
  /\ TypeOK /\ CallsAreSound /\ FacesWereVerified /\ ImagesAreThere /\ FacesAreAudited
  /\ [Next]_vars
  => FacesWereVerified' /\ ImagesAreThere' /\ FacesAreAudited'
<1> SUFFICES ASSUME TypeOK, CallsAreSound,
                    FacesWereVerified, ImagesAreThere, FacesAreAudited, [Next]_vars
             PROVE  FacesWereVerified' /\ ImagesAreThere' /\ FacesAreAudited'
  OBVIOUS
<1>1. vouched \subseteq vouched' /\ artifacts \subseteq artifacts'
  BY StepFrame
<1>2. \A f \in faces :
        /\ \E v \in vouched' : v[1] = f.session /\ <<v[2], f.embedding>> \in SamePerson
        /\ f.artifact => f.id \in artifacts'
  BY <1>1 DEF FacesWereVerified, ImagesAreThere
<1>3. CASE UNCHANGED <<faces, trail>>
  BY <1>2, <1>3 DEF FacesWereVerified, ImagesAreThere, FacesAreAudited
<1>4. ASSUME NEW entry, trail' = Append(trail, entry), trail \in Seq(AuditEntry)
      PROVE  /\ Len(trail') = Len(trail) + 1 /\ Len(trail) \in Nat
             /\ trail'[Len(trail) + 1] = entry
             /\ \A i \in 1..Len(trail) : trail'[i] = trail[i]
  <2>1. /\ Len(Append(trail, entry)) = Len(trail) + 1 /\ Len(trail) \in Nat
        /\ Append(trail, entry)[Len(trail) + 1] = entry
        /\ \A i \in 1..Len(trail) : Append(trail, entry)[i] = trail[i]
    BY <1>4
  <2> QED BY <1>4, <2>1
<1>5. ASSUME NEW entry, trail' = Append(trail, entry)
      PROVE  \A f \in faces : \E i \in 1..Len(trail') : trail'[i] = EnrollEntry(f)
  <2>1. 1..Len(trail) \subseteq 1..Len(trail') /\ \A i \in 1..Len(trail) : trail'[i] = trail[i]
    BY <1>4, <1>5 DEF TypeOK
  <2> QED BY <2>1 DEF FacesAreAudited
<1>6. ASSUME NEW entry, trail' = Append(trail, entry), faces' \subseteq faces
      PROVE  FacesWereVerified' /\ ImagesAreThere' /\ FacesAreAudited'
  <2>1. FacesWereVerified' /\ ImagesAreThere'
    BY <1>2, <1>6 DEF FacesWereVerified, ImagesAreThere
  <2>2. FacesAreAudited'
    BY <1>5, <1>6 DEF FacesAreAudited, EnrollEntry
  <2> QED BY <2>1, <2>2
<1>7. ASSUME NEW r \in Requests, Insert(r)
      PROVE  FacesWereVerified' /\ ImagesAreThere' /\ FacesAreAudited'
  <2> DEFINE new == StoredFace(r)
  <2>1. /\ faces' = faces \cup {new} /\ trail' = Append(trail, EnrollEntry(new))
        /\ req[r].stage = "insert"
    BY <1>7 DEF Insert, At
  <2>2. /\ Vouches(req[r].session, req[r].face)
        /\ StoreArtifacts => req[r].id \in artifacts
    BY <2>1 DEF CallsAreSound, Sound
  <2>3. \E v \in vouched' : v[1] = new.session /\ <<v[2], new.embedding>> \in SamePerson
    BY <1>1, <2>2 DEF Vouches, StoredFace
  <2>4. new.artifact => new.id \in artifacts'
    BY <1>1, <2>2 DEF StoredFace
  <2> HIDE DEF new
  <2>5. FacesWereVerified' /\ ImagesAreThere'
    BY <1>2, <2>1, <2>3, <2>4 DEF FacesWereVerified, ImagesAreThere
  <2>6. \E i \in 1..Len(trail') : trail'[i] = EnrollEntry(new)
    BY <1>4, <2>1 DEF TypeOK
  <2>7. FacesAreAudited'
    BY <1>5, <2>1, <2>6 DEF FacesAreAudited, EnrollEntry
  <2> QED BY <2>5, <2>7
<1> QED BY <1>3, <1>6, <1>7, StepFrame

----------------------------------------------------------------------------
(* The invariant holds of every state the program reaches. *)
THEOREM EnrollmentInvariance == Spec => []IInv
<1>1. Init => IInv
  BY FS_EmptySet, EnrollmentAssumption
  DEF Init, IInv, TypeOK, RowsWereVouched, CallsAreSound, Sound, Redeemed, NoCall,
      TokensAreSpentOnce, OneOutcomePerToken, FacesWereVerified, ImagesAreThere,
      FacesAreAudited
<1>2. IInv /\ [Next]_vars => IInv'
  BY TypeStep, RowsStep, CallsStep, TokensStep, GalleryStep DEF IInv
<1> QED BY <1>1, <1>2, PTL DEF Spec

(* The types of the tables, the store and the calls, for any of them. *)
THEOREM EnrollmentTypeCorrect == Spec => []TypeOK
<1>1. IInv => TypeOK
  BY DEF IInv
<1> QED BY <1>1, EnrollmentInvariance, PTL

(* Any number of calls may race with one token, before or after its purge: it   *)
(* comes to one enrolled face or one refusal.                                   *)
THEOREM TokensBuyOneOutcome == Spec => []OneOutcomePerToken
<1>1. IInv => OneOutcomePerToken
  BY DEF IInv, TokensAreSpentOnce
<1> QED BY <1>1, EnrollmentInvariance, PTL

(* Nobody is in the gallery whom no passed session has vouched for. *)
THEOREM GalleryWasVerified == Spec => []FacesWereVerified
<1>1. IInv => FacesWereVerified
  BY DEF IInv
<1> QED BY <1>1, EnrollmentInvariance, PTL

(* Wherever an enrollment is interrupted, a row never promises an image that    *)
(* is not in the object store.                                                  *)
THEOREM ImagesAreKept == Spec => []ImagesAreThere
<1>1. IInv => ImagesAreThere
  BY DEF IInv
<1> QED BY <1>1, EnrollmentInvariance, PTL

(* Nor does it ever lack its audit entry.                                       *)
THEOREM GalleryIsAccountedFor == Spec => []FacesAreAudited
<1>1. IInv => FacesAreAudited
  BY DEF IInv
<1> QED BY <1>1, EnrollmentInvariance, PTL

----------------------------------------------------------------------------
(* A set of numbers has a least one: what makes a smallest counterexample. *)
LEMMA LeastOfNaturals ==
  ASSUME NEW S \in SUBSET Nat, S # {}
  PROVE  \E m \in S : \A n \in S : m <= n
<1>1. \E less : IsWellFoundedOn(less, Nat) /\ \A m, n \in Nat : n < m => <<n, m>> \in less
  <2>1. \A m, n \in Nat : n < m => <<n, m>> \in OpToRel(<, Nat)
    BY DEF OpToRel
  <2> QED BY <2>1, NatLessThanWellFounded, Zenon
<1>2. PICK less : IsWellFoundedOn(less, Nat) /\ \A m, n \in Nat : n < m => <<n, m>> \in less
  BY <1>1
<1>3. PICK m \in S : \A n \in S : ~ (<<n, m>> \in less)
  BY <1>2, WFMin, Zenon
<1>4. \A n \in S : ~ (n < m)
  BY <1>2, <1>3, Zenon
<1> QED BY <1>4

----------------------------------------------------------------------------
(* The sum of the trail.  FoldSeq is a function on the sets of positions, which   *)
(* takes away one position after another in an order left open: it has to be      *)
(* shown that there is such a function, that the order does not matter, and that  *)
(* it depends on the positions it is given only.  Each is by a smallest           *)
(* counterexample.                                                                *)
Some(s) == CHOOSE x \in s : TRUE

Folds(g, w, S) ==
  g = [s \in SUBSET S |-> IF s = {} THEN 0 ELSE g[s \ {Some(s)}] + w[Some(s)]]

(* What CHOOSE picks from a set is in it. *)
LEMMA SomeIsOne == \A s : s # {} => Some(s) \in s
BY DEF Some

(* One position less. *)
LEMMA OneLess ==
  ASSUME NEW S, IsFiniteSet(S), NEW s \in SUBSET S, NEW x \in s
  PROVE  /\ s \ {x} \in SUBSET S
         /\ Cardinality(s) \in Nat /\ Cardinality(s \ {x}) \in Nat
         /\ Cardinality(s \ {x}) = Cardinality(s) - 1
<1>1. IsFiniteSet(s)
  BY FS_Subset
<1>2. IsFiniteSet(s \ {x}) /\ Cardinality(s \ {x}) = Cardinality(s) - 1
  BY <1>1, FS_RemoveElement
<1> QED BY <1>1, <1>2, FS_CardinalityType

(* There is such a function: up to each size of set, and so for all of them. *)
LEMMA FoldExists ==
  ASSUME NEW S, IsFiniteSet(S), NEW w \in [S -> Int]
  PROVE  \E g \in [SUBSET S -> Int] : Folds(g, w, S)
<1> DEFINE UpTo(n) == {s \in SUBSET S : Cardinality(s) <= n}
           FoldsUpTo(g, n) == \A s \in UpTo(n) :
             g[s] = IF s = {} THEN 0 ELSE g[s \ {Some(s)}] + w[Some(s)]
           Good == {n \in Nat : \E g \in [UpTo(n) -> Int] : FoldsUpTo(g, n)}
<1>1. \A s \in SUBSET S : Cardinality(s) \in Nat /\ (Cardinality(s) = 0 <=> s = {})
  BY FS_Subset, FS_CardinalityType, FS_EmptySet
<1>2. \A s \in SUBSET S : s # {} => /\ Some(s) \in S
                                    /\ s \ {Some(s)} \in SUBSET S
                                    /\ Cardinality(s \ {Some(s)}) = Cardinality(s) - 1
  BY SomeIsOne, OneLess
<1>3. Nat \ Good = {}
  <2> SUFFICES ASSUME Nat \ Good # {} PROVE FALSE
    OBVIOUS
  <2> HIDE DEF Good
  <2>1. PICK m \in Nat \ Good : \A n \in Nat \ Good : m <= n
    BY LeastOfNaturals
  <2>2. CASE m = 0
    <3>1. \A s \in UpTo(0) : s = {}
      BY <1>1
    <3>2. [s \in UpTo(0) |-> 0] \in [UpTo(0) -> Int] /\ FoldsUpTo([s \in UpTo(0) |-> 0], 0)
      BY <3>1
    <3> QED BY <2>1, <2>2, <3>2 DEF Good
  <2>3. CASE m # 0
    <3>1. m - 1 \in Nat /\ m - 1 \in Good
      BY <2>1, <2>3
    <3>2. PICK g \in [UpTo(m - 1) -> Int] : FoldsUpTo(g, m - 1)
      BY <3>1 DEF Good
    <3> DEFINE h == [s \in UpTo(m) |-> IF s = {} THEN 0 ELSE g[s \ {Some(s)}] + w[Some(s)]]
    <3>3. \A s \in UpTo(m) : s # {} => s \ {Some(s)} \in UpTo(m - 1) /\ s \ {Some(s)} \in UpTo(m)
      BY <1>1, <1>2, <2>1
    <3>4. h \in [UpTo(m) -> Int]
      BY <1>2, <3>3
    <3>5. \A s \in UpTo(m - 1) : s \in UpTo(m) => h[s] = g[s]
      BY <3>2
    <3>6. FoldsUpTo(h, m)
      BY <3>3, <3>5
    <3> QED BY <2>1, <3>4, <3>6 DEF Good
  <2> QED BY <2>2, <2>3
<1>4. Cardinality(S) \in Nat /\ UpTo(Cardinality(S)) = SUBSET S
  BY FS_Subset, FS_CardinalityType
<1>5. PICK g \in [SUBSET S -> Int] : FoldsUpTo(g, Cardinality(S))
  BY <1>3, <1>4
<1>6. \A s \in SUBSET S : g[s] = IF s = {} THEN 0 ELSE g[s \ {Some(s)}] + w[Some(s)]
  BY <1>4, <1>5
<1> QED BY <1>6 DEF Folds

(* What is left out last does not matter. *)
TakesAway(g, w, S, y) == g[S] = g[S \ {y}] + w[y]

(* Any position may be taken away, not only the one the recursion picks. *)
LEMMA FoldOrder ==
  ASSUME NEW S, IsFiniteSet(S), NEW w, w \in [S -> Int],
         NEW g, g \in [SUBSET S -> Int], Folds(g, w, S), NEW y \in S
  PROVE  TakesAway(g, w, S, y)
<1> DEFINE Bad == {s \in SUBSET S : \E x \in s : g[s] # g[s \ {x}] + w[x]}
           Sizes == {n \in Nat : \E s \in Bad : Cardinality(s) = n}
<1> SUFFICES ASSUME Bad # {} PROVE FALSE
  BY DEF TakesAway
<1>1. \A s \in SUBSET S : Cardinality(s) \in Nat
  BY FS_Subset, FS_CardinalityType
<1>2. PICK m \in Sizes : \A n \in Sizes : m <= n
  <2>1. Sizes # {}
    BY <1>1
  <2> QED BY <2>1, LeastOfNaturals
<1>3. PICK s \in Bad : Cardinality(s) = m
  OBVIOUS
<1>4. PICK x \in s : g[s] # g[s \ {x}] + w[x]
  OBVIOUS
<1> DEFINE p == Some(s)
<1>5. p \in s /\ g[s] = g[s \ {p}] + w[p]
  BY <1>4, SomeIsOne DEF Folds
<1>6. p # x
  BY <1>4, <1>5
<1>7. \A z \in s : s \ {z} \in SUBSET S /\ s \ {z} \notin Bad
  <2> TAKE z \in s
  <2>1. Cardinality(s \ {z}) = m - 1 /\ s \ {z} \in SUBSET S /\ m \in Nat
    BY <1>1, <1>3, OneLess
  <2>2. m - 1 \notin Sizes
    BY <1>2, <2>1
  <2> QED BY <1>1, <2>1, <2>2
<1>8. g[s \ {p}] = g[(s \ {p}) \ {x}] + w[x] /\ g[s \ {x}] = g[(s \ {x}) \ {p}] + w[p]
  BY <1>5, <1>6, <1>7
<1> DEFINE rest == (s \ {p}) \ {x}
<1>9. (s \ {x}) \ {p} = rest /\ rest \in SUBSET S
  OBVIOUS
<1>10. g[rest] \in Int /\ w[x] \in Int /\ w[p] \in Int
  BY <1>5, <1>9
<1>11. g[s] = (g[rest] + w[x]) + w[p] /\ g[s \ {x}] = g[rest] + w[p]
  BY <1>5, <1>8, <1>9
<1> HIDE DEF p, rest
<1>12. (g[rest] + w[x]) + w[p] = (g[rest] + w[p]) + w[x]
  BY <1>10
<1> QED BY <1>4, <1>11, <1>12

(* Two folds agree where what they add up does. *)
LEMMA FoldAgrees ==
  ASSUME NEW S, IsFiniteSet(S), NEW w, NEW g, Folds(g, w, S),
         NEW T, S \subseteq T, NEW v, NEW h, Folds(h, v, T),
         \A i \in S : v[i] = w[i]
  PROVE  g[S] = h[S]
<1> DEFINE Bad == {s \in SUBSET S : g[s] # h[s]}
           Sizes == {n \in Nat : \E s \in Bad : Cardinality(s) = n}
<1> SUFFICES ASSUME Bad # {} PROVE FALSE
  OBVIOUS
<1>1. \A s \in SUBSET S : Cardinality(s) \in Nat
  BY FS_Subset, FS_CardinalityType
<1>2. PICK m \in Sizes : \A n \in Sizes : m <= n
  <2>1. Sizes # {}
    BY <1>1
  <2> QED BY <2>1, LeastOfNaturals
<1>3. PICK s \in Bad : Cardinality(s) = m
  OBVIOUS
<1>4. /\ g[s] = IF s = {} THEN 0 ELSE g[s \ {Some(s)}] + w[Some(s)]
      /\ h[s] = IF s = {} THEN 0 ELSE h[s \ {Some(s)}] + v[Some(s)]
  BY DEF Folds
<1>5. s # {} /\ Some(s) \in s
  BY <1>4, SomeIsOne
<1>6. Cardinality(s \ {Some(s)}) = m - 1 /\ s \ {Some(s)} \in SUBSET S /\ m \in Nat
  BY <1>1, <1>3, <1>5, OneLess
<1>7. s \ {Some(s)} \notin Bad
  BY <1>1, <1>2, <1>6
<1> QED BY <1>4, <1>5, <1>6, <1>7

----------------------------------------------------------------------------
Changes(entries) == [i \in DOMAIN entries |-> Change(entries[i])]

(* An entry changes the size of the gallery by a whole number. *)
LEMMA ChangeType == \A entry \in AuditEntry : Change(entry) \in Int
BY DEF AuditEntry, Change

(* The sum as one of those functions. *)
LEMMA TotalFolds ==
  ASSUME NEW entries \in Seq(AuditEntry)
  PROVE  /\ IsFiniteSet(DOMAIN entries) /\ Changes(entries) \in [DOMAIN entries -> Int]
         /\ \E g \in [SUBSET DOMAIN entries -> Int] :
              /\ Folds(g, Changes(entries), DOMAIN entries)
              /\ Total(entries) = g[DOMAIN entries]
              /\ \A y \in DOMAIN entries :
                   TakesAway(g, Changes(entries), DOMAIN entries, y)
<1> DEFINE S == DOMAIN entries
           w == Changes(entries)
           g == CHOOSE f : f = [s \in SUBSET S |->
                  IF s = {} THEN 0 ELSE f[s \ {Some(s)}] + Change(entries[Some(s)])]
<1>1. IsFiniteSet(S)
  <2>1. S = 1..Len(entries) /\ Len(entries) \in Nat
    OBVIOUS
  <2> QED BY <2>1, FS_Interval
<1>2. w \in [S -> Int]
  BY ChangeType DEF Changes
<1>3. Total(entries) = g[S]
  BY DEF Total, FoldSeq, FoldFunction, FoldFunctionOnSet, MapThenFoldSet, Some
<1>4. PICK f \in [SUBSET S -> Int] : Folds(f, w, S)
  BY <1>1, <1>2, FoldExists
<1>5. \A s \in SUBSET S : s # {} => w[Some(s)] = Change(entries[Some(s)])
  BY SomeIsOne DEF Changes
<1>6. ASSUME NEW h
      PROVE  [s \in SUBSET S |-> IF s = {} THEN 0 ELSE h[s \ {Some(s)}] + w[Some(s)]]
              = [s \in SUBSET S |->
                   IF s = {} THEN 0 ELSE h[s \ {Some(s)}] + Change(entries[Some(s)])]
  BY <1>5
<1>7. f = [s \in SUBSET S |->
            IF s = {} THEN 0 ELSE f[s \ {Some(s)}] + Change(entries[Some(s)])]
  BY <1>4, <1>6 DEF Folds
<1>8. g = [s \in SUBSET S |->
            IF s = {} THEN 0 ELSE g[s \ {Some(s)}] + Change(entries[Some(s)])]
  BY <1>7
<1> HIDE DEF g, w, S
<1>9. Folds(g, w, S)
  BY <1>6, <1>8 DEF Folds
<1>10. g[S] = f[S]
  BY <1>1, <1>4, <1>9, FoldAgrees
<1>11. \A y \in S : TakesAway(f, w, S, y)
  BY <1>1, <1>2, <1>4, FoldOrder
<1> QED BY <1>1, <1>2, <1>3, <1>4, <1>10, <1>11 DEF S, w

(* The sum of no entries, and of one more. *)
LEMMA TotalOfNothing == Total(<<>>) = 0
<1>1. DOMAIN <<>> = {} /\ <<>> \in Seq(AuditEntry)
  OBVIOUS
<1>2. PICK g : Folds(g, Changes(<<>>), {}) /\ Total(<<>>) = g[{}]
  BY <1>1, TotalFolds
<1>3. g[{}] = 0
  BY <1>2 DEF Folds
<1> QED BY <1>2, <1>3

(* A new entry adds its own change to the sum. *)
LEMMA TotalOfAppend ==
  ASSUME NEW entries \in Seq(AuditEntry), NEW entry \in AuditEntry
  PROVE  /\ Total(entries) \in Int
         /\ Total(Append(entries, entry)) = Total(entries) + Change(entry)
<1> DEFINE more == Append(entries, entry)
           n == Len(entries) + 1
           S == DOMAIN entries
           T == DOMAIN more
<1>1. /\ more \in Seq(AuditEntry) /\ n \in T /\ T \ {n} = S /\ S \subseteq T
      /\ \A i \in S : more[i] = entries[i]
      /\ more[n] = entry
  <2>1. Len(entries) \in Nat /\ S = 1..Len(entries) /\ Len(more) = n /\ T = 1..Len(more)
    OBVIOUS
  <2>2. more \in Seq(AuditEntry) /\ more[n] = entry /\ \A i \in S : more[i] = entries[i]
    OBVIOUS
  <2>3. 1..n \ {n} = 1..Len(entries) /\ n \in 1..n
    BY <2>1
  <2> HIDE DEF more, S, T, n
  <2> QED BY <2>1, <2>2, <2>3
<1>2. PICK g \in [SUBSET S -> Int] : Folds(g, Changes(entries), S) /\ Total(entries) = g[S]
  BY TotalFolds
<1>3. PICK h \in [SUBSET T -> Int] : /\ Folds(h, Changes(more), T) /\ Total(more) = h[T]
                                   /\ \A y \in T : TakesAway(h, Changes(more), T, y)
  BY <1>1, TotalFolds
<1>4. IsFiniteSet(S) /\ IsFiniteSet(T) /\ Changes(more) \in [T -> Int]
  BY <1>1, TotalFolds
<1>5. Changes(more)[n] = Change(entry) /\ \A i \in S : Changes(more)[i] = Changes(entries)[i]
  BY <1>1 DEF Changes
<1> HIDE DEF more, n, S, T
<1>6. g[S] = h[S]
  BY <1>1, <1>2, <1>3, <1>4, <1>5, FoldAgrees
<1>7. h[T] = h[T \ {n}] + Changes(more)[n]
  BY <1>1, <1>3 DEF TakesAway
<1>8. g[S] \in Int
  BY <1>2
<1>9. Total(more) = Total(entries) + Change(entry)
  BY <1>1, <1>2, <1>3, <1>5, <1>6, <1>7
<1> QED BY <1>2, <1>8, <1>9 DEF more

----------------------------------------------------------------------------
(* What makes the trail add up.  The id a call holds is its own, and no entry    *)
(* has named it yet: the face Insert adds is a new one.  And what a search will  *)
(* report is already told by an entry, which nothing removes.                    *)
Holds(call) == call.stage \in {"store", "insert"}
Told == {trail[i].face : i \in {j \in 1..Len(trail) : trail[j].action = "ENROLL"}}
IdsAreOwn ==
  /\ Told \subseteq drawn \cup {NoId}
  /\ \A r \in Requests : Holds(req[r]) => req[r].id \in drawn \ Told
  /\ \A r, q \in Requests :
       Holds(req[r]) /\ Holds(req[q]) /\ req[r].id = req[q].id => r = q

Enrolls(entry, match) ==
  /\ entry.action = "ENROLL"
  /\ entry.face = match.face
  /\ entry.subject = match.subject
MatchIsEnrolled ==
  look \notin {NoSearch, NoMatch} =>
    look.face # NoId /\ \E j \in 1..Len(trail) : Enrolls(trail[j], look)

AInv == IdsAreOwn /\ MatchIsEnrolled /\ TrailAccountsForGallery

(* The steps that change the gallery, each with its entry. *)
LEMMA GalleryFrame ==
  ASSUME [Next]_vars
  PROVE  /\ drawn \subseteq drawn'
         /\ \/ UNCHANGED <<faces, trail>>
            \/ \E r \in Requests : Insert(r) \/ RecordRefusal(r)
            \/ SearchRecorded
            \/ \E subject \in Subjects : DeleteSubject(subject)
         /\ \/ look' \in {look, NoSearch}
            \/ \E shown \in Faces : SearchGallery(shown)
<1>1. CASE Tick
  BY <1>1 DEF Tick, gallery, history
<1>2. ASSUME NEW s \in Sessions,
             \/ \E reference \in Faces : SessionPasses(s, reference)
             \/ \E to \in {NoFace, Gone} : SessionTakenBack(s, to)
             \/ CompletePasses(s)
             \/ \E t \in Tokens : IssueToken(s, t)
             \/ IssueFails(s)
      PROVE  UNCHANGED <<drawn, faces, trail, look>>
  BY <1>2 DEF SessionPasses, SessionTakenBack, CompletePasses, IssueToken, IssueFails,
              gallery, history
<1>3. ASSUME NEW before \in 0..MaxClock + 1, PurgeTokens(before)
      PROVE  UNCHANGED <<drawn, faces, trail, look>>
  BY <1>3 DEF PurgeTokens, gallery, history
<1>4. ASSUME NEW r \in Requests, EnrollStep(r)
      PROVE  /\ drawn \subseteq drawn' /\ look' = look
             /\ UNCHANGED <<faces, trail>> \/ Insert(r) \/ RecordRefusal(r)
  BY <1>4 DEF EnrollStep, Enroll, Redeem, Verify, Refused, Matched, RecordRefusal,
              PutArtifact, Insert, Fails, gallery, history
<1>5. ASSUME \/ \E shown \in Faces : SearchGallery(shown)
             \/ SearchUnrecorded
      PROVE  UNCHANGED <<drawn, faces, trail>> /\ (SearchUnrecorded => look' = NoSearch)
  BY <1>5 DEF SearchGallery, SearchUnrecorded, gallery, history
<1>6. CASE SearchRecorded
  BY <1>6 DEF SearchRecorded, history
<1>7. ASSUME NEW subject \in Subjects, DeleteSubject(subject)
      PROVE  UNCHANGED <<drawn, look>>
  BY <1>7 DEF DeleteSubject, history
<1>8. CASE UNCHANGED vars
  BY <1>8 DEF vars
<1> QED
  BY <1>1, <1>2, <1>3, <1>4, <1>5, <1>6, <1>7, <1>8 DEF Next

(* What is in the trail stays where it is. *)
LEMMA Appended ==
  ASSUME TypeOK, NEW entry, trail' = Append(trail, entry)
  PROVE  /\ Len(trail') = Len(trail) + 1 /\ Len(trail) \in Nat
         /\ trail'[Len(trail) + 1] = entry
         /\ \A i \in 1..Len(trail) : trail'[i] = trail[i]
<1>1. trail \in Seq(AuditEntry)
  BY DEF TypeOK
<1>2. /\ Len(Append(trail, entry)) = Len(trail) + 1 /\ Len(trail) \in Nat
      /\ Append(trail, entry)[Len(trail) + 1] = entry
      /\ \A i \in 1..Len(trail) : Append(trail, entry)[i] = trail[i]
  BY <1>1
<1> QED BY <1>2

(* No step rewrites an entry. *)
LEMMA TrailGrows ==
  ASSUME TypeOK, [Next]_vars
  PROVE  \A j \in 1..Len(trail) : j \in 1..Len(trail') /\ trail'[j] = trail[j]
<1>1. CASE trail' = trail
  BY <1>1
<1>2. CASE \E entry : trail' = Append(trail, entry)
  BY <1>2, Appended
<1>3. trail' = trail \/ \E entry : trail' = Append(trail, entry)
  BY GalleryFrame DEF Insert, RecordRefusal, SearchRecorded, DeleteSubject
<1> QED BY <1>1, <1>2, <1>3

(* Only an ENROLL entry names an id, and a refusal names none. *)
LEMMA TellsOneMore ==
  ASSUME TypeOK, NEW entry, trail' = Append(trail, entry)
  PROVE  Told' = Told \cup (IF entry.action = "ENROLL" THEN {entry.face} ELSE {})
<1>1. /\ Len(trail') = Len(trail) + 1 /\ Len(trail) \in Nat
      /\ trail'[Len(trail) + 1] = entry
      /\ \A i \in 1..Len(trail) : trail'[i] = trail[i]
  BY Appended
<1>2. ASSUME NEW id \in Told'
      PROVE  id \in Told \/ (entry.action = "ENROLL" /\ id = entry.face)
  <2>1. PICK i \in 1..Len(trail') : trail'[i].action = "ENROLL" /\ id = trail'[i].face
    BY DEF Told
  <2>2. i \in 1..Len(trail) \/ i = Len(trail) + 1
    BY <1>1
  <2> QED BY <1>1, <2>1, <2>2 DEF Told
<1>3. ASSUME NEW id \in Told
      PROVE  id \in Told'
  <2>1. PICK i \in 1..Len(trail) : trail[i].action = "ENROLL" /\ id = trail[i].face
    BY DEF Told
  <2>2. i \in 1..Len(trail') /\ trail'[i] = trail[i]
    BY <1>1
  <2> QED BY <2>1, <2>2 DEF Told
<1>4. entry.action = "ENROLL" => entry.face \in Told'
  <2>1. Len(trail) + 1 \in 1..Len(trail')
    BY <1>1
  <2> QED BY <1>1, <2>1 DEF Told
<1> QED BY <1>2, <1>3, <1>4

(* An audited face has its id in the trail. *)
LEMMA FacesAreTold == FacesAreAudited => \A f \in faces : f.id \in Told
<1> SUFFICES ASSUME FacesAreAudited, NEW f \in faces PROVE f.id \in Told
  OBVIOUS
<1>1. PICK i \in 1..Len(trail) : trail[i] = EnrollEntry(f)
  BY DEF FacesAreAudited
<1>2. trail[i].action = "ENROLL" /\ trail[i].face = f.id
  BY <1>1 DEF EnrollEntry
<1> QED BY <1>2 DEF Told

(* Only the insertion of a face puts a new id in the trail. *)
LEMMA ToldStep ==
  ASSUME TypeOK, [Next]_vars
  PROVE  \/ Told' \subseteq Told \cup {NoId}
         \/ \E r \in Requests : Insert(r)
<1>1. CASE trail' = trail
  BY <1>1 DEF Told
<1>2. ASSUME NEW entry, trail' = Append(trail, entry),
             entry.action = "ENROLL" => entry.face = NoId
      PROVE  Told' \subseteq Told \cup {NoId}
  BY <1>2, TellsOneMore
<1>3. CASE SearchRecorded
  BY <1>2, <1>3 DEF SearchRecorded, SearchEntry
<1>4. ASSUME NEW r \in Requests, RecordRefusal(r)
      PROVE  Told' \subseteq Told \cup {NoId}
  BY <1>2, <1>4 DEF RecordRefusal
<1>5. ASSUME NEW subject \in Subjects, DeleteSubject(subject)
      PROVE  Told' \subseteq Told \cup {NoId}
  <2>1. \A n : DeleteEntry(subject, n).action # "ENROLL"
    BY DEF DeleteEntry
  <2> QED BY <1>2, <1>5, <2>1 DEF DeleteSubject
<1> QED BY <1>1, <1>3, <1>4, <1>5, GalleryFrame

(* An id passes from the call that drew it to the entry, and to nothing else. *)
LEMMA IdsStep == TypeOK /\ IdsAreOwn /\ [Next]_vars => IdsAreOwn'
<1> SUFFICES ASSUME TypeOK, IdsAreOwn, [Next]_vars PROVE IdsAreOwn'
  OBVIOUS
<1>1. NoId \notin drawn
  BY EnrollmentAssumption DEF TypeOK
<1>2. ASSUME drawn \subseteq drawn', Told' \subseteq Told \cup {NoId},
             \A q \in Requests : Holds(req'[q]) => Holds(req[q]) /\ req'[q].id = req[q].id
      PROVE  IdsAreOwn'
  <2>1. Told' \subseteq drawn' \cup {NoId}
    BY <1>2 DEF IdsAreOwn
  <2>2. \A q \in Requests : Holds(req'[q]) => req'[q].id \in drawn' \ Told'
    BY <1>1, <1>2 DEF IdsAreOwn
  <2>3. \A p, q \in Requests :
          Holds(req'[p]) /\ Holds(req'[q]) /\ req'[p].id = req'[q].id => p = q
    BY <1>2 DEF IdsAreOwn
  <2> QED BY <2>1, <2>2, <2>3 DEF IdsAreOwn, Holds
<1>3. ASSUME NEW r \in Requests, NEW call, Goto(r, call)
      PROVE  req'[r] = call /\ \A q \in Requests : q # r => req'[q] = req[q]
  BY <1>3 DEF Goto, TypeOK
<1>4. drawn \subseteq drawn'
  BY GalleryFrame
<1>5. CASE req' = req /\ Told' \subseteq Told \cup {NoId}
  BY <1>2, <1>4, <1>5
<1>6. ASSUME NEW r \in Requests, EnrollStep(r), Told' \subseteq Told \cup {NoId}
      PROVE  IdsAreOwn'
  <2>1. CASE \/ \E t \in Tokens, subject \in Subjects : Enroll(r, t, subject)
             \/ Redeem(r) \/ Verify(r)
             \/ \E face \in Faces : Refused(r, face)
             \/ RecordRefusal(r) \/ Insert(r) \/ Fails(r)
    <3>1. \E call : Goto(r, call) /\ ~Holds(call)
      <4>1. ASSUME NEW stage \in Stages, NEW v, NEW s, At(r, stage)
            PROVE  /\ [req[r] EXCEPT !.stage = "verify", !.session = s, !.now = 0].stage = "verify"
                   /\ [req[r] EXCEPT !.stage = "match", !.verified = v].stage = "match"
                   /\ [req[r] EXCEPT !.stage = "refuse", !.verified = v].stage = "refuse"
        BY <4>1, CallsInFlight DEF EnrollCall
      <4>2. CASE \E t \in Tokens, subject \in Subjects : Enroll(r, t, subject)
        BY <4>2 DEF Enroll, Holds
      <4>3. CASE Redeem(r)
        BY <4>1, <4>3 DEF Redeem, Holds, Stages
      <4>4. CASE Verify(r)
        BY <4>1, <4>4 DEF Verify, Holds, Stages
      <4>5. CASE \E face \in Faces : Refused(r, face)
        BY <4>1, <4>5 DEF Refused, Holds, Stages
      <4>6. CASE RecordRefusal(r) \/ Insert(r) \/ Fails(r)
        BY <4>6 DEF RecordRefusal, Insert, Fails, Holds, NoCall
      <4> QED BY <2>1, <4>2, <4>3, <4>4, <4>5, <4>6
    <3> QED BY <1>2, <1>3, <1>4, <1>6, <3>1
  <2>2. ASSUME NEW face \in Faces, NEW id \in FaceIds, Matched(r, face, id)
        PROVE  IdsAreOwn'
    <3>1. req[r] \in EnrollCall
      BY <2>2, CallsInFlight DEF Matched, Stages
    <3>2. req'[r].id = id /\ \A q \in Requests : q # r => req'[q] = req[q]
      <4> DEFINE call == [req[r] EXCEPT
                           !.stage = IF StoreArtifacts THEN "store" ELSE "insert",
                           !.verified = NoFace, !.face = face, !.id = id]
      <4>1. Goto(r, call)
        BY <2>2 DEF Matched
      <4>2. call.id = id
        BY <3>1 DEF EnrollCall
      <4> HIDE DEF call
      <4> QED BY <1>3, <4>1, <4>2
    <3>3. drawn' = drawn \cup {id} /\ id \notin drawn /\ Told' = Told /\ id # NoId
      BY <2>2, EnrollmentAssumption DEF Matched, gallery, Told
    <3>4. \A q \in Requests : q # r /\ Holds(req'[q]) => req'[q].id \in drawn \ Told
      BY <3>2 DEF IdsAreOwn
    <3>5. id \notin Told
      BY <3>3 DEF IdsAreOwn
    <3>6. Told' \subseteq drawn' \cup {NoId}
      BY <3>3 DEF IdsAreOwn
    <3>7. \A q \in Requests : Holds(req'[q]) => req'[q].id \in drawn' \ Told'
      BY <3>2, <3>3, <3>4, <3>5
    <3>8. \A p, q \in Requests :
            Holds(req'[p]) /\ Holds(req'[q]) /\ req'[p].id = req'[q].id => p = q
      BY <3>2, <3>3, <3>4 DEF IdsAreOwn
    <3> QED BY <3>6, <3>7, <3>8 DEF IdsAreOwn, Holds
  <2>3. CASE PutArtifact(r)
    <3>1. req[r] \in EnrollCall
      BY <2>3, CallsInFlight DEF PutArtifact, Stages
    <3>2. Holds(req[r]) /\ req'[r].id = req[r].id /\ \A q \in Requests : q # r => req'[q] = req[q]
      BY <1>3, <2>3, <3>1 DEF PutArtifact, EnrollCall, Holds, At
    <3> QED BY <1>2, <1>4, <1>6, <3>2
  <2> QED BY <1>6, <2>1, <2>2, <2>3 DEF EnrollStep
<1>7. ASSUME NEW r \in Requests, Insert(r)
      PROVE  IdsAreOwn'
  <2>1. /\ ~Holds(req'[r]) /\ Holds(req[r])
        /\ \A q \in Requests : q # r => req'[q] = req[q]
    BY <1>3, <1>7 DEF Insert, Holds, NoCall, At
  <2>2. Told' = Told \cup {req[r].id} /\ drawn' = drawn
    <3>1. trail' = Append(trail, EnrollEntry(StoredFace(r))) /\ drawn' = drawn
      BY <1>7 DEF Insert
    <3>2. EnrollEntry(StoredFace(r)).action = "ENROLL" /\ EnrollEntry(StoredFace(r)).face = req[r].id
      BY DEF EnrollEntry, StoredFace
    <3> QED BY <3>1, <3>2, TellsOneMore
  <2>3. \A q \in Requests : Holds(req'[q]) => q # r /\ req'[q] = req[q]
    BY <2>1
  <2>4. Told' \subseteq drawn' \cup {NoId}
    BY <2>1, <2>2 DEF IdsAreOwn
  <2>5. \A q \in Requests : Holds(req'[q]) => req'[q].id \in drawn' \ Told'
    BY <2>1, <2>2, <2>3 DEF IdsAreOwn
  <2>6. \A p, q \in Requests :
          Holds(req'[p]) /\ Holds(req'[q]) /\ req'[p].id = req'[q].id => p = q
    BY <2>3 DEF IdsAreOwn
  <2> QED BY <2>4, <2>5, <2>6 DEF IdsAreOwn, Holds
<1> QED BY <1>5, <1>6, <1>7, StepFrame, ToldStep

(* The match of a search was a face, and every face has its entry. *)
LEMMA MatchStep ==
  TypeOK /\ FacesAreAudited /\ MatchIsEnrolled /\ [Next]_vars => MatchIsEnrolled'
<1> SUFFICES ASSUME TypeOK, FacesAreAudited, MatchIsEnrolled, [Next]_vars
             PROVE  MatchIsEnrolled'
  OBVIOUS
<1>1. CASE look' \in {look, NoSearch}
  BY <1>1, TrailGrows DEF MatchIsEnrolled, Enrolls
<1>2. ASSUME NEW shown \in Faces, SearchGallery(shown)
      PROVE  MatchIsEnrolled'
  <2>1. trail' = trail
    BY <1>2 DEF SearchGallery, gallery
  <2>2. CASE look' = NoMatch
    BY <2>2 DEF MatchIsEnrolled, NoMatch
  <2>3. ASSUME NEW f \in Best(shown), look' = [subject |-> f.subject, face |-> f.id]
        PROVE  MatchIsEnrolled'
    <3>1. PICK i \in 1..Len(trail) : trail[i] = EnrollEntry(f)
      BY FacesAreAudited DEF FacesAreAudited, Best
    <3>2. Enrolls(trail[i], look')
      BY <2>3, <3>1 DEF Enrolls, EnrollEntry
    <3>3. look'.face # NoId
      BY <2>3, EnrollmentAssumption DEF Best, TypeOK, FaceRecord
    <3> QED BY <2>1, <3>2, <3>3 DEF MatchIsEnrolled, Enrolls
  <2> QED BY <1>2, <2>2, <2>3 DEF SearchGallery
<1> QED BY <1>1, <1>2, GalleryFrame

(* An entry of a search tells no more than what it will report. *)
LEMMA SearchesStep ==
  TypeOK /\ MatchIsEnrolled /\ SearchesNameTheEnrolled /\ [Next]_vars
    => SearchesNameTheEnrolled'
<1> SUFFICES ASSUME TypeOK, MatchIsEnrolled, SearchesNameTheEnrolled, [Next]_vars
             PROVE  SearchesNameTheEnrolled'
  OBVIOUS
<1>1. CASE trail' = trail
  BY <1>1 DEF SearchesNameTheEnrolled
<1>2. ASSUME NEW entry, trail' = Append(trail, entry),
             entry.action = "SEARCH" /\ entry.face # NoId =>
               \E j \in 1..Len(trail) : Enrolls(trail[j], entry)
      PROVE  SearchesNameTheEnrolled'
  <2>1. /\ Len(trail') = Len(trail) + 1 /\ Len(trail) \in Nat
        /\ trail'[Len(trail) + 1] = entry
        /\ \A i \in 1..Len(trail) : trail'[i] = trail[i]
    BY <1>2, Appended
  <2>2. ASSUME NEW i \in 1..Len(trail'), trail'[i].action = "SEARCH", trail'[i].face # NoId
        PROVE  \E j \in 1..i : Enrolls(trail'[j], trail'[i])
    <3>1. CASE i \in 1..Len(trail)
      <4>1. \E j \in 1..i : Enrolls(trail[j], trail[i])
        BY <2>1, <2>2, <3>1 DEF SearchesNameTheEnrolled, Enrolls
      <4> QED BY <2>1, <3>1, <4>1
    <3>2. CASE i = Len(trail) + 1
      <4>1. PICK j \in 1..Len(trail) : Enrolls(trail[j], entry)
        BY <1>2, <2>1, <2>2, <3>2
      <4> QED BY <2>1, <3>2, <4>1
    <3> QED BY <2>1, <3>1, <3>2
  <2> QED BY <2>2 DEF SearchesNameTheEnrolled, Enrolls
<1>3. CASE SearchRecorded
  <2>1. /\ trail' = Append(trail, SearchEntry(look)) /\ look # NoSearch
        /\ SearchEntry(look).face = look.face /\ SearchEntry(look).subject = look.subject
    BY <1>3 DEF SearchRecorded, SearchEntry
  <2>2. SearchEntry(look).face # NoId =>
          \E j \in 1..Len(trail) : Enrolls(trail[j], SearchEntry(look))
    BY <2>1 DEF MatchIsEnrolled, Enrolls, NoMatch
  <2> QED BY <1>2, <2>1, <2>2
<1>4. ASSUME NEW r \in Requests, Insert(r)
      PROVE  SearchesNameTheEnrolled'
  <2>1. EnrollEntry(StoredFace(r)).action # "SEARCH"
    BY DEF EnrollEntry
  <2> QED BY <1>2, <1>4, <2>1 DEF Insert
<1>5. ASSUME NEW r \in Requests, RecordRefusal(r)
      PROVE  SearchesNameTheEnrolled'
  <2>1. \E entry : trail' = Append(trail, entry) /\ entry.action # "SEARCH"
    BY <1>5 DEF RecordRefusal
  <2> QED BY <1>2, <2>1
<1>6. ASSUME NEW subject \in Subjects, DeleteSubject(subject)
      PROVE  SearchesNameTheEnrolled'
  <2>1. \A n : DeleteEntry(subject, n).action # "SEARCH"
    BY DEF DeleteEntry
  <2> QED BY <1>2, <1>6, <2>1 DEF DeleteSubject
<1> QED BY <1>1, <1>3, <1>4, <1>5, <1>6, GalleryFrame

(* The gallery grows by one with each ENROLL entry and shrinks by what a DELETE  *)
(* entry says.                                                                   *)
LEMMA SumStep ==
  /\ TypeOK /\ CallsAreSound /\ FacesAreAudited /\ IdsAreOwn
  /\ Cardinality(faces) = Total(trail) /\ [Next]_vars
  => (Cardinality(faces) = Total(trail))'
<1> SUFFICES ASSUME TypeOK, CallsAreSound, FacesAreAudited, IdsAreOwn,
                    Cardinality(faces) = Total(trail), [Next]_vars
             PROVE  Cardinality(faces') = Total(trail')
  OBVIOUS
<1>1. IsFiniteSet(faces) /\ Cardinality(faces) \in Nat /\ trail \in Seq(AuditEntry)
  BY FS_CardinalityType DEF TypeOK
<1>2. ASSUME NEW entry \in AuditEntry, trail' = Append(trail, entry)
      PROVE  Total(trail') = Cardinality(faces) + Change(entry)
  BY <1>1, <1>2, TotalOfAppend
<1>3. CASE UNCHANGED <<faces, trail>>
  BY <1>3
<1>4. ASSUME NEW r \in Requests, Insert(r)
      PROVE  Cardinality(faces') = Total(trail')
  <2> DEFINE new == StoredFace(r)
             entry == EnrollEntry(new)
  <2>1. faces' = faces \cup {new} /\ trail' = Append(trail, entry) /\ Holds(req[r])
    BY <1>4 DEF Insert, At, Holds
  <2>2. new \notin faces
    <3>1. \A f \in faces : f.id \in Told
      BY FacesAreTold
    <3>2. new.id = req[r].id
      BY DEF StoredFace
    <3> QED BY <2>1, <3>1, <3>2 DEF IdsAreOwn
  <2>3. entry \in AuditEntry /\ Change(entry) = 1
    <3>1. req[r] \in EnrollCall
      BY <1>4, CallsInFlight DEF Insert, Stages
    <3>2. req[r].id \in FaceIds /\ req[r].session \in Sessions
      BY <1>4 DEF CallsAreSound, Sound, Redeemed, Insert, At
    <3> QED BY <3>1, <3>2 DEF StoredFace, EnrollEntry, EnrollCall, AuditEntry, Change
  <2> HIDE DEF new, entry
  <2>4. Cardinality(faces') = Cardinality(faces) + 1
    BY <1>1, <2>1, <2>2, FS_AddElement
  <2> QED BY <1>2, <2>1, <2>3, <2>4
<1>5. ASSUME NEW r \in Requests, RecordRefusal(r)
      PROVE  Cardinality(faces') = Total(trail')
  <2>1. req[r] \in EnrollCall
    BY <1>5, CallsInFlight DEF RecordRefusal, Stages
  <2>2. \E entry \in AuditEntry : trail' = Append(trail, entry) /\ Change(entry) = 0
    <3> DEFINE entry == [action |-> "ENROLL", outcome |-> "REFUSED",
                         subject |-> req[r].subject, face |-> NoId,
                         session |-> req[r].session, affected |-> 0]
    <3>1. entry \in AuditEntry /\ Change(entry) = 0
      BY <2>1 DEF EnrollCall, AuditEntry, Change
    <3>2. trail' = Append(trail, entry)
      BY <1>5 DEF RecordRefusal
    <3> QED BY <3>1, <3>2
  <2>3. faces' = faces
    BY <1>5 DEF RecordRefusal
  <2> QED BY <1>1, <1>2, <2>2, <2>3
<1>6. CASE SearchRecorded
  <2>1. look \in Match /\ trail' = Append(trail, SearchEntry(look)) /\ faces' = faces
    BY <1>6 DEF SearchRecorded, TypeOK
  <2>2. SearchEntry(look) \in AuditEntry /\ Change(SearchEntry(look)) = 0
    BY <2>1 DEF SearchEntry, Match, AuditEntry, Change
  <2> QED BY <1>1, <1>2, <2>1, <2>2
<1>7. ASSUME NEW subject \in Subjects, DeleteSubject(subject)
      PROVE  Cardinality(faces') = Total(trail')
  <2> DEFINE gone == FacesOf(subject)
             n == Cardinality(gone)
  <2>1. gone \subseteq faces
    BY DEF FacesOf
  <2>2. IsFiniteSet(gone) /\ n \in Nat
    BY <1>1, <2>1, FS_Subset, FS_CardinalityType
  <2>3. faces' = faces \ gone /\ trail' = Append(trail, DeleteEntry(subject, n))
    BY <1>7 DEF DeleteSubject
  <2> HIDE DEF gone
  <2>4. Cardinality(faces') = Cardinality(faces) - n
    <3>1. faces \cap gone = gone
      BY <2>1
    <3>2. Cardinality(faces \ gone) = Cardinality(faces) - Cardinality(faces \cap gone)
      BY <1>1, FS_Difference
    <3> QED BY <2>3, <3>1, <3>2
  <2> HIDE DEF n
  <2>5. DeleteEntry(subject, n) \in AuditEntry /\ Change(DeleteEntry(subject, n)) = -n
    BY <2>2 DEF DeleteEntry, AuditEntry, Change
  <2> QED BY <1>1, <1>2, <2>2, <2>3, <2>4, <2>5
<1> QED BY <1>3, <1>4, <1>5, <1>6, <1>7, GalleryFrame

(* The trail accounts for the gallery, and what that rests on, in every state. *)
THEOREM AccountsInvariance == Spec => []AInv
<1>1. Init => AInv
  <2> SUFFICES ASSUME Init PROVE AInv
    OBVIOUS
  <2>1. IdsAreOwn /\ MatchIsEnrolled
    BY DEF Init, IdsAreOwn, Told, Holds, NoCall, MatchIsEnrolled
  <2>2. SearchesNameTheEnrolled
    BY DEF Init, SearchesNameTheEnrolled
  <2>3. Cardinality(faces) = Total(trail)
    BY FS_EmptySet, TotalOfNothing DEF Init
  <2> QED BY <2>1, <2>2, <2>3 DEF AInv, TrailAccountsForGallery
<1>2. IInv /\ AInv /\ [Next]_vars => AInv'
  BY IdsStep, MatchStep, SearchesStep, SumStep DEF IInv, AInv, TrailAccountsForGallery
<1> QED BY <1>1, <1>2, EnrollmentInvariance, PTL DEF Spec

(* Whatever was enrolled, refused, searched and deleted, by however many calls   *)
(* at once, the trail alone gives the size of the gallery, and no search entry   *)
(* names a face no entry had enrolled.                                           *)
THEOREM TrailTellsTheGallery == Spec => []TrailAccountsForGallery
<1>1. AInv => TrailAccountsForGallery
  BY DEF AInv
<1> QED BY <1>1, AccountsInvariance, PTL

----------------------------------------------------------------------------
(* What the promised gallery sees of each step. *)
Used == {p[1] : p \in outcomes}

(* One more outcome is one more token used. *)
LEMMA OneMoreUsed ==
  ASSUME NEW t, NEW id, outcomes' = outcomes \cup {<<t, id>>}
  PROVE  Used' = Used \cup {t}
<1>1. ASSUME NEW u \in Used' PROVE u \in Used \cup {t}
  <2>1. PICK p \in outcomes' : u = p[1]
    BY DEF Used
  <2>2. CASE p = <<t, id>>
    BY <2>1, <2>2
  <2>3. CASE p \in outcomes
    BY <2>1, <2>3 DEF Used
  <2> QED BY <2>2, <2>3
<1>2. t \in Used'
  <2>1. <<t, id>> \in outcomes' /\ <<t, id>>[1] = t
    OBVIOUS
  <2> QED BY <2>1 DEF Used
<1>3. Used \subseteq Used'
  BY DEF Used
<1> QED BY <1>1, <1>2, <1>3

(* Every step of an enrolment is one of the gallery's, or one it does not see. *)
LEMMA EnrollStepKeepsThePromise ==
  ASSUME IInv, AInv, NEW r \in Requests, EnrollStep(r)
  PROVE  [Promised!GalleryNext]_(Promised!galleryVars)
<1>1. CASE \/ \E t \in Tokens, subject \in Subjects : Enroll(r, t, subject)
           \/ Redeem(r) \/ Verify(r)
           \/ \E face \in Faces, id \in FaceIds : Matched(r, face, id)
           \/ PutArtifact(r) \/ Fails(r)
  <2>1. UNCHANGED <<vouched, outcomes, faces, trail>>
    BY <1>1 DEF Enroll, Redeem, Verify, Matched, PutArtifact, Fails, gallery, history
  <2> QED BY <2>1 DEF Promised!galleryVars
<1>2. ASSUME NEW face \in Faces, Refused(r, face)
      PROVE  [Promised!GalleryNext]_(Promised!galleryVars)
  <2>1. req[r] \in EnrollCall /\ Redeemed(req[r]) /\ req[r].stage # "refuse"
    BY <1>2, CallsInFlight DEF IInv, Refused, Stages, At, Redeemed
  <2>2. PICK t \in Tokens \ Used : t = req[r].token
    BY <2>1 DEF IInv, TokensAreSpentOnce, Used, EnrollCall
  <2>3. UNCHANGED <<vouched, faces, trail>> /\ outcomes' = outcomes \cup {<<t, NoId>>}
    BY <1>2, <2>2 DEF Refused, gallery
  <2>4. Used' = Used \cup {t}
    BY <2>3, OneMoreUsed
  <2>5. Promised!Refuse(t)
    BY <2>3, <2>4 DEF Promised!Refuse, Promised!Use, Used
  <2> QED BY <2>5 DEF Promised!GalleryNext
<1>3. CASE RecordRefusal(r)
  <2>1. req[r] \in EnrollCall /\ req[r].session \in Sessions
    BY <1>3, CallsInFlight
    DEF IInv, RecordRefusal, Stages, At, CallsAreSound, Sound, Redeemed
  <2>2. req[r].subject \in Subjects
    BY <2>1 DEF EnrollCall
  <2>3. Promised!NoteRefusal(req[r].subject, req[r].session)
    BY <1>3 DEF RecordRefusal, Promised!NoteRefusal, Promised!Tell, Promised!Entry, history
  <2> QED BY <2>1, <2>2, <2>3 DEF Promised!GalleryNext
<1>4. CASE Insert(r)
  <2>1. req[r] \in EnrollCall /\ Redeemed(req[r]) /\ req[r].stage # "refuse" /\ Holds(req[r])
    BY <1>4, CallsInFlight DEF IInv, Insert, Stages, At, Redeemed, Holds
  <2>2. PICK t \in Tokens \ Used : t = req[r].token
    BY <2>1 DEF IInv, TokensAreSpentOnce, Used, EnrollCall
  <2>3. /\ req[r].id \in FaceIds /\ req[r].face \in Faces /\ req[r].session \in Sessions
        /\ Vouches(req[r].session, req[r].face)
    BY <1>4 DEF IInv, CallsAreSound, Sound, Redeemed, Insert, At
  <2>4. PICK new \in Promised!Face : new = StoredFace(r)
    BY <2>1, <2>3, EnrollmentAssumption DEF StoredFace, Promised!Face, EnrollCall
  <2>5. \E v \in vouched : v[1] = new.session /\ <<v[2], new.embedding>> \in SamePerson
    BY <2>3, <2>4 DEF Vouches, StoredFace
  <2>6. ~Promised!Named(new.id)
    <3>1. new.id = req[r].id
      BY <2>4 DEF StoredFace
    <3>2. new.id \notin Told
      BY <2>1, <3>1 DEF AInv, IdsAreOwn
    <3> QED BY <3>2 DEF Promised!Named, Told
  <2>7. /\ faces' = faces \cup {new} /\ trail' = Append(trail, EnrollEntry(new))
        /\ vouched' = vouched /\ outcomes' = outcomes \cup {<<t, req[r].id>>}
    BY <1>4, <2>2, <2>4 DEF Insert
  <2>8. Used' = Used \cup {t}
    BY <2>7, OneMoreUsed
  <2>9. Promised!Enrol(t, new)
    BY <2>5, <2>6, <2>7, <2>8
    DEF Promised!Enrol, Promised!Use, Promised!Tell, Promised!Entry, Used, EnrollEntry
  <2> QED BY <2>9 DEF Promised!GalleryNext
<1> QED BY <1>1, <1>2, <1>3, <1>4 DEF EnrollStep

(* Both specifications count with the same operator. *)
LEMMA SameCount == \A S : Promised!Cardinality(S) = Cardinality(S)
BY Zenon DEF Promised!Cardinality, Cardinality

(* And so is every other step. *)
LEMMA StepKeepsThePromise ==
  ASSUME IInv, AInv, [Next]_vars
  PROVE  [Promised!GalleryNext]_(Promised!galleryVars)
<1>1. ASSUME NEW s \in Sessions, NEW reference \in Faces, SessionPasses(s, reference)
      PROVE  [Promised!GalleryNext]_(Promised!galleryVars)
  <2>1. Promised!Vouch(s, reference)
    BY <1>1 DEF SessionPasses, Promised!Vouch, gallery
  <2> QED BY <2>1 DEF Promised!GalleryNext
<1>2. ASSUME \/ Tick
             \/ \E s \in Sessions :
                  \/ \E to \in {NoFace, Gone} : SessionTakenBack(s, to)
                  \/ CompletePasses(s)
                  \/ \E t \in Tokens : IssueToken(s, t)
                  \/ IssueFails(s)
             \/ \E before \in 0..MaxClock + 1 : PurgeTokens(before)
             \/ \E shown \in Faces : SearchGallery(shown)
             \/ SearchUnrecorded
             \/ UNCHANGED vars
      PROVE  [Promised!GalleryNext]_(Promised!galleryVars)
  <2>1. UNCHANGED <<vouched, outcomes, faces, trail>>
    BY <1>2 DEF Tick, SessionTakenBack, CompletePasses, IssueToken, IssueFails, PurgeTokens,
                SearchGallery, SearchUnrecorded, vars, gallery, history
  <2> QED BY <2>1 DEF Promised!galleryVars
<1>3. CASE SearchRecorded
  <2>1. /\ look \in Match /\ look # NoSearch /\ trail' = Append(trail, SearchEntry(look))
        /\ UNCHANGED <<vouched, outcomes, faces>>
    BY <1>3 DEF SearchRecorded, IInv, TypeOK, history
  <2>2. CASE look = NoMatch
    <3>1. Promised!Tell(Promised!Entry("SEARCH", "OK", NoSubject, NoId, NoSession, 0))
      BY <2>1, <2>2 DEF Promised!Tell, Promised!Entry, SearchEntry, NoMatch
    <3>2. Promised!NoteSearch
      BY <2>1, <3>1 DEF Promised!NoteSearch
    <3> QED BY <3>2 DEF Promised!GalleryNext
  <2>3. CASE look # NoMatch
    <3>1. look.face # NoId
      BY <2>1, <2>3 DEF AInv, MatchIsEnrolled
    <3>2. PICK i \in 1..Len(trail) : Enrolls(trail[i], look)
      BY <2>1, <2>3 DEF AInv, MatchIsEnrolled
    <3>3. Promised!Tell(Promised!Entry("SEARCH", "OK", trail[i].subject, trail[i].face, NoSession, 1))
      BY <2>1, <2>3, <3>2 DEF Promised!Tell, Promised!Entry, SearchEntry, Enrolls
    <3>4. Promised!NoteSearch
      BY <2>1, <3>1, <3>2, <3>3 DEF Promised!NoteSearch, Enrolls
    <3> QED BY <3>4 DEF Promised!GalleryNext
  <2> QED BY <2>2, <2>3
<1>4. ASSUME NEW subject \in Subjects, DeleteSubject(subject)
      PROVE  [Promised!GalleryNext]_(Promised!galleryVars)
  <2> DEFINE gone == {f \in faces : f.subject = subject}
  <2>1. FacesOf(subject) = gone
    BY DEF FacesOf
  <2>2. /\ faces' = faces \ gone /\ trail' = Append(trail, DeleteEntry(subject, Cardinality(gone)))
        /\ UNCHANGED <<vouched, outcomes>>
    BY <1>4, <2>1 DEF DeleteSubject, history
  <2>3. \A n : DeleteEntry(subject, n) = Promised!Entry("DELETE", "OK", subject, NoId, NoSession, n)
    BY DEF DeleteEntry, Promised!Entry
  <2>4. Cardinality(gone) = Promised!Cardinality(gone)
    BY SameCount
  <2>5. /\ faces' = faces \ gone
        /\ trail' = Append(trail, Promised!Entry("DELETE", "OK", subject, NoId, NoSession,
                                                Promised!Cardinality(gone)))
        /\ vouched' = vouched /\ outcomes' = outcomes
    BY <2>2, <2>3, <2>4
  <2>6. Promised!Forget(subject)
    BY <2>5 DEF Promised!Forget, Promised!Tell
  <2> QED BY <2>6 DEF Promised!GalleryNext
<1> QED BY <1>1, <1>2, <1>3, <1>4, EnrollStepKeepsThePromise DEF Next

(* The gallery as its readers may think of it: whatever is in flight, fails or    *)
(* expires, every change they see is one that Gallery allows.                     *)
THEOREM EnrollmentImplementsGallery == Spec => ImplementsGallery
<1>1. Init => Promised!GalleryInit
  BY DEF Init, Promised!GalleryInit
<1>2. IInv /\ AInv /\ [Next]_vars => [Promised!GalleryNext]_(Promised!galleryVars)
  BY StepKeepsThePromise
<1> QED BY <1>1, <1>2, EnrollmentInvariance, AccountsInvariance, PTL
    DEF Spec, ImplementsGallery, Promised!GallerySpec
=============================================================================
