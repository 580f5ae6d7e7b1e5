----------------------------- MODULE Enrollment -----------------------------
(***************************************************************************)
(* internal/enrollment with the tables and the object store behind it: a     *)
(* passed session earns a token, the token buys one enrollment of the face    *)
(* that session saw, and the audit trail accounts for the gallery.            *)
(*                                                                           *)
(* Enroll and Search are cut where they call the database, the object store   *)
(* or the analyzer: requests interleave there, and any call may fail.  A      *)
(* statement or a transaction of Postgres is one step.  The session table     *)
(* is the environment: it changes as module LivenessService shows it can.     *)
(* minted, drawn, vouched and outcomes are history variables.                 *)
(***************************************************************************)
EXTENDS Integers, Sequences, FiniteSets, SequencesExt

CONSTANTS
  Sessions, Tokens, Subjects, FaceIds,
  Faces, NoFace,      \* the descriptors a capture can give, and none
  Gone,               \* a session row that will not vouch again
  SamePerson,         \* pairs at least IdentityCosineMin alike
  Matches,            \* pairs at least MatchCosineMin alike
  Requests,           \* Enroll calls in flight
  TokenTTL,
  StoreArtifacts,
  NoToken, NoId, NoSubject, NoSession,
  MaxClock,           \* bound on the clock
  MaxTrail            \* bound on the trail, for searches and deletions

ASSUME EnrollmentAssumption ==
  /\ SamePerson \subseteq Faces \X Faces
  /\ Matches \subseteq Faces \X Faces
  /\ NoFace \notin Faces /\ Gone \notin Faces \cup {NoFace}
  /\ NoToken \notin [session : Sessions, expiresAt : Nat, spent : BOOLEAN]
  /\ NoId \notin FaceIds
  /\ NoSubject \notin Subjects
  /\ NoSession \notin Sessions
  /\ TokenTTL \in Nat \ {0}
  /\ StoreArtifacts \in BOOLEAN
  /\ MaxClock \in Nat
  /\ MaxTrail \in Nat

VARIABLES
  clock,
  sessions,    \* the reference of a row that reads PASSED, NoFace before, or Gone
  verdicts,    \* sessions a Complete handler has just found passed
  tokens,      \* liveness_tokens
  faces,       \* faces
  artifacts,   \* ids with an object under ArtifactKeyFor
  trail,       \* face_audit, in the order of its serial ids
  req,         \* Enroll calls
  look,        \* a Search call
  minted,      \* history: tokens ever issued
  drawn,       \* history: ids NewID has returned
  vouched,     \* history: <<session, reference>> of every row that read PASSED
  outcomes     \* history: <<token, what its enrollment came to>>

vars == <<clock, sessions, verdicts, tokens, faces, artifacts, trail, req, look,
          minted, drawn, vouched, outcomes>>

TokenRecord == [session : Sessions, expiresAt : Nat, spent : BOOLEAN]

FaceRecord ==
  [id : FaceIds, subject : Subjects, session : Sessions, embedding : Faces,
   artifact : BOOLEAN]

AuditEntry ==
  [action : {"ENROLL", "SEARCH", "DELETE"}, outcome : {"OK", "REFUSED"},
   subject : Subjects \cup {NoSubject}, face : FaceIds \cup {NoId},
   session : Sessions \cup {NoSession}, affected : Nat]

Stages == {"redeem", "verify", "match", "refuse", "store", "insert"}

(* The locals of an Enroll call: null until they are assigned, and again once    *)
(* they are not read any more (now, verified, and a refused face).               *)
EnrollCall ==
  [stage : Stages, token : Tokens, subject : Subjects, now : Nat,
   session : Sessions \cup {NoSession}, verified : Faces \cup {NoFace},
   face : Faces \cup {NoFace}, id : FaceIds \cup {NoId}]
NoCall == [stage |-> "idle"]

(* A Search call between its query and its entry: the match it will report. *)
Match == [subject : Subjects \cup {NoSubject}, face : FaceIds \cup {NoId}]
NoMatch == [subject |-> NoSubject, face |-> NoId]
NoSearch == [idle |-> TRUE]

TypeOK ==
  /\ clock \in Nat
  /\ sessions \in [Sessions -> Faces \cup {NoFace, Gone}]
  /\ verdicts \subseteq Sessions
  /\ tokens \in [Tokens -> TokenRecord \cup {NoToken}]
  /\ faces \subseteq FaceRecord /\ IsFiniteSet(faces)
  /\ artifacts \subseteq FaceIds
  /\ trail \in Seq(AuditEntry)
  /\ req \in [Requests -> EnrollCall \cup {NoCall}]
  /\ look \in Match \cup {NoSearch}
  /\ minted \subseteq Tokens
  /\ drawn \subseteq FaceIds
  /\ vouched \subseteq Sessions \X Faces
  /\ outcomes \subseteq Tokens \X (FaceIds \cup {NoId})

Init ==
  /\ clock = 0
  /\ sessions = [s \in Sessions |-> NoFace]
  /\ verdicts = {}
  /\ tokens = [t \in Tokens |-> NoToken]
  /\ faces = {}
  /\ artifacts = {}
  /\ trail = << >>
  /\ req = [r \in Requests |-> NoCall]
  /\ look = NoSearch
  /\ minted = {}
  /\ drawn = {}
  /\ vouched = {}
  /\ outcomes = {}

history == <<minted, drawn, vouched, outcomes>>
gallery == <<faces, artifacts, trail>>

Tick ==
  /\ clock < MaxClock
  /\ clock' = clock + 1
  /\ UNCHANGED <<sessions, verdicts, tokens, gallery, req, look, history>>

----------------------------------------------------------------------------
(* The session table, as sessionReferences reads it: only a passed row vouches. *)
(* An equal-version write can take a passed row back (LivenessService,           *)
(* TerminalIsFinal), to one that may still pass, with another reference, or,     *)
(* like the purge, to one that never will.                                       *)
SessionPasses(s, reference) ==
  /\ sessions[s] = NoFace
  /\ sessions' = [sessions EXCEPT ![s] = reference]
  /\ vouched' = vouched \cup {<<s, reference>>}
  /\ UNCHANGED <<clock, verdicts, tokens, gallery, req, look, minted, drawn, outcomes>>

SessionTakenBack(s, to) ==
  /\ sessions[s] \in Faces
  /\ sessions' = [sessions EXCEPT ![s] = to]
  /\ UNCHANGED <<clock, verdicts, tokens, gallery, req, look, history>>

----------------------------------------------------------------------------
(* Tokens.  Complete answers every call on a passed session with a verdict,    *)
(* and its handler issues a token for each; the two are separate statements.   *)
CompletePasses(s) ==
  /\ sessions[s] \in Faces
  /\ verdicts' = verdicts \cup {s}
  /\ UNCHANGED <<clock, sessions, tokens, gallery, req, look, history>>

(* Seeded defect: the lifetime is subtracted. *)
IssueBackdated(s, t) ==
  /\ s \in verdicts
  /\ t \notin minted
  /\ verdicts' = verdicts \ {s}
  /\ tokens' = [tokens EXCEPT ![t] =
                  [session |-> s, expiresAt |-> clock - TokenTTL, spent |-> FALSE]]
  /\ minted' = minted \cup {t}
  /\ UNCHANGED <<clock, sessions, gallery, req, look, drawn, vouched, outcomes>>

(* A token is 256 random bits: a minted one is never minted again. *)
IssueToken(s, t) ==
  /\ s \in verdicts
  /\ t \notin minted
  /\ verdicts' = verdicts \ {s}
  /\ tokens' = [tokens EXCEPT ![t] =
                  [session |-> s, expiresAt |-> clock + TokenTTL, spent |-> FALSE]]
  /\ minted' = minted \cup {t}
  /\ UNCHANGED <<clock, sessions, gallery, req, look, drawn, vouched, outcomes>>

(* The verdict stands without a token when issuing one fails. *)
IssueFails(s) ==
  /\ s \in verdicts
  /\ verdicts' = verdicts \ {s}
  /\ UNCHANGED <<clock, sessions, tokens, gallery, req, look, history>>

(* The cutoff is the caller's. *)
PurgeTokens(before) ==
  /\ tokens' = [t \in Tokens |->
                  IF tokens[t] # NoToken /\ tokens[t].expiresAt < before
                  THEN NoToken ELSE tokens[t]]
  /\ UNCHANGED <<clock, sessions, verdicts, gallery, req, look, history>>

----------------------------------------------------------------------------
(* Enroll. *)
At(r, stage) == req[r].stage = stage

Goto(r, call) == req' = [req EXCEPT ![r] = call]

Enroll(r, t, subject) ==
  /\ At(r, "idle")
  /\ Goto(r, [stage |-> "redeem", token |-> t, subject |-> subject, now |-> clock,
              session |-> NoSession, verified |-> NoFace, face |-> NoFace, id |-> NoId])
  /\ UNCHANGED <<clock, sessions, verdicts, tokens, gallery, look, history>>

(* Seeded defect: the token is looked up, and its row updated unconditionally. *)
RedeemUnconditionally(r) ==
  LET t == req[r].token IN
  /\ At(r, "redeem")
  /\ tokens[t] # NoToken
  /\ req[r].now < tokens[t].expiresAt
  /\ tokens' = [tokens EXCEPT ![t].spent = TRUE]
  /\ Goto(r, [req[r] EXCEPT !.stage = "verify", !.session = tokens[t].session, !.now = 0])
  /\ UNCHANGED <<clock, sessions, verdicts, gallery, look, history>>

(* The UPDATE that spends the token, before any other work. *)
Redeem(r) ==
  LET t == req[r].token IN
  /\ At(r, "redeem")
  /\ tokens[t] # NoToken
  /\ ~tokens[t].spent
  /\ req[r].now < tokens[t].expiresAt
  /\ tokens' = [tokens EXCEPT ![t].spent = TRUE]
  /\ Goto(r, [req[r] EXCEPT !.stage = "verify", !.session = tokens[t].session, !.now = 0])
  /\ UNCHANGED <<clock, sessions, verdicts, gallery, look, history>>

(* Only a row that reads PASSED now may vouch. *)
Verify(r) ==
  LET reference == sessions[req[r].session] IN
  /\ At(r, "verify")
  /\ reference \in Faces
  /\ Goto(r, [req[r] EXCEPT !.stage = "match", !.verified = reference])
  /\ UNCHANGED <<clock, sessions, verdicts, tokens, gallery, look, history>>

Refused(r, face) ==
  /\ At(r, "match")
  /\ <<req[r].verified, face>> \notin SamePerson
  /\ outcomes' = outcomes \cup {<<req[r].token, NoId>>}
  /\ Goto(r, [req[r] EXCEPT !.stage = "refuse", !.verified = NoFace])
  /\ UNCHANGED <<clock, sessions, verdicts, tokens, gallery, look, minted, drawn, vouched>>

(* Seeded defect: a token of a passed session is enough. *)
MatchedByTokenAlone(r, face, id) ==
  /\ At(r, "match")
  /\ id \notin drawn
  /\ drawn' = drawn \cup {id}
  /\ Goto(r, [req[r] EXCEPT !.stage = IF StoreArtifacts THEN "store" ELSE "insert",
                            !.verified = NoFace, !.face = face, !.id = id])
  /\ UNCHANGED <<clock, sessions, verdicts, tokens, gallery, look, minted, vouched, outcomes>>

(* Seeded defect: the row is written before the image. *)
MatchedRowFirst(r, face, id) ==
  /\ At(r, "match")
  /\ <<req[r].verified, face>> \in SamePerson
  /\ id \notin drawn
  /\ drawn' = drawn \cup {id}
  /\ Goto(r, [req[r] EXCEPT !.stage = "insert", !.verified = NoFace,
                            !.face = face, !.id = id])
  /\ UNCHANGED <<clock, sessions, verdicts, tokens, gallery, look, minted, vouched, outcomes>>

(* An id is 128 random bits: NewID returns none twice. *)
Matched(r, face, id) ==
  /\ At(r, "match")
  /\ <<req[r].verified, face>> \in SamePerson
  /\ id \notin drawn
  /\ drawn' = drawn \cup {id}
  /\ Goto(r, [req[r] EXCEPT !.stage = IF StoreArtifacts THEN "store" ELSE "insert",
                            !.verified = NoFace, !.face = face, !.id = id])
  /\ UNCHANGED <<clock, sessions, verdicts, tokens, gallery, look, minted, vouched, outcomes>>

(* recordRefusal, best effort: see Fails. *)
RecordRefusal(r) ==
  /\ At(r, "refuse")
  /\ trail' = Append(trail,
       [action |-> "ENROLL", outcome |-> "REFUSED", subject |-> req[r].subject,
        face |-> NoId, session |-> req[r].session, affected |-> 0])
  /\ Goto(r, NoCall)
  /\ UNCHANGED <<clock, sessions, verdicts, tokens, faces, artifacts, look, history>>

PutArtifact(r) ==
  /\ At(r, "store")
  /\ artifacts' = artifacts \cup {req[r].id}
  /\ Goto(r, [req[r] EXCEPT !.stage = "insert"])
  /\ UNCHANGED <<clock, sessions, verdicts, tokens, faces, trail, look, history>>

StoredFace(r) ==
  [id |-> req[r].id, subject |-> req[r].subject, session |-> req[r].session,
   embedding |-> req[r].face, artifact |-> StoreArtifacts]

EnrollEntry(f) ==
  [action |-> "ENROLL", outcome |-> "OK", subject |-> f.subject,
   face |-> f.id, session |-> f.session, affected |-> 1]

(* Seeded defect: the trail is written apart from the row, and lost. *)
InsertUnaudited(r) ==
  /\ At(r, "insert")
  /\ faces' = faces \cup {StoredFace(r)}
  /\ outcomes' = outcomes \cup {<<req[r].token, req[r].id>>}
  /\ Goto(r, NoCall)
  /\ UNCHANGED <<clock, sessions, verdicts, tokens, artifacts, trail, look, minted, drawn, vouched>>

(* The row and its entry are one transaction. *)
Insert(r) ==
  /\ At(r, "insert")
  /\ faces' = faces \cup {StoredFace(r)}
  /\ trail' = Append(trail, EnrollEntry(StoredFace(r)))
  /\ outcomes' = outcomes \cup {<<req[r].token, req[r].id>>}
  /\ Goto(r, NoCall)
  /\ UNCHANGED <<clock, sessions, verdicts, tokens, artifacts, look, minted, drawn, vouched>>

(* Every early return that changes nothing more, at whatever stage: an invalid *)
(* token, a row that is gone or not passed, an unusable image, a failed call,  *)
(* a refusal the trail could not take.  A call whose effect took place but     *)
(* whose answer was lost is that step and then this; a crash is this for       *)
(* every request.                                                              *)
Fails(r) ==
  /\ ~At(r, "idle")
  /\ Goto(r, NoCall)
  /\ UNCHANGED <<clock, sessions, verdicts, tokens, gallery, look, history>>

EnrollStep(r) ==
  \/ \E t \in Tokens, subject \in Subjects : Enroll(r, t, subject)
  \/ Redeem(r)
  \/ Verify(r)
  \/ \E face \in Faces : Refused(r, face)
  \/ \E face \in Faces, id \in FaceIds : Matched(r, face, id)
  \/ RecordRefusal(r)
  \/ PutArtifact(r)
  \/ Insert(r)
  \/ Fails(r)

----------------------------------------------------------------------------
(* Search: the match comes from the gallery as it was when it was queried, and  *)
(* is recorded later.  The index is approximate: it may miss every match.  A    *)
(* search of an empty gallery is answered at once and leaves no entry.          *)
Best(shown) == {f \in faces : <<shown, f.embedding>> \in Matches}

SearchGallery(shown) ==
  /\ look = NoSearch
  /\ faces # {}
  /\ look' \in {NoMatch} \cup {[subject |-> f.subject, face |-> f.id] : f \in Best(shown)}
  /\ UNCHANGED <<clock, sessions, verdicts, tokens, gallery, req, history>>

SearchEntry(best) ==
  [action |-> "SEARCH", outcome |-> "OK", subject |-> best.subject,
   face |-> best.face, session |-> NoSession,
   affected |-> IF best = NoMatch THEN 0 ELSE 1]

SearchRecorded ==
  /\ look # NoSearch
  /\ Len(trail) < MaxTrail
  /\ trail' = Append(trail, SearchEntry(look))
  /\ look' = NoSearch
  /\ UNCHANGED <<clock, sessions, verdicts, tokens, faces, artifacts, req, history>>

(* The caller has its answer although the entry could not be written. *)
SearchUnrecorded ==
  /\ look # NoSearch
  /\ look' = NoSearch
  /\ UNCHANGED <<clock, sessions, verdicts, tokens, gallery, req, history>>

----------------------------------------------------------------------------
FacesOf(subject) == {f \in faces : f.subject = subject}

DeleteEntry(subject, affected) ==
  [action |-> "DELETE", outcome |-> "OK", subject |-> subject,
   face |-> NoId, session |-> NoSession, affected |-> affected]

(* Seeded defect: the entry keeps the count its caller left at zero. *)
DeleteUncounted(subject) ==
  /\ Len(trail) < MaxTrail
  /\ faces' = faces \ FacesOf(subject)
  /\ trail' = Append(trail, DeleteEntry(subject, 0))
  /\ UNCHANGED <<clock, sessions, verdicts, tokens, artifacts, req, look, history>>

(* One transaction; a deletion that finds nothing is recorded too. *)
DeleteSubject(subject) ==
  /\ Len(trail) < MaxTrail
  /\ faces' = faces \ FacesOf(subject)
  /\ trail' = Append(trail, DeleteEntry(subject, Cardinality(FacesOf(subject))))
  /\ UNCHANGED <<clock, sessions, verdicts, tokens, artifacts, req, look, history>>

----------------------------------------------------------------------------
Next ==
  \/ Tick
  \/ \E s \in Sessions :
       \/ \E reference \in Faces : SessionPasses(s, reference)
       \/ \E to \in {NoFace, Gone} : SessionTakenBack(s, to)
       \/ CompletePasses(s)
       \/ \E t \in Tokens : IssueToken(s, t)
       \/ IssueFails(s)
  \/ \E before \in 0..MaxClock + 1 : PurgeTokens(before)
  \/ \E r \in Requests : EnrollStep(r)
  \/ \E shown \in Faces : SearchGallery(shown)
  \/ SearchRecorded
  \/ SearchUnrecorded
  \/ \E subject \in Subjects : DeleteSubject(subject)

Spec == Init /\ [][Next]_vars
----------------------------------------------------------------------------
(* A token comes to one thing at most: one enrolled face or one refusal,       *)
(* however many calls carry it and however late they are (Consume).            *)
OneOutcomePerToken ==
  \A p, q \in outcomes : p[1] = q[1] => p[2] = q[2]

(* Every face in the gallery is the person some passed row of its session had  *)
(* for reference, although the row may since have changed or gone: a token     *)
(* alone enrols nobody (service.go, "the check that gives the token its        *)
(* meaning").                                                                  *)
FacesWereVerified ==
  \A f \in faces : \E v \in vouched :
    v[1] = f.session /\ <<v[2], f.embedding>> \in SamePerson

(* No row promises an image that is not there, wherever an enrollment stopped. *)
ImagesAreThere == \A f \in faces : f.artifact => f.id \in artifacts

(* No template is in the gallery without the entry that tells who stored it.   *)
FacesAreAudited ==
  \A f \in faces : \E i \in 1..Len(trail) : trail[i] = EnrollEntry(f)

(* A search entry names only a face and subject an earlier entry enrolled,     *)
(* whatever was deleted between the query and the entry.                       *)
SearchesNameTheEnrolled ==
  \A i \in 1..Len(trail) :
    trail[i].action = "SEARCH" /\ trail[i].face # NoId =>
      \E j \in 1..i :
        /\ trail[j].action = "ENROLL"
        /\ trail[j].face = trail[i].face
        /\ trail[j].subject = trail[i].subject

(* The trail alone tells what became of the gallery: it holds as many faces as *)
(* were enrolled less those the deletions counted, and a search names only     *)
(* what some entry enrolled.                                                   *)
Change(entry) ==
  IF entry.action = "DELETE" THEN -entry.affected
  ELSE IF entry.action = "ENROLL" THEN entry.affected ELSE 0
Total(entries) == FoldSeq(LAMBDA entry, n : n + Change(entry), 0, entries)
TrailAccountsForGallery ==
  /\ Cardinality(faces) = Total(trail)
  /\ SearchesNameTheEnrolled

(* Behind all the calls in flight, their failures and the expiry of tokens       *)
(* there is the gallery its readers count on.                                    *)
Promised == INSTANCE Gallery WITH used <- {p[1] : p \in outcomes}
ImplementsGallery == Promised!GallerySpec

(* docs/API.md: after a refusal the subject has to verify again from the       *)
(* beginning.                                                                  *)
RefusalNeedsANewVerification ==
  \A i, j \in 1..Len(trail) :
    i < j /\ trail[i].outcome = "REFUSED" =>
      ~(trail[j].action = "ENROLL" /\ trail[j].session = trail[i].session)
=============================================================================
