------------------------------ MODULE Gallery ------------------------------
(***************************************************************************)
(* What enrolment promises to whoever reads the gallery and its audit trail, *)
(* with no word of requests, clocks or stores: a token is good for one face   *)
(* or one refusal; a face appears under an id no entry has named, with its    *)
(* entry, and is of a person a passed session vouched for; a subject goes     *)
(* all at once, counted; and a search entry names only what was enrolled.     *)
(***************************************************************************)
EXTENDS Integers, Sequences, FiniteSets

CONSTANTS Tokens, Sessions, Subjects, FaceIds, Faces, SamePerson,
          NoId, NoSubject, NoSession

VARIABLES
  vouched,     \* <<session, reference>> of the sessions that passed
  used,        \* tokens that have come to something
  faces,
  trail

galleryVars == <<vouched, used, faces, trail>>

Face == [id : FaceIds, subject : Subjects, session : Sessions, embedding : Faces,
         artifact : BOOLEAN]

Entry(action, outcome, subject, face, session, affected) ==
  [action |-> action, outcome |-> outcome, subject |-> subject, face |-> face,
   session |-> session, affected |-> affected]

Tell(entry) == trail' = Append(trail, entry)

Named(id) == \E i \in 1..Len(trail) : trail[i].action = "ENROLL" /\ trail[i].face = id

GalleryInit == vouched = {} /\ used = {} /\ faces = {} /\ trail = << >>

Vouch(s, reference) ==
  /\ vouched' = vouched \cup {<<s, reference>>}
  /\ UNCHANGED <<used, faces, trail>>

Use(t) ==
  /\ t \notin used
  /\ used' = used \cup {t}

Enrol(t, f) ==
  /\ Tell(Entry("ENROLL", "OK", f.subject, f.id, f.session, 1))
  /\ Use(t)
  /\ ~Named(f.id)
  /\ \E v \in vouched : v[1] = f.session /\ <<v[2], f.embedding>> \in SamePerson
  /\ faces' = faces \cup {f}
  /\ UNCHANGED vouched

Refuse(t) ==
  /\ Use(t)
  /\ UNCHANGED <<vouched, faces, trail>>

(* Best effort, and so not part of Refuse. *)
NoteRefusal(subject, s) ==
  /\ Tell(Entry("ENROLL", "REFUSED", subject, NoId, s, 0))
  /\ UNCHANGED <<vouched, used, faces>>

NoteSearch ==
  /\ \/ Tell(Entry("SEARCH", "OK", NoSubject, NoId, NoSession, 0))
     \/ \E i \in 1..Len(trail) :
          /\ trail[i].action = "ENROLL" /\ trail[i].face # NoId
          /\ Tell(Entry("SEARCH", "OK", trail[i].subject, trail[i].face, NoSession, 1))
  /\ UNCHANGED <<vouched, used, faces>>

Forget(subject) ==
  LET gone == {f \in faces : f.subject = subject} IN
  /\ Tell(Entry("DELETE", "OK", subject, NoId, NoSession, Cardinality(gone)))
  /\ faces' = faces \ gone
  /\ UNCHANGED <<vouched, used>>

GalleryNext ==
  \/ \E s \in Sessions, reference \in Faces : Vouch(s, reference)
  \/ \E t \in Tokens, f \in Face : Enrol(t, f)
  \/ \E t \in Tokens : Refuse(t)
  \/ \E subject \in Subjects, s \in Sessions : NoteRefusal(subject, s)
  \/ \E subject \in Subjects : Forget(subject)
  \/ NoteSearch

GallerySpec == GalleryInit /\ [][GalleryNext]_galleryVars
=============================================================================
