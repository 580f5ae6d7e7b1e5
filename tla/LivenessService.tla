-------------------------- MODULE LivenessService --------------------------
(***************************************************************************)
(* internal/liveness/service.go over internal/storage/postgres's           *)
(* session_repo.go: one session row and the requests in flight against it.  *)
(*                                                                          *)
(* A handler reads the row, reads the clock and decides, and writes the     *)
(* whole row back: three steps, with any other request's steps between      *)
(* them.  The frame is analysed (four model inferences) between the second  *)
(* and the third.  An in-flight request that is cancelled, times out, hits  *)
(* a broken model or dies with the process is dropped without a write.      *)
(***************************************************************************)
EXTENDS Session

CONSTANTS
  Requests,   \* the requests that can be in flight at once
  Seqs,       \* the sequence numbers a frame can carry; the handler refuses <= 0
  MaxClock,   \* bound on the clock
  NoSession

ASSUME ServiceAssumption ==
  /\ Seqs \subseteq Nat \ {0}
  /\ MaxClock \in Nat
  /\ NoSession \notin SessionRecord

VARIABLES
  clock,      \* Clock.Now
  started,    \* whether Start has run; a purged session is never created again
  row,        \* the stored session, or NoSession
  req         \* what each request holds

vars == <<clock, started, row, req>>

(* The operations that reach the service with the session's nonce.  A wrong   *)
(* nonce returns before anything is changed and is not a step.                *)
Ops == {"frame", "complete", "status"}

Idle == [pc |-> "idle"]

Reading(op, s) == [pc |-> "read", op |-> op, session |-> s]

Saving(s) == [pc |-> "save", session |-> s]

RequestRecord ==
  {Idle} \cup [pc : {"read"}, op : Ops, session : SessionRecord]
         \cup [pc : {"save"}, session : SessionRecord]

TypeOK ==
  /\ clock \in Nat
  /\ started \in BOOLEAN
  /\ row \in SessionRecord \cup {NoSession}
  /\ req \in [Requests -> RequestRecord]

Init ==
  /\ clock = 0
  /\ started = FALSE
  /\ row = NoSession
  /\ req = [r \in Requests |-> Idle]

----------------------------------------------------------------------------
Tick ==
  /\ clock < MaxClock
  /\ clock' = clock + 1
  /\ UNCHANGED <<started, row, req>>

(* Service.Start, SessionRepo.Create.  The model starts a session while its   *)
(* clock still has room to outlive it.                                        *)
Start ==
  /\ ~started
  /\ clock + TTL < MaxClock
  /\ started' = TRUE
  /\ \E challenges \in ChallengeSets : row' = NewSession(clock, challenges)
  /\ UNCHANGED <<clock, req>>

(* SessionRepo.Get and authorise. *)
Get(r) ==
  /\ req[r].pc = "idle"
  /\ row # NoSession
  /\ \E op \in Ops : req' = [req EXCEPT ![r] = Reading(op, row)]
  /\ UNCHANGED <<clock, started, row>>

Deciding(r, op) == req[r].pc = "read" /\ req[r].op = op

ToSave(r, s) ==
  /\ req' = [req EXCEPT ![r] = Saving(s)]
  /\ UNCHANGED <<clock, started, row>>

Reply(r) ==
  /\ req' = [req EXCEPT ![r] = Idle]
  /\ UNCHANGED <<clock, started, row>>

----------------------------------------------------------------------------
(* SubmitFrame, from the clock reading to the session it will write. *)

FrameAfterTheEnd(r) ==
  /\ Deciding(r, "frame")
  /\ Terminal(req[r].session.state)
  /\ Reply(r)

(* The session's own lifetime, checked before the retry budget is consulted,  *)
(* or a missed challenge with the budget spent.                               *)
FrameExpires(r) ==
  LET s == req[r].session IN
  /\ Deciding(r, "frame")
  /\ ~Terminal(s.state)
  /\ \/ SessionExpired(s, clock)
     \/ ChallengeExpired(s, clock) /\ s.retries >= MaxChallengeRetries
  /\ ToSave(r, Expire(s))

(* Seeded defect: the budget is compared after it is spent. *)
FrameRetriesOnceTooOften(r) ==
  LET s == req[r].session IN
  /\ Deciding(r, "frame")
  /\ ~Terminal(s.state)
  /\ ~SessionExpired(s, clock)
  /\ ChallengeExpired(s, clock)
  /\ s.retries <= MaxChallengeRetries
  /\ ToSave(r, RetryChallenge(s, clock))

FrameRetries(r) ==
  LET s == req[r].session IN
  /\ Deciding(r, "frame")
  /\ ~Terminal(s.state)
  /\ ~SessionExpired(s, clock)
  /\ ChallengeExpired(s, clock)
  /\ s.retries < MaxChallengeRetries
  /\ ToSave(r, RetryChallenge(s, clock))

FrameInTime(r) ==
  /\ Deciding(r, "frame")
  /\ ~Terminal(req[r].session.state)
  /\ ~Expired(req[r].session, clock)

FrameReplayed(r, seq) ==
  LET s == Begin(req[r].session) IN
  /\ FrameInTime(r)
  /\ SequenceReplayed(s, seq)
  /\ ToSave(r, Fail(s))

(* No face, or quality too low: the sequence number is consumed all the same. *)
FrameUnusable(r, seq, picture) ==
  LET s == Begin(req[r].session) IN
  /\ FrameInTime(r)
  /\ ~SequenceReplayed(s, seq)
  /\ ToSave(r, Record(s, seq, picture, NoFace))

FrameFatal(r, seq, picture, face, spoof) ==
  LET s == Begin(req[r].session) IN
  /\ FrameInTime(r)
  /\ ~SequenceReplayed(s, seq)
  /\ FatalAnalysis(s, picture, face, spoof)
  /\ ToSave(r, Fail(s))

FrameAccepted(r, seq, picture, face, spoof) ==
  LET s == Begin(req[r].session) IN
  /\ FrameInTime(r)
  /\ ~SequenceReplayed(s, seq)
  /\ ~FatalAnalysis(s, picture, face, spoof)
  /\ \E outcome \in Outcomes(s) :
       ToSave(r, Accept(s, clock, seq, picture, face, outcome))

SubmitFrame(r) ==
  \/ FrameAfterTheEnd(r)
  \/ FrameExpires(r)
  \/ FrameRetries(r)
  \/ \E seq \in Seqs :
       \/ FrameReplayed(r, seq)
       \/ \E picture \in Pictures :
            \/ FrameUnusable(r, seq, picture)
            \/ \E face \in Faces, spoof \in BOOLEAN :
                 \/ FrameFatal(r, seq, picture, face, spoof)
                 \/ FrameAccepted(r, seq, picture, face, spoof)

----------------------------------------------------------------------------
(* Complete: a verdict for a finished session, expiry for a late one, and a   *)
(* refusal while challenges remain.  A session with nothing remaining that is *)
(* not terminal would be advanced and saved.                                  *)
CompleteExpires(r) ==
  LET s == req[r].session IN
  /\ Deciding(r, "complete")
  /\ ~Terminal(s.state)
  /\ Expired(s, clock)
  /\ ToSave(r, Expire(s))

CompleteAnswers(r) ==
  LET s == req[r].session IN
  /\ Deciding(r, "complete")
  /\ Terminal(s.state) \/ ~Expired(s, clock)
  /\ IF Terminal(s.state) \/ ~AllComplete(s)
     THEN Reply(r)
     ELSE ToSave(r, Advance(s, clock))

Complete(r) == CompleteExpires(r) \/ CompleteAnswers(r)

(* Service.Get: reading the status ends a session past its lifetime, and only *)
(* that; a missed challenge is left for the frame path.                       *)
StatusExpires(r) ==
  LET s == req[r].session IN
  /\ Deciding(r, "status")
  /\ ~Terminal(s.state)
  /\ SessionExpired(s, clock)
  /\ ToSave(r, Expire(s))

StatusAnswers(r) ==
  LET s == req[r].session IN
  /\ Deciding(r, "status")
  /\ Terminal(s.state) \/ ~SessionExpired(s, clock)
  /\ Reply(r)

Status(r) == StatusExpires(r) \/ StatusAnswers(r)

Decide(r) == SubmitFrame(r) \/ Complete(r) \/ Status(r)

----------------------------------------------------------------------------
(* SessionRepo.Update: UPDATE ... WHERE id = $1 AND version <= $12. *)
Overwrites(s) == row # NoSession /\ row.version <= s.version

Update(r) ==
  /\ req[r].pc = "save"
  /\ Overwrites(req[r].session)
  /\ row' = req[r].session
  /\ req' = [req EXCEPT ![r] = Idle]
  /\ UNCHANGED <<clock, started>>

(* ErrVersionConflict or ErrSessionNotFound: nothing was written. *)
UpdateRefused(r) ==
  /\ req[r].pc = "save"
  /\ ~Overwrites(req[r].session)
  /\ Reply(r)

(* The request dies: cancelled, out of time, a broken model or database, a    *)
(* process restart.                                                           *)
Abandon(r) ==
  /\ req[r].pc # "idle"
  /\ Reply(r)

(* SessionRepo.DeleteExpired with a cutoff that is not in the future. *)
PurgeExpired(before) ==
  /\ row # NoSession
  /\ row.expiresAt < before
  /\ row' = NoSession
  /\ UNCHANGED <<clock, started, req>>

Next ==
  \/ Tick
  \/ Start
  \/ \E before \in 0..clock : PurgeExpired(before)
  \/ \E r \in Requests :
       Get(r) \/ Decide(r) \/ Update(r) \/ UpdateRefused(r) \/ Abandon(r)

Spec == Init /\ [][Next]_vars
(* What the scheduling gives: time passes, a handler that has started is      *)
(* eventually run to an answer on some attempt (not every one is cancelled),  *)
(* and a client keeps asking until it is told the session is over, as the     *)
(* capture loop of web/static/app.js does.                                    *)
Fairness ==
  /\ WF_vars(Tick)
  /\ WF_vars(\E r \in Requests : Get(r))
  /\ \A r \in Requests : SF_vars(Decide(r)) /\ SF_vars(Update(r) \/ UpdateRefused(r))

FairSpec == Spec /\ Fairness

----------------------------------------------------------------------------
(* Properties of the stored row, with any number of requests in flight. *)

Stored(P(_)) == row # NoSession => P(row)

(* A session reads PASSED exactly when no challenge remains: no write, however *)
(* stale, stores a pass with a challenge outstanding, and the branch Complete   *)
(* keeps for "AllComplete without a terminal state" is never needed.            *)
CompleteIffPassed(s) == s.state = "PASSED" <=> AllComplete(s)
PassedIffComplete == Stored(CompleteIffPassed)

(* The version counts lifecycle transitions and restarts, and nothing else.   *)
(* It is therefore bounded by the retry budget, and two rows with one version *)
(* can differ by any number of recorded frames and satisfied challenges.      *)
VersionCount(s) ==
  s.version - s.retries \in
    CASE s.state = "PENDING"             -> {0}
      [] s.state = "IN_PROGRESS"         -> {1}
      [] s.state \in {"PASSED", "FAILED"} -> {2}
      [] s.state = "EXPIRED"             -> {1, 2}
VersionCountsTransitions == Stored(VersionCount)

(* No challenge is satisfied, or even begun, before the session has a face to *)
(* compare the later key frames with; enrolment compares against it too.      *)
HasReference(s) ==
  s.current > 0 \/ s.progress = "begun" => s.reference # NoFace
IdentityBeforeProgress == Stored(HasReference)

(* Neither bound is spent past the other: the restarts stay in their budget,  *)
(* and no restart or advance is granted once the session's lifetime is over,  *)
(* so no deadline lies more than one challenge beyond it.                     *)
WithinBudget(s) ==
  /\ s.retries <= MaxChallengeRetries
  /\ s.deadline <= s.expiresAt + ChallengeTimeout
BudgetsBoundTheSession == Stored(WithinBudget)

(* A session never passes on a run of near-identical pictures as long as the  *)
(* limit, although unusable frames lengthen the run unchecked; and the stored *)
(* window of hashes stays bounded.                                            *)
NotAStill(s) ==
  /\ s.state = "PASSED" => s.duplicateStreak < MaxDuplicateStreak
  /\ Len(s.recentHashes) <= MaxRecentHashes
PassIsNotAStill == Stored(NotAStill)

(* The five hold of every copy of the session, stored or held by a request,   *)
(* however old: this is what makes them inductive.                            *)
Sound(s) ==
  /\ CompleteIffPassed(s)
  /\ VersionCount(s)
  /\ HasReference(s)
  /\ WithinBudget(s)
  /\ NotAStill(s)

EveryCopyIsSound ==
  /\ Stored(Sound)
  /\ \A r \in Requests : req[r].pc # "idle" => Sound(req[r].session)

(* Update never replaces a row by one with a smaller version. *)
VersionNeverFalls ==
  [][row # NoSession /\ row' # NoSession => row'.version >= row.version]_vars

(* While clients keep asking, every session ends for good: expiry needs no     *)
(* background job, and no stale write keeps bringing a session back.           *)
Settled == row = NoSession \/ Terminal(row.state)
SessionsSettle == <>[](started => Settled)

----------------------------------------------------------------------------
(* What the documentation of the session and of its repository promises of    *)
(* every history of the row.  With one request in flight at a time they hold; *)
(* with two they do not, because the version of an Update may equal the       *)
(* stored one.                                                                *)

(* "Every edge a session may take is here, and anything absent is refused":   *)
(* a stored terminal state is never left.                                     *)
TerminalIsFinal ==
  [][row # NoSession /\ row' # NoSession /\ Terminal(row.state)
       => row'.state = row.state]_vars

(* No write makes a satisfied challenge vanish. *)
ChallengesStaySatisfied ==
  [][row # NoSession /\ row' # NoSession => row'.current >= row.current]_vars

(* The highest sequence number accepted so far never falls, so no number is   *)
(* accepted twice.                                                            *)
SequenceNeverFalls ==
  [][row # NoSession /\ row' # NoSession => row'.lastSeq >= row.lastSeq]_vars

(* The reference is the descriptor of the first key frame, for good. *)
ReferenceIsFixed ==
  [][row # NoSession /\ row' # NoSession /\ row.reference # NoFace
       => row'.reference = row.reference]_vars

(* The stored row as a session lifecycle.  Lifecycle!LifecycleSpec holds of a  *)
(* client with one request in flight, which is how app.js drives a session:   *)
(* every write is then computed from the row it replaces.                      *)
LifecycleState ==
  IF row # NoSession THEN row.state ELSE IF started THEN "PURGED" ELSE "NONE"

Lifecycle == INSTANCE SessionLifecycle WITH
  state   <- LifecycleState,
  current <- IF row # NoSession THEN row.current ELSE 0,
  retries <- IF row # NoSession THEN row.retries ELSE 0

ImplementsLifecycle == Lifecycle!LifecycleSpec
============================================================================
