# liveness-verifier: specifications, model checking and proofs

This directory is a verification development of the liveness verifier: a Go service
that issues a random sequence of challenges (blink, turn, nod, open the mouth) to a
subject in front of a camera, judges the frames a browser sends against them, and lets
a passed session back one enrolment in a face gallery.

* `*.tla` are the specifications, `MC*.tla` and `*.cfg` their instances for TLC,
  `*Proofs.tla` the theorems, checked by TLAPS.
* `PROJECT.json` lists the runs, the seeded defects each property catches, the source
  lines each definition models, the hazards and the findings.

Run one with `tlc -config MCLivenessService.cfg MCLivenessService.tla`, check one proof
module with `tlapm LivenessServiceProofs.tla`.

## 1. The system

| Component | Source | State | Operations | Interacts with |
|---|---|---|---|---|
| Session aggregate | `internal/liveness/session.go` | one record: state, challenge index, deadlines, last sequence number, recent hashes, duplicate streak, reference face, progress, retries, version | `NewSession`, `Begin`, `Advance`, `RetryChallenge`, `Fail`, `Expire` | called by the service |
| Replay guard | `internal/liveness/antireplay.go` | none of its own | `CheckRequest`, `CheckAnalysis`, `Record` | reads and writes the session |
| Challenge evaluator | `internal/liveness/evaluator.go` | `Session.Progress` | `Evaluate` | called once per analysed frame |
| Liveness service | `internal/liveness/service.go` | none between requests | `Start`, `SubmitFrame`, `Complete`, `Get`, `PurgeExpired` | repository, analyser, clock |
| Session repository | `internal/storage/postgres/session_repo.go` | table `liveness_sessions` | `Create`, `Get`, `Update` (version predicate), `DeleteExpired` | PostgreSQL |
| Analysis pipeline, model adapters, imaging | `internal/biometric`, `internal/imaging` | none | four inferences per frame | session pool |
| ONNX session pool, runtime | `internal/biometric/onnx/pool.go`, `runtime.go` | a channel of loaded copies per model; a process-wide reference count | `Acquire`, `Release`, `Use`, `Close`; `NewRuntime`, `LoadModel`, `Close` | request goroutines, shutdown |
| Enrolment | `internal/enrollment`, `token_store.go`, `face_repo.go`, `minio.go` | tokens, faces, audit log, artifacts | `Issue`, `Redeem`, `Enroll`, `Search`, `DeleteSubject` | passed sessions, object store |
| HTTP layer | `internal/httpapi` | none of its own | handlers behind middleware (recovery, timeout, rate, key), readiness | services |
| HTTP rate limiter | `internal/httpapi/ratelimit.go` | a token bucket per client address, the time of the last sweep | `allow`, `sweep` | every session endpoint |
| Server | `cmd/server` | listener, model runtime, database pool | start, signal, grace period, shutdown | everything above |
| Configuration | `internal/config` | none after `Load` | `Load` | the checks every component makes when it is built |
| Threshold calibration | `internal/calibrate`, `cmd/calibrate` | labelled measurements | `Sweep`, `AtFAR`, `AtFRR`, the equal-error point | an operator, offline |
| Model tools | `cmd/modelctl` | model directory, manifest | `download`, `verify`, `pin` | file system, network |
| Deployment | `deploy/deploy.sh` | release symlink, schema | deploy, health gate, roll back | server |
| Browser client | `web/static/app.js` | current session, one in-flight flag | capture loop | HTTP layer |

What is hard here:

* A request holds a **copy of the session across four model inferences**. Two requests
  for one session are two copies, and only the version predicate of `Update` stands
  between them.
* Two clocks run against a session (its lifetime and the active challenge's deadline)
  and a restart budget; they are read once per request, before the slow part.
* A challenge is satisfied by a **sequence** of frames judged against a reference that
  moves (the widest eye seen, the first pose), with restarts in between.
* A loaded model may be used by one goroutine at a time, and shutting down must neither
  free memory in use nor wait for ever.
* Enrolment spans three stores with no transaction over all of them.
* A start can fail half-way and a stop can come with requests in flight: what was
  acquired (database connections, the ONNX environment, the copies of a model) must go in
  an order in which nothing is used after it is freed and nobody waits for ever.
* A readiness probe runs its checks in goroutines that share one slice, while a stop may be
  closing what they ask.
* Downloading and pinning models is a sequence of file operations that may end after any
  of them, beside an upstream and a directory that change.
* The rate limiter reads the clock before it takes its lock.
* Values that are each in range must also be accepted, in combination, by components
  that make checks of their own.

`PROJECT.json` lists each such hazard at its line with the properties that cover it, and
says of those no property covers why not.

## 2. Modules

### Session (`Session.tla`)
The aggregate and the guard as operators from a session record to a session record, one
per method. Times are naturals. A face descriptor is a member of `Faces`, a perceptual
hash a member of `Pictures`; "cosine at least `IdentityCosineMin`" and "Hamming distance
below `PHashMinDistance`" are arbitrary relations (`SamePerson`, `Similar`) which are not
assumed transitive, as the real ones are not. `Outcomes` is what one frame can do to the
active challenge: it keeps of the evaluator only that a motion challenge needs an earlier
frame of the same attempt, which module Evaluator establishes (`StillnessEarnsNothing`).

### LivenessService (`LivenessService.tla`)
One stored row (`row`), the clock, and any number of `Requests`. A request takes three
steps with anything in between: `Get` reads the row (and checks the nonce; a wrong one
changes nothing and is no step), one of the decision actions reads the clock and
computes what will be written, `Update` or `UpdateRefused` executes
`UPDATE ... WHERE version <= $12`. The decisions are the paths of the handlers:

| Path in the source | Action |
|---|---|
| `SubmitFrame`: finished / past its lifetime or out of retries / restart | `FrameAfterTheEnd`, `FrameExpires`, `FrameRetries` |
| `SubmitFrame`: sequence replayed / no usable face / fatal verdict / recorded and evaluated | `FrameReplayed`, `FrameUnusable`, `FrameFatal`, `FrameAccepted` |
| `Complete` | `CompleteExpires`, `CompleteAnswers` |
| `Service.Get` | `StatusExpires`, `StatusAnswers` |
| `Start`, `PurgeExpired` | `Start`, `PurgeExpired` |
| cancellation, a broken model or database, a restart of the process | `Abandon` |

### SessionLifecycle (`SessionLifecycle.tla`)
What the rest of the system relies on: the table `legalTransitions`, challenges satisfied
one at a time and never taken back, restarts within budget, an end that is final until
the purge. `ImplementsLifecycle` maps the stored row onto it.

### Evaluator (`Evaluator.tla`)
`Evaluate` for the five kinds over integer measurements, the ratios in percent, with the
frames of the running attempt as a history variable. `Shown` says what each challenge
asks of those frames without the evaluator's memory; the properties compare the two.

### SessionPool (`SessionPool.tla`)
`Pool.Acquire`, `Release`, `Use` and `Close` with one step for each access to the atomic
flag or the channel, any number of goroutines using the pool and of goroutines closing
it. The channel's content is a set: its order does not matter, every session being a
copy of one model. The module is run inside Server, where main is the only closer; what
several closers do is in its proofs.

### HttpApi (`HttpApi.tla`) and Server (`Server.tla`)
HttpApi says of each endpoint what a request passes on its way in (`GatesOf`), which calls
its handler then makes (`CallsOf`), which of them may fail without changing the answer
(`BestEffort`) and the status each outcome is answered with, after
`mapLivenessError`, `mapEnrollmentError` and the middleware. Server composes it with
SessionPool and with `cmd/server`: one process from its configuration to its exit.

| Step in the source | Action |
|---|---|
| `config.Load`, `postgres.Open`, `onnx.NewRuntime` | `Configure`, `OpenDb`, `NewRuntime` |
| `LoadModel`: one session after another; any may not fit | `CreateSession`, `LoadFails`, `Loaded` |
| the adapters and pipeline, the services, the router; each may fail | `BuildAnalyzer`, `BuildService`, `BuildEnrollment`, `BuildRouter` |
| the signal; `ListenAndServe` fails | `Signal`, `ServeFails` |
| `Shutdown` returns; its context ends first | `Drains`, `GraceEnds` |
| `application.Close`: the pools, the environment, the database | `ClosePool`, `PoolClosed`, `CloseEnv`, `CloseDb`, `DbClosed` |
| a request at its gates, or refused by one | `Arrive` |
| an inference, in the pool's own steps | `Infer` |
| what needs nothing of the process: the stub, the object store | `Elsewhere` |
| a query: the connection taken, and given back | `Query`, `EndQuery` |
| the context ends while the request queues for a model | `OutOfTime` |
| a call finds the pool or the database closed | `PoolIsClosed`, `DbIsClosed` |
| a goroutine of `handleReadyz`: its check asked and answered, or refused by a closed pool | `Ask`, `Told`, `FindsDbClosed` |
| the mutex taken and the slice read; the name appended and the mutex released | `Lock`, `Note` |
| the answer; a panic and `Recoverer`; `RequestLogger` | `Reply`, `Panics`, `Logged` |

One model stands for the four, which are loaded and closed alike, and one inference for
those of an `Analyze`. A call that fails ends its request with `FaultStatus`, except the
best-effort ones (`CallFails`): `complete` answers without a token, `Search` without an audit
entry or a count of the gallery, and `Enroll` refuses whether or not the refusal is
recorded. `readyz` calls nothing itself: `Arrive` starts a goroutine for each check, and the
handler goes on when all have ended (`Checked`, the `WaitGroup`). The append is cut into its
read and its write, so that it is the mutex and nothing else that keeps one failure from
being lost behind another. When main has returned, a request that is still running simply
goes on: the process may end at any of its steps.

### RateLimiter (`RateLimiter.tla`)
One instance of the middleware: `allow` under its lock, with the sweep, and before it the
reading of the clock (`ReadClock`, `Allow`). Time is in ticks and a token is cut into as
many parts as a minute has ticks, so all is whole. `used`, a history variable, is an
independent account of what a client has had: a leaky bucket in real time, which knows
neither buckets nor sweeps.

### ModelStore (`ModelStore.tla`)
`modelctl download` and `modelctl pin`, with and without `-force`, over the model
directory, the temporary names and the manifest; one step per file operation (`Fetch`,
`Copied`, `Install`; for an archive `Extract`, `ExtractOne`, `RenameMember`, `Extracted`;
`SaveManifest`). A process may fail (`Fails`, with its deferred removals) or be killed
(`Killed`, without) between any two; upstream may publish other bytes and somebody else
may replace a file. A digest stands for the bytes it is of.

### Config (`Config.tla`), Calibration (`Calibration.tla`), MCOperators
Pure functions. Config is `Load` (every numeric variable with its default and range, all problems
at once, the cross-field rules) and, beside it, what each component refuses to be built
with. Numbers are in hundredths or seconds and `NaN` is a number no comparison holds of,
as in `ParseFloat`'s result. Calibration is `Sweep` with its candidates, `AtFAR`, `AtFRR`,
the equal-error point and the `sweep` command, over values at distance two, so that a
threshold can lie between two measurements. MCOperators builds up environments and
measurement files step by step.

### Enrollment (`Enrollment.tla`)
The enrolment service with the tables and the object store behind it. `Enroll` is cut at
every call to a store or the analyser, for that is where requests interleave and where a
failure or a crash leaves things half done; one SQL statement or transaction is one step.

| Step in the source | Action |
|---|---|
| `complete` handler: the verdict, then the token or its failure | `CompletePasses`, `IssueToken`, `IssueFails` |
| `Enroll` reads the clock once | `Enroll` |
| `Redeem`: one `UPDATE ... WHERE used_at IS NULL AND expires_at > now` | `Redeem` |
| `sessionReferences.ReferenceEmbedding`: the row must read PASSED now | `Verify` |
| analysis and identity check; refusal, or a new id | `Refused`, `RecordRefusal`, `Matched` |
| `storeArtifact`; `FaceRepo.Insert` (row and audit entry) | `PutArtifact`, `Insert` |
| every other return, a lost connection, a crash (at any stage) | `Fails` |
| `Search`: query, then its entry, best effort | `SearchGallery`, `SearchRecorded`, `SearchUnrecorded` |
| `DeleteSubject`; `TokenService.PurgeExpired` | `DeleteSubject`, `PurgeTokens` |

The session table is the environment (`SessionPasses`, `SessionTakenBack`). It is allowed
everything `LivenessService` shows it can do to a passed row, the lost updates of findings
1 and 2 included: a row that read PASSED may stop doing so, pass again with another
reference, or go. A call's locals are reset once they are not read any more. `minted`, `drawn`,
`vouched` and `outcomes` are history: tokens and ids ever made (256 and 128 random bits
are taken never to repeat), references that ever read PASSED, and what each token came to.

`Gallery.tla` is what all this promises to whoever reads the gallery and its audit trail,
with no requests, clocks or stores in it: a token comes to one face or one refusal; a face
appears under an id no entry has named, in one step with its entry, and is of a person some
passed session vouched for; a subject goes all at once, counted; a search entry names only
what was enrolled. `ImplementsGallery` instantiates it on `Enrollment`'s own faces, trail
and `vouched`, with `used` mapped to the tokens in `outcomes`. Redeeming, verifying, storing
an image, failing and purging are stutters there, wherever they stop. That every face has its
entry (`FacesAreAudited`) follows from it, and is a theorem of its own.

Operators whose comment begins "Seeded defect" are not part of the models. Each is a
plausible bug in the definition that follows it, and the property it is paired with in
`PROJECT.json` fails when it takes that definition's place.

## 3. Runs

Sizes are distinct states with two TLC workers.

| Run (cfg) | Question | Instance | Size |
|---|---|---|---|
| `concurrent_requests` (`MCLivenessService.cfg`) | what two racing requests cannot break | 2 requests, 2 challenges (one instant, one motion), 1 retry, lifetime 4, challenge timeout 1, sequence numbers 1..3, 1 face; requests are symmetric | 2,240,000 |
| `one_request` (`MCSerialClient.cfg`) | the lifecycle, sequence numbers, the reference and the still-image defence for a client with one request in flight | 1 request, 3 faces of which two pass for each other, 2 pictures, streak limit 2, window 2, lifetime 3 | 140,000 |
| `sessions_settle` (`MCSettles.cfg`) | does every session end | 2 requests, 1 challenge, under fairness, no symmetry | 220,000 |
| `evaluator` (`MCEvaluator.cfg`) | does the evaluator's memory credit exactly what the frames show | attempts of up to 5 of 7 frames, 3 pairs of ratios | 200,000 |
| `server` (`MCServer.cfg`) | does the process start, serve and stop without freeing what is in use, waiting for ever or misreporting its readiness | 2 requests, 2 copies of the model, stub and ONNX mode; probes with two checks, searches | 84,600 |
| `enrollment` (`MCEnrollment.cfg`) | what a token buys, and what the gallery and its trail owe each other | 1 session, 2 tokens, 2 `Enroll` calls, 2 faces, 2 ids, 1 subject, token lifetime 1, trail of 3; all sets are symmetric | 1,400,000 |
| `model_store` (`MCModelStore.cfg`) | what an interrupted `modelctl` leaves, and whether running it again repairs it | 3 artifacts (a file, an archive of two, one built locally), 2 versions of each, 2 interruptions or changes, from every partly pinned manifest | 474,000 |
| `rate_limiter` (`MCRateLimiter.cfg`) | who is admitted, who refused, and what is forgotten | 2 clients, 2 requests at once, budget 2 a minute of 4 ticks, sweep every 5, lock wait up to 1, 10 ticks | 700,000 |
| `operators` (`MCOperators.cfg`) | is what loads accepted by every component; are the thresholds reported the best there are | every pair of variables at five values around the ends of its range, junk and NaN; every file of up to 4 measurements at 4 values, with misspelt labels, in both directions | 78,500 |
| `terminal_is_final`, `challenges_stay_satisfied` | the documented promises with two requests | 2 requests, 2 faces, lifetime 2 | violated |
| `refusal_needs_a_new_verification` | the documented price of a refusal | as `enrollment`, 1 `Enroll` call at a time | violated |

Why the bounds are enough for the interesting cases:

* Two requests suffice for every lost update, because a write competes with one other
  write; sequence numbers 1..3 with a key-frame interval of 2 give key frames, others, and
  a replay after each; a lifetime of 4 with a challenge timeout of 1 lets the challenge's
  deadline pass before, with and after the session's, and a retry budget of 1 is used up
  and asked for again; one face is enough there (identity mismatches between three faces
  are in `one_request`); a streak limit of 2 is reached by usable and unusable frames.
* Five frames are a blink with a false start before it or a band frame inside it.
* In `server` two copies let one be in use while the other is in the channel or already
  taken back by `Close`, and both be made when the start fails; two requests then hold
  both, queue behind each other when `Close` has one, or are left behind by the grace period at
  different places. `search` makes each kind of call but the object store's: to the models, to the
  database, and one whose failure is only logged. The other handlers are such calls in other
  orders; together they multiply the states without adding a way to hold or wait for
  anything. Two checks are what `readinessChecks` asks about without an object store, and
  enough to lose one behind the other; the proofs are for every endpoint and with the
  third check.
* In the gallery, one session whose reference can change, two tokens and two calls give
  every race over a token, a session row and a subject; a clock that reaches the token
  lifetime lets a token expire before and after a call has read the clock.
* In `model_store` an archive of two can fail between its members, and two changes are a
  kill and then another upstream, or a replaced file and then a kill.
* In `rate_limiter` ten ticks are two sweeps and a bucket that is dropped, made again and
  emptied again; two requests at once are two readings of the clock out of order.
* In `operators` each cross-field rule relates two or three variables whose defaults satisfy it,
  and two that are given reach every side of it.

`MaxClock`, `Horizon` bound the clocks (in `Tick`'s and `Start`'s guards: a session is started only
while the clock has room to outlive it), `MaxFrames` the length of an attempt, `Seqs` the
sequence numbers, `MaxTrail` the searches and deletions recorded (never the enrolments and
refusals, which the tokens bound), `MaxChanges` the interruptions and outside changes,
`MaxGiven` and `MaxSamples` the inputs of the operators. Deadlock is not checked where the
system may simply stop: a purged session is not created again, a process exits, a clock
has reached its bound.

### Fairness
* `sessions_settle`: time passes (weak, `Tick`); somebody keeps asking (weak, `Get`), as
  the capture loop of `app.js` does until it is told the session is over; and a request's
  decision and write are strongly fair: not every one is cancelled or loses its
  connection. Without clients nothing ends a session but the purge.
* `server`: main and the handlers run when they can (weak); an inference ends and so does
  a query (weak), by its context's deadline at the latest; a goroutine queueing on the
  channel is not passed over for ever (strong, `Receive`), which the channel's first-come
  queue of receivers gives; the grace period ends, being a timer. That a signal comes,
  that anybody asks, that a queueing request runs out of time: never assumed.
* `model_store`: somebody runs `download` again and again (strong, `Start`), and a process
  that is not interrupted goes on (weak).

### What the runs found
1. **A stored terminal state is not final** (`TerminalIsFinal`). `version <= $12` accepts
   an equal version. Two requests read the same row; one fails it and the other expires,
   passes or restarts it; both reach the same version and the later write wins.
2. **A satisfied challenge can vanish** (`ChallengesStaySatisfied`). Recording a frame and
   moving to the next challenge do not change the version, so a stale write of an earlier
   frame overwrites them, which is what the comment on `Update` says cannot happen. The
   same traces take `LastSeq` back and replace the reference face: `SequenceNeverFalls`
   and `ReferenceIsFixed` hold with one request in flight and fail with two.
3. **A refused face does not cost a new verification** (`RefusalNeedsANewVerification`).
   Each `Complete` on a passed session issues a token, so the promise of `docs/API.md:347`
   holds of a token and not of a session.

The first two do not reach a client that, like `app.js`, has one request in flight:
`ImplementsLifecycle` is checked and proved for it.

### Observations that have no run
* A blink needs no consecutive shut frames: one between the two ratios does not reset
  `ClosedFrames` (`evaluator.go:155`; the comment at 37 and `session.go:83` say
  consecutive). `Shown` in module Evaluator states what is asked instead.
* `BlinkOpenRatio = 1` is accepted (`evaluator.go:55`, `config.go:294`), and then no blink
  can be completed, the reference being the widest eye seen.
* `NaN` passes the range check of a float (`config.go:470`) and every component's, and no
  measurement compares with it.
* `MARMouthOpen`, `MatchCosineMin` and `IdentityCosineMin` may load as zero, which the
  component that gets them refuses: the process stops at its next stage
  (`WhatLoadsIsBuilt` names the three).
* The default `ShutdownTimeout` (10 s) is shorter than the default `RequestTimeout` (20 s)
  and the two are not cross-checked: `GraceEnds` is reachable with a request that would
  still have been answered.
* A store or model fault on a session endpoint is answered 422, `mapLivenessError`'s
  default, where `docs/API.md` lists 500.
* The token bucket admits up to twice the budget in a minute (a burst and its refill),
  which is what the comment of `ratelimit.go` holds against fixed windows. The router
  makes two instances, so a client has two budgets; the gallery endpoints have none.
* Clock readings out of order can refuse a client one request early
  (`RefusedOnlyWhenSpent` allows the lock wait's worth), and a sweep can forget a bucket a
  lock wait short of full (`AdmittedWithinBudget` counts two per sweep).
* `AtFRR` lacks the guard that keeps `AtFAR` from reporting a threshold which treats
  everybody alike.
* Two `modelctl` processes at once share their temporary names; an artifact named like a
  member of an archive would too; a `pin` that fails midway leaves files newer than the
  manifest, which the next `download` repairs or `verify` reports.
* `SPEC.md:617` (B4) says `DELETE /v1/faces` removes the stored objects too. Nothing calls
  `ArtifactStore.Delete`, and `DeleteSubject` removes rows only, in the code as in
  Enrollment.
* Migration 00005 (line 18) says losing the session row must not invalidate a token that has
  not expired. `Enroll` then answers 410 (`enrollment/service.go:215`), and the token is spent: `Verify`
  in Enrollment.
* A search of an empty gallery leaves no audit entry (`enrollment/service.go:326`, against
  the comment at 337). Neither `PurgeExpired` has a caller, although `types.go:60` speaks
  of a schedule. `SET LOCAL hnsw.ef_search` (`face_repo.go:122`) runs outside a
  transaction and so does not reach the query.

## 4. Proofs

Constants are arbitrary subject to the assumptions of the modules, which are what
`Config.validate`, `Guard.Validate`, `Thresholds.Validate` and `Manifest.validate` enforce;
TLC evaluates them in every run. One is about names and not enforced: no artifact has the
name of a model file (see the observations).

**LivenessServiceProofs.** `IInv` is `TypeOK` and `EveryCopyIsSound`. The stored-row
invariants are not inductive: a write stores what some request computed long ago. What is
inductive is that *every copy*, stored or held, satisfies them (`Sound`), for then it does
not matter which copy is written last. Each method of the aggregate is shown to keep a
record typed and sound, then each action; from `Spec => []IInv` follow `TypeCorrect`,
`PassedMeansComplete`, `VersionCounts`, `IdentityComesFirst`, `BudgetsBound`,
`NoPassOnAStill`, and, from the guard of `Update`, `VersionMonotone`. These hold with any
number of racing requests.

Its second part is about one client. Under `SerialClient` (at most one request) a held copy was
computed from the row it will replace. With that as a further conjunct of the invariant,
every step of `LivenessService` is a step or a stutter of `SessionLifecycle`
(`SerialImplementsLifecycle`), and the sequence number and the reference keep their
promises (`SerialSequenceMonotone`, `SerialReferenceFixed`).

**EvaluatorProofs.** `Memory` ties `Progress` to the frames of the attempt: the peak
bounds every eye seen, the baseline is the first frame's pose, and behind `SawClose` is a
frame shut against the current peak. A satisfying blink frame is open against a peak at
least as wide, so it differs from that frame (`StillFaceEarnsNothing`). For the
equivalence with `Shown`, `CountsTheBlink` says exactly what a blink's counters are: with
`o` the last open frame, `ClosedFrames` is the number of shut ones after it, and no
stretch up to it has enough of them without an open one. (`HasWidest`, that every beginning of the
attempt has a widest eye, is carried along as part of the invariant.) Then a frame satisfies a challenge if and only if the attempt with
it shows the challenge (`CreditMeansShown`), whence `NoFrameTooLate` and `NoFrameTooSoon`,
for every threshold, any frames and attempts of any length. `RatioOfOneNeverBlinks` proves
one of the observations above: with the opening ratio at its upper limit no blink is ever
credited.

**SessionPoolProofs.** A session is in one place (`OneHolder`), and once the channel is
closed Close has received them all; hence nothing held is destroyed and nothing is sent
to a closed channel, for any number of closers.

**ServerProofs.** Every step of the server is a step of the pool or leaves it alone
(`StepsUseThePool`), so `ServerUsesThePool` carries the pool's theorems over. `ServerInv`
adds where the pool stands at each stage of main (`PoolOfMain`), who holds sessions and
connections (`Holdings`), where each request is (`Answers`) and what the goroutines of its
probe have recorded (`ProbeSound`): a goroutine that holds the mutex is alone in holding it
and has read all that was recorded before, so its write loses nothing, and a request that
is past its probe has no goroutine left. From it follow `EverythingUnwinds`,
`OrderlyStops` and `ProbesAreTrue` for any number of requests and sessions, any endpoints
and with or without an object store.

**RateLimiterProofs.** A bucket and the leaky bucket `used` are two accounts of the same
requests: as long as the bucket is kept they sum to a burst, up to what the lock wait
earns (`Balance`); a client without one has `used` nearly nothing (`Forgotten`). With a lock wait
of zero the bounds are exact.

**ModelStoreProofs.** `Working` says what is whole at each stage and `Checked` that
`download` has compared what it is about to install; hence `FilesAreWhole` and
`DownloadRepairs`. For `pin`, `Observed` says of every artifact dealt with that what is
remembered is on disk unless others changed it, whence `PinsAreOfTheDisk`.

**EnrollmentProofs.** The gallery's properties are about rows, but each row was a call's
local first. `CallsAreSound` says of a call at each stage what it has behind it: a
reference some passed row had, an image under its id. `TokensAreSpentOnce` adds that two
calls past `Redeem` never carry the same token, and that the token has come to nothing yet.
With these, `TokensBuyOneOutcome`, `GalleryWasVerified`, `ImagesAreKept` and
`GalleryIsAccountedFor` are inductive, for any number of sessions, calls, tokens and
faces, and whatever the session table does.

`TrailTellsTheGallery` needs more (`AInv`). That the gallery grows by exactly one with
each ENROLL entry rests on `IdsAreOwn`: an id a call holds was drawn by that call alone
and no entry has told of it yet, so `Insert` adds a row and never meets an old one, not even
one that has been deleted since. That a search entry names something enrolled rests on
`MatchIsEnrolled`: what a search is about to report has its entry, and the trail keeps it
when the face goes. Both were checked by TLC on the
instance of `enrollment` first. The sum itself is a fold, which takes the entries in an
order left open: `FoldExists`, `FoldOrder` and `FoldAgrees` show that there is such a
function, that the order does not matter and that only what it is given counts;
`TotalOfAppend` is then what each step needs.

`EnrollmentImplementsGallery` is the refinement, step by step
(`EnrollStepKeepsThePromise`, `StepKeepsThePromise`): `TokensAreSpentOnce` makes an insertion
or a refusal the token's first use, `CallsAreSound` finds the passed session behind a face,
`IdsAreOwn` its fresh id, and `MatchIsEnrolled` what a search entry names.

**OperatorsProofs.** The pure functions, for every input. Of Config, `LoadedIsBuilt`: the
ranges `Load` checks, variable by variable (`ThresholdsRanges`, `GuardRanges` and the
others), and its cross-field rules (`CrossRules`) imply every check a component makes, for
any integers, junk or NaN in any number of variables. Of Calibration, for files of any length, scales of
any length and both directions: between two neighbouring candidates nothing is
measured, so every threshold counts the same samples as a candidate (`EveryThresholdHasACandidate`),
whence `NoThresholdIsMissed`; and the best candidate for a rate is then the best threshold
(`AtFARIsBest`, `AtFRRIsBest`, `Closest`), whence `PointsAreBest`. `OperatorsInvariance` says that
what the behaviours of MCOperators build up are such inputs; `OnlyZeroesAreRefused`,
`SweepIsComplete` and `SweepPointsAreBest` are the run's three invariants.

Where these two modules need an induction (the least of a set of numbers, a sum over
sets), they take a smallest counterexample instead: `LeastOfNaturals` follows from the
naturals being well founded (`WFMin`), which needs no operator as a parameter.

Every safety property of the passing runs is stated by a theorem. Only model-checked: the
liveness properties (`SessionsSettle`, `EveryRequestIsAnswered`, `StopFinishes`,
`EventuallyVerified`), fairness and ENABLED being out of the prover's reach. No
module declares a recursive operator.

## 5. Not modelled

* Of the server: the `-migrate` and `-healthcheck` modes, which start no server, and a second
  signal, which kills the process and so is its taking no further step. Bodies, headers,
  request ids and the demo pages.
* `LoadModel` racing `Runtime.Close`: the server never does it.
* Two `modelctl` processes at once (see the observations).
* Deployment: a shell script with one actor and one order of steps, which a model would
  repeat line by line. That a failed health gate leaves the schema forward is among the hazards.
* Imaging, geometry and the model adapters: floating-point arithmetic on pixels and
  tensors. A pose that could not be estimated is an ordinary pose of zero to the evaluator.
* The page itself, SQL encoding, JSON, logging, CI, the load generator and the migrations:
  they carry no state of the protocol. Of the object store only `Put` is used.

In LivenessService and Enrollment, cancellation, failed inferences and database errors appear only as `Abandon` and
`Fails`; a write whose response is lost is `Update`, the client not being modelled beyond
the number of its requests.

## 6. Plan

Done: the session core, the evaluator, the pool and enrolment first, then the process that
serves them, the model store, the limiter, configuration and calibration, each checked, and
their safety properties proved.

Left, in order of worth:

1. Operators for the pure algorithms of the biometric pipeline: non-maximum suppression
   (no two kept boxes overlap, none is dropped but for a better one), the Hamming distance
   of perceptual hashes, the order of the pipeline's gates.
2. An evaluator whose frames may lack a pose (`pipeline.go:161`), with the property that an
   unmeasured pose never completes a turn; it needs a history of what the camera saw.
