------------------------------- MODULE Server -------------------------------
(***************************************************************************)
(* cmd/server: one process from its configuration to its exit, with what it  *)
(* acquires on the way (the database pool, the ONNX environment, the copies  *)
(* of the models) and the requests it serves, around internal/biometric/onnx. *)
(*                                                                           *)
(* One model stands for the four, which are loaded and closed alike; its pool *)
(* is SessionPool's, closed by main alone.  A request may query the database  *)
(* and run inferences as often as it likes, in any order.                     *)
(***************************************************************************)
EXTENDS SessionPool, HttpApi

CONSTANTS
  Main,
  Served   \* the endpoints the clients ask for

ASSUME ServerAssumption == Closers = {Main} /\ Served \subseteq Endpoints

VARIABLES
  at,      \* where main is
  mode,    \* Models.Mode
  code,    \* what run returns: "none" while it has not failed nor been told to stop
  env,     \* whether the ONNX environment is initialised (envRefs > 0)
  made,    \* the sessions whose native memory has been allocated
  db,      \* the database pool
  conns,   \* the requests that hold one of its connections
  req,     \* where each request is
  asked,   \* the endpoint it asked for
  left,    \* the calls its handler has still to make
  sent,    \* the status it was answered with
  probe,   \* where the goroutine of each of its readiness checks is
  failing, \* the checks its probe has recorded as failed
  seen,    \* what a goroutine has read of failing, under the probe's mutex
  cut      \* whether a call has failed because the process is closing

pool == vars
main == <<at, mode, code, env, made, db>>
request == <<req, asked, left, sent>>
probes == <<probe, failing, seen>>
requests == <<conns, request, probes, cut>>
serverVars == <<pool, main, requests>>

Stages == {"config", "open", "runtime", "load", "adapters", "service", "enrollment",
           "router", "listening", "draining", "closePool", "closeEnv", "closeDb",
           "awaitDb", "exited"}

(* readinessChecks: two of them take a connection of the pool. *)
Pooled == {"database", "schema"}
Checks == Pooled \cup (IF StoreArtifacts THEN {"object_store"} ELSE {})

Unprobed == [c \in Checks |-> "off"]

ServerTypeOK ==
  /\ TypeOK
  /\ at \in Stages
  /\ mode \in {"stub", "onnx"}
  /\ code \in {"none", "ok", "error"}
  /\ env \in BOOLEAN
  /\ made \subseteq Sessions
  /\ db \in {"none", "open", "closing", "closed"}
  /\ conns \subseteq Workers
  /\ req \in [Workers -> {"none", "busy", "answered"}]
  /\ asked \in [Workers -> Endpoints]
  /\ left \in [Workers -> Seq(Calls)]
  /\ sent \in [Workers -> Statuses \cup {0}]
  /\ probe \in [Workers -> [Checks ->
                  {"off", "started", "asking", "failed", "locked", "passed", "noted"}]]
  /\ failing \in [Workers -> SUBSET Checks]
  /\ seen \in [Workers -> [Checks -> SUBSET Checks]]
  /\ cut \in BOOLEAN

ServerInit ==
  /\ Init
  /\ at = "config" /\ mode \in {"stub", "onnx"} /\ code = "none"
  /\ env = FALSE /\ made = {} /\ db = "none"
  /\ conns = {} /\ cut = FALSE
  /\ req = [w \in Workers |-> "none"]
  /\ asked = [w \in Workers |-> "healthz"]
  /\ left = [w \in Workers |-> <<>>]
  /\ sent = [w \in Workers |-> 0]
  /\ probe = [w \in Workers |-> Unprobed]
  /\ failing = [w \in Workers |-> {}]
  /\ seen = [w \in Workers |-> [c \in Checks |-> {}]]

----------------------------------------------------------------------------
(* main, while it starts. *)
Reach(from, to) == at = from /\ at' = to

Returns(from, to) == Reach(from, to) /\ code' = "error"

(* application.Close, or fail in buildAnalyzer followed by it. *)
Closing == IF mode = "onnx" THEN "closePool" ELSE "closeDb"

Configure ==
  /\ \/ Reach("config", "open") /\ code' = code
     \/ Returns("config", "exited")
  /\ UNCHANGED <<pool, mode, env, made, db, requests>>

(* A pool that does not answer its ping is closed again by Open itself. *)
OpenDb ==
  /\ \/ /\ Reach("open", IF mode = "stub" THEN "service" ELSE "runtime")
        /\ db' = "open" /\ code' = code
     \/ /\ Returns("open", "exited")
        /\ db' = db
  /\ UNCHANGED <<pool, mode, env, made, requests>>

NewRuntime ==
  /\ \/ /\ Reach("runtime", "load")
        /\ env' = TRUE /\ code' = code
     \/ /\ Returns("runtime", "closeDb")
        /\ env' = env
  /\ UNCHANGED <<pool, mode, made, db, requests>>

CreateSession ==
  /\ at = "load"
  /\ \E s \in Sessions \ made : made' = made \cup {s}
  /\ UNCHANGED <<pool, at, mode, code, env, db, requests>>

(* Seeded defect: the copies made before the one that failed are not destroyed.    *)
LoadFailsKeeping ==
  /\ Returns("load", "closeEnv")
  /\ UNCHANGED <<pool, mode, env, made, db, requests>>

(* Any copy may not fit in memory: those made are destroyed, and the runtime, *)
(* which knows of no pool yet, is closed.                                     *)
LoadFails ==
  /\ Returns("load", "closeEnv")
  /\ made' = {}
  /\ UNCHANGED <<pool, mode, env, db, requests>>

Loaded ==
  /\ made = Sessions
  /\ Reach("load", "adapters")
  /\ UNCHANGED <<pool, mode, code, env, made, db, requests>>

(* One stage of the building succeeds, or undoes what the others did. *)
Builds(stage, next) ==
  /\ \/ Reach(stage, next) /\ code' = code
     \/ Returns(stage, Closing)
  /\ UNCHANGED <<pool, mode, env, made, db, requests>>

BuildAnalyzer == Builds("adapters", "service")
BuildService == Builds("service", "enrollment")
BuildEnrollment == Builds("enrollment", "router")
BuildRouter == Builds("router", "listening")

Build == BuildAnalyzer \/ BuildService \/ BuildEnrollment \/ BuildRouter

----------------------------------------------------------------------------
(* main, while it serves and stops.  A signal before it serves, or a second one, *)
(* kills the process: it just takes no further step.                            *)

(* Seeded defect: run returns without waiting for Shutdown. *)
SignalWithoutShutdown ==
  /\ Reach("listening", Closing)
  /\ code' = "ok"
  /\ UNCHANGED <<pool, mode, env, made, db, requests>>

(* The listener is closed, and Shutdown waits. *)
Signal ==
  /\ Reach("listening", "draining")
  /\ code' = "ok"
  /\ UNCHANGED <<pool, mode, env, made, db, requests>>

ServeFails ==
  /\ Returns("listening", Closing)
  /\ UNCHANGED <<pool, mode, env, made, db, requests>>

Drains ==
  /\ \A w \in Workers : req[w] = "none"
  /\ Reach("draining", Closing)
  /\ UNCHANGED <<pool, mode, code, env, made, db, requests>>

(* The grace period is over with requests in flight: they are left behind. *)
GraceEnds ==
  /\ Returns("draining", Closing)
  /\ UNCHANGED <<pool, mode, env, made, db, requests>>

ClosePool ==
  /\ at = "closePool"
  /\ Swap(Main) \/ Close(Main)
  /\ UNCHANGED <<main, requests>>

PoolClosed ==
  /\ pc[Main] = "closed"
  /\ Reach("closePool", "closeEnv")
  /\ UNCHANGED <<pool, mode, code, env, made, db, requests>>

CloseEnv ==
  /\ Reach("closeEnv", "closeDb")
  /\ env' = FALSE
  /\ UNCHANGED <<pool, mode, code, made, db, requests>>

NoConnectionOut ==
  conns = {} /\ \A w \in Workers, c \in Pooled : probe[w][c] # "asking"

(* pgxpool.Close refuses new queries and waits for the connections out. *)
CloseDb ==
  /\ Reach("closeDb", "awaitDb")
  /\ db' = "closing"
  /\ UNCHANGED <<pool, mode, code, env, made, requests>>

DbClosed ==
  /\ NoConnectionOut
  /\ Reach("awaitDb", "exited")
  /\ db' = "closed"
  /\ UNCHANGED <<pool, mode, code, env, made, requests>>

----------------------------------------------------------------------------
(* The requests.  Once main has returned they are let run on: the process may  *)
(* end at any of their steps.                                                  *)
Answer(w, status) ==
  /\ req' = [req EXCEPT ![w] = "answered"]
  /\ sent' = [sent EXCEPT ![w] = status]
  /\ left' = [left EXCEPT ![w] = <<>>]
  /\ UNCHANGED asked

(* The gates look at nothing but the request, and RateLimiter's buckets.  *)
Arrive(w) ==
  /\ at = "listening" /\ req[w] = "none"
  /\ \E endpoint \in Served :
       \/ /\ endpoint # "elsewhere"
          /\ req' = [req EXCEPT ![w] = "busy"]
          /\ asked' = [asked EXCEPT ![w] = endpoint]
          /\ \E calls \in CallsOf(endpoint) : left' = [left EXCEPT ![w] = calls]
          /\ probe' = IF endpoint = "readyz"
                      THEN [probe EXCEPT ![w] = [c \in Checks |-> "started"]] ELSE probe
          /\ UNCHANGED sent
       \/ \E status \in Refusals(endpoint) : Answer(w, status) /\ UNCHANGED probe
  /\ UNCHANGED <<pool, main, conns, failing, seen, cut>>

(* A probe waits for its checks, whatever they found. *)
Checked(w) == \A c \in Checks : probe[w][c] \in {"off", "passed", "noted"}

(* Between two calls. *)
Thinking(w) == req[w] = "busy" /\ pc[w] = "idle" /\ w \notin conns /\ Checked(w)

Calling(w) == Thinking(w) /\ left[w] # <<>>

Called(w) ==
  IF Head(left[w]) = "refusal" THEN Answer(w, EnrollmentStatus("identity_mismatch"))
  ELSE left' = [left EXCEPT ![w] = Tail(left[w])] /\ UNCHANGED <<req, asked, sent>>

(* A call that fails ends its request, unless it was best effort. *)
CallFails(w) ==
  IF Head(left[w]) \in BestEffort THEN Called(w)
  ELSE Answer(w, FaultStatus(asked[w], Head(left[w])))

CallEnds(w) == Called(w) \/ CallFails(w)

(* A panic, which Recoverer turns into an answer. *)
Crash(w) == Answer(w, 500)

NeedsModels(w) == Head(left[w]) = "models" /\ mode = "onnx"
NeedsDb(w) == Head(left[w]) \notin {"models", "store"}

(* The inferences of one Analyze, of which one stands for all.  Use releases what *)
(* it acquired however the inference ends.                                       *)
Infer(w) ==
  /\ req[w] = "busy" /\ w \notin conns /\ left[w] # <<>> /\ NeedsModels(w)
  /\ \/ Enter(w) /\ UNCHANGED request
     \/ Receive(w) /\ UNCHANGED request
     \/ ~closed /\ Recheck(w) /\ UNCHANGED request
     \/ Release(w) /\ (CallEnds(w) \/ Crash(w))
  /\ UNCHANGED <<main, conns, probes, cut>>

(* Timeout's context ends, or the client has left, while the request queues.       *)
OutOfTime(w) ==
  /\ GiveUp(w)
  /\ CallFails(w)
  /\ UNCHANGED <<main, conns, probes, cut>>

(* The three places where Acquire finds the pool closed. *)
CutOff(w) == (closed /\ Recheck(w)) \/ FindClosed(w)

PoolIsClosed(w) ==
  /\ \/ Calling(w) /\ NeedsModels(w) /\ closed /\ UNCHANGED pool
     \/ CutOff(w)
  /\ CallFails(w)
  /\ cut' = TRUE
  /\ UNCHANGED <<main, conns, probes>>

(* What needs nothing of the process: the object store, and the stub, which measures *)
(* nothing and cannot fail.                                                        *)
Elsewhere(w) ==
  /\ Calling(w) /\ ~NeedsModels(w) /\ ~NeedsDb(w)
  /\ IF Head(left[w]) = "store" THEN CallEnds(w) ELSE Called(w)
  /\ UNCHANGED <<pool, main, conns, probes, cut>>

Query(w) ==
  /\ Calling(w) /\ NeedsDb(w) /\ db = "open"
  /\ conns' = conns \cup {w}
  /\ UNCHANGED <<pool, main, request, probes, cut>>

(* An answer, an error, or a context that is done. *)
EndQuery(w) ==
  /\ w \in conns
  /\ conns' = conns \ {w}
  /\ CallEnds(w)
  /\ UNCHANGED <<pool, main, probes, cut>>

DbIsClosed(w) ==
  /\ Calling(w) /\ NeedsDb(w) /\ db # "open"
  /\ CallFails(w)
  /\ cut' = TRUE
  /\ UNCHANGED <<pool, main, conns, probes>>

(* The goroutines of a probe, one for each check, beside each other.           *)
Moves(w, c, from, to) == probe[w][c] = from /\ probe' = [probe EXCEPT ![w][c] = to]

Ask(w, c) ==
  /\ Moves(w, c, "started", "asking")
  /\ c \in Pooled => db = "open"
  /\ UNCHANGED <<pool, main, conns, request, failing, seen, cut>>

(* An answer, an error, or readinessTimeout's context is done. *)
Told(w, c) ==
  /\ Moves(w, c, "asking", "passed") \/ Moves(w, c, "asking", "failed")
  /\ UNCHANGED <<pool, main, conns, request, failing, seen, cut>>

FindsDbClosed(w, c) ==
  /\ Moves(w, c, "started", "failed")
  /\ c \in Pooled /\ db # "open"
  /\ cut' = TRUE
  /\ UNCHANGED <<pool, main, conns, request, failing, seen>>

(* Seeded defect: the slice is appended to without the mutex. *)
LockNothing(w, c) ==
  /\ Moves(w, c, "failed", "locked")
  /\ seen' = [seen EXCEPT ![w][c] = failing[w]]
  /\ UNCHANGED <<pool, main, conns, request, failing, cut>>

(* The append reads the slice and writes it back, under the probe's mutex. *)
Lock(w, c) ==
  /\ Moves(w, c, "failed", "locked")
  /\ \A other \in Checks : probe[w][other] # "locked"
  /\ seen' = [seen EXCEPT ![w][c] = failing[w]]
  /\ UNCHANGED <<pool, main, conns, request, failing, cut>>

Note(w, c) ==
  /\ Moves(w, c, "locked", "noted")
  /\ failing' = [failing EXCEPT ![w] = seen[w][c] \cup {c}]
  /\ seen' = [seen EXCEPT ![w][c] = {}]
  /\ UNCHANGED <<pool, main, conns, request, cut>>

Check(w, c) == Ask(w, c) \/ Told(w, c) \/ FindsDbClosed(w, c) \/ Lock(w, c) \/ Note(w, c)

(* All calls made, or the domain has said no after some. *)
Reply(w) ==
  /\ Thinking(w)
  /\ \/ /\ left[w] = <<>>
        /\ Answer(w, IF asked[w] = "readyz" THEN ReadinessStatus(failing[w])
                     ELSE Success(asked[w]))
     \/ \E status \in DomainErrors(asked[w]) : Answer(w, status)
  /\ UNCHANGED <<pool, main, conns, probes, cut>>

Panics(w) ==
  /\ Thinking(w)
  /\ Crash(w)
  /\ UNCHANGED <<pool, main, conns, probes, cut>>

(* RequestLogger has the status the client had, and the connection is idle. *)
Logged(w) ==
  /\ req[w] = "answered"
  /\ req' = [req EXCEPT ![w] = "none"]
  /\ asked' = [asked EXCEPT ![w] = "healthz"]
  /\ sent' = [sent EXCEPT ![w] = 0]
  /\ probe' = [probe EXCEPT ![w] = Unprobed]
  /\ failing' = [failing EXCEPT ![w] = {}]
  /\ UNCHANGED <<pool, main, conns, left, seen, cut>>

----------------------------------------------------------------------------
Handle(w) ==
  \/ Infer(w) \/ PoolIsClosed(w) \/ Elsewhere(w) \/ Query(w) \/ EndQuery(w)
  \/ DbIsClosed(w) \/ (\E c \in Checks : Check(w, c))
  \/ Reply(w) \/ Panics(w) \/ Logged(w)

Starting == Configure \/ OpenDb \/ NewRuntime \/ CreateSession \/ LoadFails \/ Loaded \/ Build

Stopping == Drains \/ GraceEnds \/ ClosePool \/ PoolClosed \/ CloseEnv \/ CloseDb \/ DbClosed

ServerNext ==
  \/ Starting \/ Signal \/ ServeFails \/ Stopping
  \/ \E w \in Workers : Arrive(w) \/ Handle(w) \/ OutOfTime(w)

ServerSpec == ServerInit /\ [][ServerNext]_serverVars

(* Goroutines that can run are run; an inference and a query end, the query by the *)
(* context's deadline at the latest; the channel serves its receivers in turn; the  *)
(* grace period ends.  That a request gives up queueing is not assumed.            *)
ServerFairness ==
  /\ WF_serverVars(Starting) /\ WF_serverVars(Stopping)
  /\ \A w \in Workers : WF_serverVars(Handle(w)) /\ SF_serverVars(Infer(w) /\ Receive(w))

FairServerSpec == ServerSpec /\ ServerFairness

----------------------------------------------------------------------------
(* A start that fails at any step, and a stop with requests in flight, undo all   *)
(* that was done, in an order that works: no copy of a model outlives the           *)
(* environment it was made in, and run returns with every copy freed, the           *)
(* environment destroyed and no connection open.                                    *)
ResourcesUnwind ==
  /\ ~env => made \subseteq destroyed
  /\ at = "exited" => ~env /\ db \in {"none", "closed"} /\ NoConnectionOut

(* A probe tells what its checks found, whichever ends first and whatever is        *)
(* closing meanwhile: it says ready when every check has passed, and otherwise       *)
(* names just those that failed.                                                     *)
ProbesTellTheTruth ==
  \A w \in Workers : asked[w] = "readyz" /\ sent[w] \in {200, 503} =>
    LET down == {c \in Checks : probe[w][c] # "passed"} IN
    /\ failing[w] = down
    /\ sent[w] = 200 <=> down = {}

(* No request is turned away by a stop that reports success: whatever the order  *)
(* of the signal, the requests and the closing of what they use, an orderly stop *)
(* has answered them all first.                                                  *)
OrderlyStopAnswersAll ==
  code = "ok" /\ at \notin {"listening", "draining"} =>
    ~cut /\ \A w \in Workers : req[w] = "none"

(* Every request is answered, and needs no deadline to be: whether the models are     *)
(* busy or being closed under it, and whatever stage the stop is at.                  *)
EveryRequestIsAnswered == \A w \in Workers : req[w] = "busy" ~> req[w] # "busy"

(* A process told to stop does stop: neither the requests in flight nor the          *)
(* goroutines that queue for a model hold it up.                                     *)
StopFinishes == at = "draining" ~> at = "exited"
=============================================================================
