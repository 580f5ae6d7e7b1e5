---------------------------- MODULE ServerProofs ----------------------------
(***************************************************************************)
(* The process uses its session pool as SessionPool allows, so the pool's    *)
(* theorems hold of it; it undoes what it acquired, wherever it stops; an     *)
(* orderly stop answers every request; and a probe reports what it found.     *)
(***************************************************************************)
EXTENDS Server, SessionPoolProofs

Early == {"config", "open", "runtime"}
Before == Early \cup {"load", "adapters", "service", "enrollment", "router"}
Serving == {"listening", "draining"}
After == {"closeDb", "awaitDb", "exited"}

(* Where the pool's flag stands while main has not called Close, and after. *)
PoolOfMain ==
  /\ closed <=> pc[Main] # "idle"
  /\ chanClosed => closed
  /\ pc[Main] = "closed" => destroyed = Sessions
  /\ at \in Before \cup Serving => ~closed

(* What main holds at each of its stages. *)
Holdings ==
  /\ mode = "stub" => ~env /\ made = {} /\ at \notin {"runtime", "load", "adapters", "closePool", "closeEnv"}
  /\ at \in Early => ~env /\ made = {}
  /\ at \in {"closeEnv"} \cup After => made \subseteq destroyed
  /\ at \in After => ~env
  /\ mode = "onnx" /\ at \notin Early \cup After => env
  /\ ~env => made \subseteq destroyed
  /\ at \in {"config", "open"} => db = "none"
  /\ at \in (Before \ {"config", "open"}) \cup Serving => db = "open"
  /\ db \in {"none", "closed"} => NoConnectionOut
  /\ at = "exited" => db \in {"none", "closed"}

(* What has become of the requests. *)
Answers ==
  /\ at \in Before => code = "none" /\ \A w \in Workers : req[w] = "none"
  /\ at = "listening" => code = "none"
  /\ at \notin Before \cup {"listening"} => code # "none"
  /\ at \in Before \cup Serving => ~cut
  /\ \A w \in Workers :
       /\ req[w] # "busy" => w \notin conns /\ pc[w] = "idle"
       /\ w \in conns => pc[w] = "idle"
       /\ w \in conns \/ pc[w] # "idle" => left[w] # <<>>
       /\ left[w] # <<>> => Checked(w)
       /\ req[w] # "answered" => sent[w] = 0

(* The goroutines of a probe: what they have recorded is what they have found, and  *)
(* the one that holds the mutex has read all that was recorded before it.           *)
ProbeSound(w) ==
  /\ req[w] = "none" => \A c \in Checks : probe[w][c] = "off"
  /\ req[w] # "busy" => Checked(w)
  /\ req[w] = "busy" /\ asked[w] = "readyz" => \A c \in Checks : probe[w][c] # "off"
  /\ failing[w] = {c \in Checks : probe[w][c] = "noted"}
  /\ \A c \in Checks : probe[w][c] = "locked" =>
       /\ seen[w][c] = failing[w]
       /\ \A d \in Checks : probe[w][d] = "locked" => d = c

ServerInv ==
  /\ ServerTypeOK /\ IInv
  /\ PoolOfMain /\ Holdings /\ Answers /\ OrderlyStopAnswersAll
  /\ \A w \in Workers : ProbeSound(w)
  /\ ProbesTellTheTruth

LEMMA StepsUseThePool ==
  ASSUME PoolAssumption, ServerAssumption, [ServerNext]_serverVars
  PROVE  [Next]_vars
<1>1. CASE Starting \/ Signal \/ ServeFails
  BY <1>1 DEF Starting, Configure, OpenDb, NewRuntime, CreateSession, LoadFails, Loaded,
              Build, Builds, BuildAnalyzer,
              BuildService, BuildEnrollment, BuildRouter, Signal, ServeFails, pool
<1>2. CASE Stopping
  <2>1. CASE ClosePool
    BY <2>1 DEF ClosePool, Next, ServerAssumption
  <2> QED BY <1>2, <2>1 DEF Stopping, Drains, GraceEnds, PoolClosed, CloseEnv, CloseDb,
                           DbClosed, pool
<1>3. ASSUME NEW w \in Workers, Arrive(w) \/ Handle(w) \/ OutOfTime(w) PROVE [Next]_vars
  BY <1>3 DEF Arrive, Handle, OutOfTime, Infer, PoolIsClosed, CutOff, Elsewhere, Query, EndQuery,
              DbIsClosed, Check, Ask, Told, FindsDbClosed, Lock, Note,
              Reply, Panics, Logged, Next, Acquire, pool
<1>4. CASE UNCHANGED serverVars
  BY <1>4 DEF serverVars, pool
<1> QED BY <1>1, <1>2, <1>3, <1>4 DEF ServerNext

LEMMA InitServerInv == PoolAssumption /\ ServerAssumption /\ ServerInit => ServerInv
<1> SUFFICES ASSUME PoolAssumption, ServerAssumption, ServerInit PROVE ServerInv
  OBVIOUS
<1>1. IInv
  BY InitIInv DEF ServerInit
<1>2. ServerTypeOK
  <2>1. left \in [Workers -> Seq(Calls)]
    <3>1. <<>> \in Seq(Calls)
      OBVIOUS
    <3> QED BY <3>1 DEF ServerInit
  <2>2. probe \in [Workers -> [Checks ->
                     {"off", "started", "asking", "failed", "locked", "passed", "noted"}]]
    BY DEF ServerInit, Unprobed
  <2> QED BY <1>1, <2>1, <2>2 DEF IInv, ServerInit, ServerTypeOK, Stages, Endpoints
<1>3. PoolOfMain
  BY DEF ServerInit, Init, PoolOfMain, ServerAssumption
<1>4. Holdings
  BY DEF ServerInit, Holdings, Early, Before, Serving, After, NoConnectionOut, Unprobed, Checks
<1>5. Answers /\ OrderlyStopAnswersAll /\ ProbesTellTheTruth
  BY DEF ServerInit, Init, Answers, OrderlyStopAnswersAll, ProbesTellTheTruth, Early, Before, Serving
<1>6. \A w \in Workers : ProbeSound(w)
  BY DEF ServerInit, ProbeSound, Checked, Unprobed
<1> QED BY <1>1, <1>2, <1>3, <1>4, <1>5, <1>6 DEF ServerInv

(* Steps of main that leave the pool alone. *)
LEMMA MainStepInv ==
  ASSUME PoolAssumption, ServerAssumption, ServerInv, IInv', UNCHANGED pool,
         \/ Starting \/ Signal \/ ServeFails \/ Drains \/ GraceEnds
         \/ PoolClosed \/ CloseEnv \/ CloseDb \/ DbClosed
  PROVE  ServerInv'
<1> USE DEF Starting, Configure, OpenDb, NewRuntime, CreateSession, LoadFails, Loaded, Build, Builds,
     BuildAnalyzer, BuildService, BuildEnrollment, BuildRouter,
            Signal, ServeFails, Drains, GraceEnds, PoolClosed, CloseEnv, CloseDb, DbClosed,
            Reach, Returns, Closing, requests, request, probes
<1>1. ServerTypeOK'
  <2>1. at' \in Stages
    BY DEF ServerInv, ServerTypeOK, Stages
  <2>2. code' \in {"none", "ok", "error"} /\ env' \in BOOLEAN /\ made' \subseteq Sessions
    BY DEF ServerInv, ServerTypeOK
  <2>3. mode' = mode /\ db' \in {db, "open", "closing", "closed"} /\ UNCHANGED requests
    OBVIOUS
  <2> QED BY <2>1, <2>2, <2>3 DEF ServerInv, ServerTypeOK, IInv
<1>2. PoolOfMain'
  BY DEF ServerInv, PoolOfMain, Before, Early, Serving, pool, vars
<1>3. Holdings'
  <2> USE DEF ServerInv, ServerTypeOK, IInv, PoolOfMain, Holdings, Before, Early, Serving, After,
             NoConnectionOut, pool, vars
  <2>1. CASE Configure \/ OpenDb \/ NewRuntime
    BY <2>1
  <2>2. CASE CreateSession \/ LoadFails \/ Loaded
    <3>1. mode = "onnx" /\ env /\ UNCHANGED <<mode, env, db, pool, conns, probe>>
      BY <2>2
    <3>2. at = "load" /\ at' \in {"load", "adapters", "closeEnv"}
      BY <2>2
    <3>3. at' = "closeEnv" => made' = {}
      BY <2>2
    <3> QED BY <3>1, <3>2, <3>3
  <2>3. CASE Build
    <3>1. UNCHANGED <<pool, mode, env, made, db, requests>>
      BY <2>3
    <3>2. CASE mode = "stub"
      <4>1. at' \notin {"runtime", "load", "adapters", "closePool", "closeEnv"} \cup Early \cup {"exited"}
        BY <2>3, <3>2
      <4> QED BY <2>3, <3>1, <3>2, <4>1
    <3>3. CASE mode = "onnx"
      <4>1. at' \notin Early \cup {"closeEnv"} \cup After
        BY <2>3, <3>3
      <4> QED BY <2>3, <3>1, <3>3, <4>1
    <3> QED BY <3>2, <3>3
  <2>4. CASE Signal \/ ServeFails \/ Drains \/ GraceEnds
    BY <2>4
  <2>5. CASE PoolClosed \/ CloseEnv \/ CloseDb \/ DbClosed
    BY <2>5
  <2> QED BY <2>1, <2>2, <2>3, <2>4, <2>5
<1>4. Answers' /\ OrderlyStopAnswersAll'
  BY DEF ServerInv, ServerTypeOK, Answers, OrderlyStopAnswersAll, Checked, Before, Early, Serving,
     pool, vars
<1>5. (\A w \in Workers : ProbeSound(w))' /\ ProbesTellTheTruth'
  BY DEF ServerInv, ProbeSound, Checked, ProbesTellTheTruth
<1> QED BY <1>1, <1>2, <1>3, <1>4, <1>5 DEF ServerInv

LEMMA ClosePoolInv ==
  ASSUME PoolAssumption, ServerAssumption, ServerInv, IInv', ClosePool
  PROVE  ServerInv'
<1> USE DEF ClosePool, Close, Swap, Drain, Drained, Destroy, CloseReturns, Goto,
            ServerAssumption, PoolAssumption, requests, request, probes
<1>1. ServerTypeOK'
  BY DEF ServerInv, ServerTypeOK, IInv, main, requests
<1>2. PoolOfMain'
  BY DEF ServerInv, IInv, TypeOK, PoolOfMain, Before, Early, Serving, main
<1>3. Holdings'
  BY DEF ServerInv, Holdings, NoConnectionOut, Before, Early, Serving, After, main
<1>4. \A w \in Workers : pc'[w] = pc[w]
  BY DEF ServerInv, IInv, TypeOK
<1>5. Answers' /\ OrderlyStopAnswersAll'
  BY <1>4 DEF ServerInv, ServerTypeOK, Answers, Checked, OrderlyStopAnswersAll, main
<1>6. (\A w \in Workers : ProbeSound(w))' /\ ProbesTellTheTruth'
  BY DEF ServerInv, ProbeSound, Checked, ProbesTellTheTruth
<1> QED BY <1>1, <1>2, <1>3, <1>5, <1>6 DEF ServerInv

(* The answers of a request that has not come to its end. *)
Failed == Statuses \ {200, 201, 503}

(* What the end of a call, or of all of them, does to its request. *)
Ends(w) ==
  /\ asked' = asked
  /\ left' \in [Workers -> Seq(Calls)] /\ \A v \in Workers \ {w} : left'[v] = left[v]
  /\ \/ req' = req /\ sent' = sent
     \/ /\ req' = [req EXCEPT ![w] = "answered"]
        /\ \E status \in Failed : sent' = [sent EXCEPT ![w] = status]

LEMMA Failures ==
  /\ 500 \in Failed /\ EnrollmentStatus("identity_mismatch") \in Failed
  /\ \A e \in Endpoints :
       /\ \A c \in Calls : FaultStatus(e, c) \in Failed
       /\ DomainErrors(e) \subseteq Failed
       /\ Refusals(e) \subseteq Failed
       /\ Success(e) \in Statuses
       /\ CallsOf(e) \subseteq Seq(Calls)
<1>1. 500 \in Failed
  BY DEF Failed, Statuses
<1>2. ASSUME NEW e \in Endpoints
      PROVE  /\ {Success(e)} \cup DomainErrors(e) \cup Refusals(e) \subseteq Statuses
             /\ \A c \in Calls : FaultStatus(e, c) \in Statuses
  BY DEF Statuses
<1>3. ASSUME NEW e \in Endpoints, NEW c \in Calls PROVE FaultStatus(e, c) \notin {200, 201, 503}
  BY DEF FaultStatus, LivenessStatus, EnrollmentStatus, Endpoints
<1>4. ASSUME NEW e \in Endpoints, NEW s \in DomainErrors(e) PROVE s \notin {200, 201, 503}
  BY DEF DomainErrors, LivenessStatus, EnrollmentStatus, Endpoints
<1>5. ASSUME NEW e \in Endpoints, NEW s \in Refusals(e) PROVE s \notin {200, 201, 503}
  <2>1. PICK i \in DOMAIN GatesOf(e) : s \in RefusalsBy(GatesOf(e)[i])
    BY DEF Refusals
  <2>2. GatesOf(e)[i] \in {"rate", "key", "route", "json", "fields", "base64", "image"}
    BY <2>1, HttpAssumption DEF GatesOf, Endpoints, HttpAssumption
  <2>3. ASSUME NEW error \in {"too_large", "unsupported", "corrupt", "too_many_pixels"}
        PROVE  ImagingStatus(error) \notin {200, 201, 503}
    BY <2>3 DEF ImagingStatus
  <2>4. \A k \in DOMAIN DecodeErrors :
          DecodeErrors[k] \in {"too_large", "unsupported", "corrupt", "too_many_pixels"}
    BY DEF DecodeErrors
  <2>5. \A k \in DOMAIN DecodeErrors : ImagingStatus(DecodeErrors[k]) \notin {200, 201, 503}
    BY <2>3, <2>4
  <2> QED BY <2>1, <2>2, <2>5 DEF RefusalsBy
<1>6. EnrollmentStatus("identity_mismatch") \in Failed
  <2>1. /\ "frames" \in Endpoints /\ "db" \in Calls
        /\ FaultStatus("frames", "db") = EnrollmentStatus("identity_mismatch")
    BY DEF Endpoints, Calls, FaultStatus, LivenessStatus, EnrollmentStatus
  <2> QED BY <1>2, <1>3, <2>1 DEF Failed
<1>7. ASSUME NEW e \in Endpoints PROVE CallsOf(e) \subseteq Seq(Calls)
  <2>1. /\ <<>> \in Seq(Calls) /\ <<"db">> \in Seq(Calls)
        /\ <<"db", "token">> \in Seq(Calls) /\ <<"db", "db">> \in Seq(Calls)
    BY DEF Calls
  <2>2. <<"db", "db", "token">> \in Seq(Calls) /\ <<"db", "models", "db">> \in Seq(Calls)
        /\ <<"models", "db", "note">> \in Seq(Calls)
    BY DEF Calls
  <2>3. /\ <<"db", "reference", "models", "refusal">> \in Seq(Calls)
        /\ <<"db", "reference", "models", "db">> \in Seq(Calls)
        /\ <<"db", "reference", "models", "store", "db">> \in Seq(Calls)
    BY DEF Calls
  <2> HIDE DEF Calls
  <2>4. CASE e \in {"healthz", "readyz", "elsewhere", "start", "delete", "status", "complete"}
    BY <2>1, <2>2, <2>4 DEF CallsOf
  <2>5. CASE e \in {"frames", "search"}
    BY <2>1, <2>2, <2>5 DEF CallsOf
  <2>6. CASE e = "enroll"
    BY <2>3, <2>6 DEF CallsOf
  <2> QED BY <2>4, <2>5, <2>6 DEF Endpoints
<1> QED BY <1>1, <1>2, <1>3, <1>4, <1>5, <1>6, <1>7 DEF Failed

LEMMA EndingsEnd ==
  ASSUME ServerTypeOK, NEW w \in Workers,
         \/ left[w] # <<>> /\ (CallEnds(w) \/ CallFails(w) \/ Called(w))
         \/ Crash(w)
         \/ \E status \in DomainErrors(asked[w]) : Answer(w, status)
  PROVE  Ends(w)
<1>1. asked[w] \in Endpoints /\ left[w] \in Seq(Calls)
  BY DEF ServerTypeOK
<1>2. ASSUME NEW status \in Failed, Answer(w, status) PROVE Ends(w)
  <2>1. left' \in [Workers -> Seq(Calls)] /\ \A v \in Workers \ {w} : left'[v] = left[v]
    BY <1>2 DEF Answer, ServerTypeOK
  <2> QED BY <1>2, <2>1 DEF Answer, Ends
<1>3. ASSUME left[w] # <<>>, Called(w) PROVE Ends(w)
  <2>1. CASE Answer(w, EnrollmentStatus("identity_mismatch"))
    <3>1. PICK status \in Failed : status = EnrollmentStatus("identity_mismatch")
      BY Failures
    <3>2. Answer(w, status)
      BY <2>1, <3>1
    <3> QED BY <1>2, <3>2
  <2>2. CASE left' = [left EXCEPT ![w] = Tail(left[w])] /\ UNCHANGED <<req, asked, sent>>
    <3>1. Tail(left[w]) \in Seq(Calls)
      BY <1>1, <1>3
    <3>2. left' \in [Workers -> Seq(Calls)] /\ \A v \in Workers \ {w} : left'[v] = left[v]
      BY <2>2, <3>1 DEF ServerTypeOK
    <3> QED BY <2>2, <3>2 DEF Ends
  <2> QED BY <1>3, <2>1, <2>2 DEF Called
<1>4. ASSUME left[w] # <<>>, CallFails(w) PROVE Ends(w)
  <2>1. CASE Called(w)
    BY <1>3, <1>4, <2>1
  <2>2. CASE Answer(w, FaultStatus(asked[w], Head(left[w])))
    <3>1. Head(left[w]) \in Calls
      BY <1>1, <1>4
    <3>2. PICK status \in Failed : status = FaultStatus(asked[w], Head(left[w]))
      BY <1>1, <3>1, Failures
    <3>3. Answer(w, status)
      BY <2>2, <3>2
    <3> QED BY <1>2, <3>3
  <2> QED BY <1>4, <2>1, <2>2 DEF CallFails
<1>5. CASE Crash(w)
  BY <1>2, <1>5, Failures DEF Crash
<1>6. CASE \E status \in DomainErrors(asked[w]) : Answer(w, status)
  BY <1>1, <1>2, <1>6, Failures
<1> QED BY <1>3, <1>4, <1>5, <1>6 DEF CallEnds

(* Such a step, with the pool and the connections as the call leaves them. *)
LEMMA EndsInv ==
  ASSUME PoolAssumption, ServerAssumption, ServerInv, IInv', NEW w \in Workers,
         Ends(w), UNCHANGED main, UNCHANGED probes, req[w] = "busy",
         left[w] # <<>> \/ Checked(w),
         UNCHANGED <<closed, chanClosed, destroyed>>,
         pc'[w] = "idle", \A g \in (Workers \cup Closers) \ {w} : pc'[g] = pc[g],
         conns' = conns \ {w},
         cut' \in BOOLEAN, cut' # cut => at \notin Before \cup Serving
  PROVE  ServerInv'
<1> USE DEF ServerInv
<1> DEFINE Changes ==
      /\ req' \in [Workers -> {"none", "busy", "answered"}] /\ req'[w] \in {"busy", "answered"}
      /\ \A v \in Workers \ {w} : req'[v] = req[v] /\ sent'[v] = sent[v]
      /\ sent' \in [Workers -> Statuses \cup {0}]
      /\ req'[w] = "busy" => sent'[w] = 0
      /\ sent'[w] \notin {200, 201, 503}
<1>1. Changes
  <2>1. CASE req' = req /\ sent' = sent
    BY <2>1 DEF ServerTypeOK, Answers
  <2>2. ASSUME NEW status \in Failed, req' = [req EXCEPT ![w] = "answered"],
               sent' = [sent EXCEPT ![w] = status]
        PROVE  Changes
    BY <2>2 DEF ServerTypeOK, Failed
  <2> QED BY <2>1, <2>2 DEF Ends
<1>2. ServerTypeOK'
  BY <1>1 DEF ServerTypeOK, IInv, Ends, main, probes
<1>3. PoolOfMain' /\ Holdings'
  BY DEF PoolOfMain, Holdings, NoConnectionOut, main, probes, PoolAssumption, ServerAssumption
<1>4. probe' = probe /\ failing' = failing /\ seen' = seen /\ Checked(w)
  BY DEF probes, Answers
<1>5. Answers'
  <2>1. at \notin Before
    BY DEF Answers
  <2>2. at' = at /\ code' = code
    BY DEF main
  <2>3. ASSUME NEW v \in Workers
        PROVE  /\ req'[v] # "busy" => v \notin conns' /\ pc'[v] = "idle"
               /\ v \in conns' => pc'[v] = "idle"
               /\ v \in conns' \/ pc'[v] # "idle" => left'[v] # <<>>
               /\ left'[v] # <<>> => Checked(v)'
               /\ req'[v] # "answered" => sent'[v] = 0
    <3>1. CASE v = w
      BY <1>1, <1>4, <3>1 DEF Checked
    <3>2. CASE v # w
      <4>1. left'[v] = left[v] /\ (v \in conns' <=> v \in conns) /\ pc'[v] = pc[v]
        BY <3>2 DEF Ends
      <4> QED BY <1>1, <1>4, <3>2, <4>1 DEF Answers, Checked
    <3> QED BY <3>1, <3>2
  <2> QED BY <2>1, <2>2, <2>3 DEF Answers
<1>6. OrderlyStopAnswersAll'
  BY DEF OrderlyStopAnswersAll, Answers, Before, Early, Serving, main
<1>7. (\A v \in Workers : ProbeSound(v))'
  <2>1. ASSUME NEW v \in Workers PROVE ProbeSound(v)'
    <3>1. CASE v = w
      BY <1>1, <1>4, <3>1 DEF ProbeSound, Checked, Ends
    <3>2. CASE v # w
      BY <1>1, <1>4, <3>2 DEF ProbeSound, Checked, Ends
    <3> QED BY <3>1, <3>2
  <2> QED BY <2>1
<1>8. ProbesTellTheTruth'
  BY <1>1, <1>4 DEF ProbesTellTheTruth, Ends
<1> QED BY <1>2, <1>3, <1>5, <1>6, <1>7, <1>8

(* A step inside the pool that ends no call. *)
LEMMA InPoolInv ==
  ASSUME PoolAssumption, ServerAssumption, ServerInv, IInv', NEW w \in Workers,
         UNCHANGED <<main, requests, closed, chanClosed, destroyed>>,
         req[w] = "busy", left[w] # <<>>, w \notin conns,
         \A g \in (Workers \cup Closers) \ {w} : pc'[g] = pc[g]
  PROVE  ServerInv'
<1> USE DEF main, requests, request, probes
<1>1. ServerTypeOK'
  BY DEF ServerInv, ServerTypeOK, IInv
<1>2. PoolOfMain' /\ Holdings'
  BY DEF ServerInv, PoolOfMain, Holdings, NoConnectionOut, PoolAssumption, ServerAssumption
<1>3. Answers'
  BY DEF ServerInv, Answers, Checked
<1>4. OrderlyStopAnswersAll' /\ (\A v \in Workers : ProbeSound(v))' /\ ProbesTellTheTruth'
  BY DEF ServerInv, OrderlyStopAnswersAll, ProbeSound, Checked, ProbesTellTheTruth
<1> QED BY <1>1, <1>2, <1>3, <1>4 DEF ServerInv

(* A step of one goroutine of a probe moves no other, and records what it should. *)
LEMMA CheckInv ==
  ASSUME PoolAssumption, ServerAssumption, ServerInv, IInv',
         NEW w \in Workers, NEW c \in Checks, Check(w, c)
  PROVE  ServerInv'
<1> USE DEF ServerInv
<1>1. /\ UNCHANGED <<pool, main, conns, request>>
      /\ probe[w][c] \in {"started", "asking", "failed", "locked"}
      /\ \E to \in {"asking", "failed", "locked", "passed", "noted"} :
           probe' = [probe EXCEPT ![w][c] = to]
  BY DEF Check, Ask, Told, FindsDbClosed, Lock, Note, Moves
<1>2. /\ probe' \in [Workers -> [Checks ->
           {"off", "started", "asking", "failed", "locked", "passed", "noted"}]]
      /\ probe'[w][c] # "off"
      /\ \A d \in Checks \ {c} : probe'[w][d] = probe[w][d]
      /\ \A v \in Workers \ {w} : probe'[v] = probe[v]
  BY <1>1 DEF ServerTypeOK
<1>3. req[w] = "busy" /\ left[w] = <<>> /\ sent[w] = 0
  BY <1>1 DEF Answers, ProbeSound, Checked, ServerTypeOK
<1>4. /\ cut' \in BOOLEAN
      /\ cut' # cut => at \notin Before \cup Serving
  <2>1. CASE FindsDbClosed(w, c)
    BY <1>3, <2>1 DEF FindsDbClosed, Answers, Holdings, Before, Early, Serving
  <2>2. CASE Ask(w, c) \/ Told(w, c) \/ Lock(w, c) \/ Note(w, c)
    BY <2>2 DEF Ask, Told, Lock, Note, ServerTypeOK
  <2> QED BY <2>1, <2>2 DEF Check
<1>5. /\ failing' \in [Workers -> SUBSET Checks]
      /\ seen' \in [Workers -> [Checks -> SUBSET Checks]]
      /\ \A v \in Workers \ {w} : failing'[v] = failing[v] /\ seen'[v] = seen[v]
  <2>1. CASE Ask(w, c) \/ Told(w, c) \/ FindsDbClosed(w, c)
    BY <2>1 DEF Ask, Told, FindsDbClosed, ServerTypeOK
  <2>2. CASE Lock(w, c)
    BY <2>2 DEF Lock, ServerTypeOK
  <2>3. CASE Note(w, c)
    BY <2>3 DEF Note, ServerTypeOK
  <2> QED BY <2>1, <2>2, <2>3 DEF Check
<1>6. ServerTypeOK'
  BY <1>1, <1>2, <1>4, <1>5 DEF ServerTypeOK, IInv, main, request
<1>7. PoolOfMain'
  BY <1>1 DEF PoolOfMain, pool, vars, main
<1>8. Holdings'
  <2>1. ASSUME db \in {"none", "closed"} PROVE NoConnectionOut'
    <3>1. NoConnectionOut
      BY <2>1 DEF Holdings
    <3>2. c \in Pooled => probe'[w][c] # "asking"
      BY <2>1, <3>1, <1>2 DEF Check, Ask, Told, FindsDbClosed, Lock, Note, Moves, ServerTypeOK
    <3> QED BY <1>1, <1>2, <3>1, <3>2 DEF NoConnectionOut, Checks
  <2> QED BY <1>1, <2>1 DEF Holdings, pool, vars, main
<1>9. Answers'
  BY <1>1, <1>2, <1>3, <1>4 DEF Answers, Checked, pool, vars, main, request
<1>10. OrderlyStopAnswersAll'
  BY <1>1, <1>3 DEF OrderlyStopAnswersAll, Before, Early, Serving, Answers, main, request
<1>11. ProbeSound(w)'
  <2>1. CASE Ask(w, c) \/ Told(w, c) \/ FindsDbClosed(w, c)
    <3>1. /\ probe[w][c] \notin {"noted", "locked"} /\ probe'[w][c] \notin {"noted", "locked"}
          /\ UNCHANGED <<failing, seen>>
      BY <2>1, <1>2 DEF Ask, Told, FindsDbClosed, Moves, ServerTypeOK
    <3> QED BY <1>1, <1>2, <1>3, <3>1 DEF ProbeSound, request
  <2>2. CASE Lock(w, c)
    <3>1. /\ probe[w][c] = "failed" /\ probe'[w][c] = "locked" /\ failing' = failing
          /\ \A d \in Checks : probe[w][d] # "locked"
          /\ seen'[w][c] = failing[w]
      BY <2>2 DEF Lock, Moves, ServerTypeOK
    <3> QED BY <1>1, <1>2, <1>3, <3>1 DEF ProbeSound, request
  <2>3. CASE Note(w, c)
    <3>1. /\ probe[w][c] = "locked" /\ probe'[w][c] = "noted"
          /\ failing'[w] = seen[w][c] \cup {c}
      BY <2>3 DEF Note, Moves, ServerTypeOK
    <3>2. seen[w][c] = failing[w] /\ \A d \in Checks \ {c} : probe[w][d] # "locked"
      BY <3>1 DEF ProbeSound
    <3> QED BY <1>1, <1>2, <1>3, <3>1, <3>2 DEF ProbeSound, request
  <2> QED BY <2>1, <2>2, <2>3 DEF Check
<1>12. (\A v \in Workers : ProbeSound(v))'
  <2>1. ASSUME NEW v \in Workers, v # w PROVE ProbeSound(v)'
    BY <1>1, <1>2, <1>5, <2>1 DEF ProbeSound, Checked, request
  <2> QED BY <1>11, <2>1
<1>13. ProbesTellTheTruth'
  BY <1>1, <1>2, <1>3, <1>5 DEF ProbesTellTheTruth, request
<1> QED BY <1>6, <1>7, <1>8, <1>9, <1>10, <1>12, <1>13

LEMMA RequestInv ==
  ASSUME PoolAssumption, ServerAssumption, ServerInv, IInv',
         NEW w \in Workers, Arrive(w) \/ Handle(w) \/ OutOfTime(w)
  PROVE  ServerInv'
<1> USE DEF ServerInv
<1>a. cut \in BOOLEAN /\ asked[w] \in Endpoints
  BY DEF ServerTypeOK
<1>1. \A g \in {w} : pc[g] # "idle" => req[g] = "busy" /\ left[g] # <<>> /\ g \notin conns
  BY DEF Answers, ServerTypeOK
<1>2. w \in conns => req[w] = "busy" /\ left[w] # <<>> /\ pc[w] = "idle"
  BY DEF Answers, ServerTypeOK
<1>3. CASE Arrive(w)
  <2>1. UNCHANGED <<pool, main, conns, cut>> /\ req[w] = "none" /\ at = "listening" /\ UNCHANGED <<failing, seen>>
    BY <1>3 DEF Arrive
  <2>2. PICK endpoint \in Served :
          \/ /\ req' = [req EXCEPT ![w] = "busy"]
             /\ asked' = [asked EXCEPT ![w] = endpoint]
             /\ \E calls \in CallsOf(endpoint) : left' = [left EXCEPT ![w] = calls]
             /\ probe' = IF endpoint = "readyz"
                         THEN [probe EXCEPT ![w] = [c \in Checks |-> "started"]] ELSE probe
             /\ UNCHANGED sent
          \/ \E status \in Refusals(endpoint) : Answer(w, status) /\ UNCHANGED probe
    BY <1>3 DEF Arrive
  <2>3. endpoint \in Endpoints
    BY <2>2 DEF ServerAssumption
  <2>4. Checked(w) /\ sent[w] = 0 /\ failing[w] = {} /\ \A c \in Checks : probe[w][c] = "off"
    BY <2>1 DEF ProbeSound, Checked, Answers
  <2>5. PoolOfMain' /\ OrderlyStopAnswersAll'
    BY <2>1 DEF PoolOfMain, OrderlyStopAnswersAll, pool, vars, main
  <2>6. Holdings'
    <3>1. db \notin {"none", "closed"}
      BY <2>1 DEF Holdings, Before, Early, Serving
    <3> QED BY <2>1, <3>1 DEF Holdings, NoConnectionOut, pool, vars, main
  <2>7. ASSUME NEW calls \in CallsOf(endpoint),
               req' = [req EXCEPT ![w] = "busy"],
               asked' = [asked EXCEPT ![w] = endpoint],
               left' = [left EXCEPT ![w] = calls],
               probe' = IF endpoint = "readyz"
                        THEN [probe EXCEPT ![w] = [c \in Checks |-> "started"]] ELSE probe,
               UNCHANGED sent
        PROVE  ServerInv'
    <3>1. calls \in Seq(Calls) /\ (endpoint = "readyz" => calls = <<>>)
      BY <2>3, Failures DEF CallsOf
    <3>2. /\ probe' \in [Workers -> [Checks ->
               {"off", "started", "asking", "failed", "locked", "passed", "noted"}]]
          /\ \A v \in Workers \ {w} : probe'[v] = probe[v]
          /\ endpoint # "readyz" => probe'[w] = probe[w]
          /\ endpoint = "readyz" => \A c \in Checks : probe'[w][c] = "started"
      BY <2>7 DEF ServerTypeOK
    <3>3. ServerTypeOK'
      BY <2>1, <2>3, <2>7, <3>1, <3>2 DEF ServerTypeOK, IInv, pool, vars, main
    <3>4. Answers'
      BY <2>1, <2>4, <2>7, <3>1, <3>2
         DEF ServerTypeOK, Answers, Checked, pool, vars, main, Before, Early, Serving
    <3>5. ProbeSound(w)'
      <4>1. req'[w] = "busy" /\ asked'[w] = endpoint /\ failing'[w] = {}
        BY <2>1, <2>4, <2>7 DEF ServerTypeOK
      <4> QED BY <2>4, <3>2, <4>1 DEF ProbeSound
    <3>6. ASSUME NEW v \in Workers, v # w PROVE ProbeSound(v)'
      BY <2>1, <2>7, <3>2, <3>6 DEF ProbeSound, Checked, ServerTypeOK
    <3>7. ProbesTellTheTruth'
      BY <2>1, <2>4, <2>7, <3>2 DEF ProbesTellTheTruth, ServerTypeOK
    <3> QED BY <2>5, <2>6, <3>3, <3>4, <3>5, <3>6, <3>7
  <2>8. ASSUME NEW status \in Refusals(endpoint), Answer(w, status), UNCHANGED probe
        PROVE  ServerInv'
    <3>1. status \in Statuses /\ status \notin {200, 503}
      BY <2>3, Failures DEF Failed
    <3>2. ServerTypeOK' /\ Answers'
      BY <2>1, <2>4, <2>8, <3>1
         DEF Answer, ServerTypeOK, IInv, Answers, Checked, pool, vars, main, Before, Early, Serving
    <3>3. (\A v \in Workers : ProbeSound(v))'
      BY <2>1, <2>4, <2>8 DEF Answer, ProbeSound, Checked, ServerTypeOK
    <3>4. ProbesTellTheTruth'
      BY <2>1, <2>8, <3>1 DEF Answer, ProbesTellTheTruth, ServerTypeOK
    <3> QED BY <2>5, <2>6, <3>2, <3>3, <3>4
  <2> QED BY <2>2, <2>7, <2>8
<1>4. CASE Infer(w)
  <2>1. UNCHANGED <<main, conns, probes, cut>> /\ req[w] = "busy" /\ w \notin conns /\ left[w] # <<>>
    BY <1>4 DEF Infer
  <2>2. CASE (Enter(w) \/ Receive(w) \/ (~closed /\ Recheck(w))) /\ UNCHANGED request
    <3>1. UNCHANGED <<closed, chanClosed, destroyed>>
          /\ \A g \in (Workers \cup Closers) \ {w} : pc'[g] = pc[g]
      BY <2>2 DEF Enter, Receive, Recheck, Goto, IInv, TypeOK
    <3> QED BY <2>1, <2>2, <3>1, InPoolInv DEF requests
  <2>3. CASE Release(w) /\ (CallEnds(w) \/ Crash(w))
    <3>1. Ends(w)
      BY <2>1, <2>3, EndingsEnd
    <3>2. UNCHANGED <<closed, chanClosed, destroyed>> /\ pc'[w] = "idle"
          /\ \A g \in (Workers \cup Closers) \ {w} : pc'[g] = pc[g]
      BY <2>3 DEF Release, SendBack, Goto, IInv, TypeOK
    <3> QED BY <1>a, <2>1, <3>1, <3>2, EndsInv
  <2> QED BY <1>4, <2>2, <2>3 DEF Infer
<1>5. CASE OutOfTime(w)
  <2>1. pc[w] = "select" /\ UNCHANGED <<closed, chanClosed, destroyed>> /\ pc'[w] = "idle"
        /\ \A g \in (Workers \cup Closers) \ {w} : pc'[g] = pc[g]
    BY <1>5 DEF OutOfTime, GiveUp, Goto, IInv, TypeOK
  <2>2. Ends(w)
    BY <1>1, <1>5, <2>1, EndingsEnd DEF OutOfTime
  <2> QED BY <1>1, <1>5, <1>a, <2>1, <2>2, EndsInv DEF OutOfTime
<1>6. CASE PoolIsClosed(w)
  <2>1. /\ req[w] = "busy" /\ left[w] # <<>> /\ w \notin conns /\ closed
        /\ UNCHANGED <<closed, chanClosed, destroyed>> /\ pc'[w] = "idle"
        /\ \A g \in (Workers \cup Closers) \ {w} : pc'[g] = pc[g]
    <3>1. CASE Calling(w) /\ NeedsModels(w) /\ closed /\ UNCHANGED pool
      BY <3>1 DEF Calling, Thinking, pool, vars
    <3>2. CASE CutOff(w)
      <4>1. pc[w] \in {"select", "received"} /\ closed /\ pc'[w] = "idle"
            /\ UNCHANGED <<closed, chanClosed, destroyed>>
            /\ \A g \in (Workers \cup Closers) \ {w} : pc'[g] = pc[g]
        BY <3>2 DEF CutOff, Recheck, SendBack, FindClosed, Goto, IInv, TypeOK, PoolOfMain
      <4> QED BY <1>1, <4>1
    <3> QED BY <1>6, <3>1, <3>2 DEF PoolIsClosed
  <2>2. at \notin Before \cup Serving
    BY <2>1 DEF PoolOfMain
  <2>3. Ends(w)
    BY <1>6, <2>1, EndingsEnd DEF PoolIsClosed
  <2> QED BY <1>6, <2>1, <2>2, <2>3, EndsInv DEF PoolIsClosed
<1>7. CASE Elsewhere(w)
  <2>1. Ends(w)
    BY <1>7, EndingsEnd DEF Elsewhere, Calling
  <2> QED BY <1>7, <1>a, <2>1, EndsInv DEF Elsewhere, Calling, Thinking, pool, vars
<1>8. CASE Query(w)
  <2>1. Thinking(w) /\ left[w] # <<>> /\ db = "open" /\ conns' = conns \cup {w}
        /\ UNCHANGED <<pool, main, request, probes, cut>>
    BY <1>8 DEF Query, Calling
  <2>2. ServerTypeOK' /\ PoolOfMain' /\ Holdings'
    BY <2>1 DEF ServerTypeOK, IInv, PoolOfMain, Holdings, pool, vars, main, request, probes
  <2>3. Answers' /\ OrderlyStopAnswersAll'
    BY <2>1 DEF Thinking, Checked, Answers, OrderlyStopAnswersAll, pool, vars, main, request, probes
  <2>4. (\A v \in Workers : ProbeSound(v))' /\ ProbesTellTheTruth'
    BY <2>1 DEF ProbeSound, Checked, ProbesTellTheTruth, request, probes
  <2> QED BY <2>2, <2>3, <2>4
<1>9. CASE EndQuery(w)
  <2>1. Ends(w)
    BY <1>2, <1>9, EndingsEnd DEF EndQuery
  <2> QED BY <1>2, <1>9, <2>1, EndsInv DEF EndQuery, pool, vars, ServerTypeOK
<1>10. CASE DbIsClosed(w)
  <2>1. Thinking(w) /\ left[w] # <<>> /\ db # "open" /\ UNCHANGED <<pool, main, conns, probes>> /\ cut' = TRUE
    BY <1>10 DEF DbIsClosed, Calling
  <2>2. at \notin Before \cup Serving
    BY <2>1 DEF Thinking, Answers, Holdings, Serving, Before, Early
  <2>3. Ends(w)
    BY <1>10, <2>1, EndingsEnd DEF DbIsClosed
  <2> QED BY <2>1, <2>2, <2>3, EndsInv DEF Thinking, pool, vars
<1>11. CASE Reply(w)
  <2>1. Thinking(w) /\ UNCHANGED <<pool, main, conns, probes, cut>>
    BY <1>11 DEF Reply
  <2>2. CASE \E status \in DomainErrors(asked[w]) : Answer(w, status)
    <3>1. Ends(w)
      BY <2>2, EndingsEnd
    <3> QED BY <2>1, <3>1, EndsInv DEF Thinking, pool, vars, ServerTypeOK
  <2>3. ASSUME NEW status \in Statuses, Answer(w, status),
               asked[w] = "readyz" => status = ReadinessStatus(failing[w])
        PROVE  ServerInv'
    <3>1. ServerTypeOK'
      BY <2>1, <2>3 DEF Answer, ServerTypeOK, IInv, main, probes
    <3>2. PoolOfMain' /\ Holdings' /\ OrderlyStopAnswersAll'
      BY <2>1, <2>3 DEF Thinking, Answer, PoolOfMain, Holdings, NoConnectionOut, Answers,
                        OrderlyStopAnswersAll, Before, Early, Serving, pool, vars, main, probes
    <3>3. Answers'
      BY <2>1, <2>3 DEF Thinking, Checked, Answer, ServerTypeOK, Answers, pool, vars, main, probes
    <3>4. (\A v \in Workers : ProbeSound(v))'
      BY <2>1, <2>3 DEF Thinking, Answer, ProbeSound, Checked, ServerTypeOK, probes
    <3>5. ProbesTellTheTruth'
      <4>1. ASSUME asked[w] = "readyz"
            PROVE  /\ failing[w] = {c \in Checks : probe[w][c] # "passed"}
                   /\ sent'[w] = 200 <=> failing[w] = {}
        <5>1. \A c \in Checks : probe[w][c] \in {"passed", "noted"}
          BY <2>1, <4>1 DEF Thinking, Checked, ProbeSound
        <5>2. sent'[w] = ReadinessStatus(failing[w])
          BY <2>3, <4>1 DEF Answer, ServerTypeOK
        <5> QED BY <5>1, <5>2 DEF ProbeSound, ReadinessStatus
      <4> QED BY <2>1, <2>3, <4>1 DEF Answer, ProbesTellTheTruth, ServerTypeOK, probes
    <3> QED BY <3>1, <3>2, <3>3, <3>4, <3>5
  <2>4. CASE Answer(w, IF asked[w] = "readyz" THEN ReadinessStatus(failing[w]) ELSE Success(asked[w]))
    <3>1. PICK status \in Statuses :
            status = IF asked[w] = "readyz" THEN ReadinessStatus(failing[w]) ELSE Success(asked[w])
      <4>1. Success(asked[w]) \in Statuses /\ Success("readyz") \in Statuses /\ 503 \in Statuses
        BY <1>a, Failures DEF Endpoints, Statuses
      <4> QED BY <4>1 DEF ReadinessStatus, Success
    <3> QED BY <2>3, <2>4, <3>1
  <2> QED BY <1>11, <2>2, <2>4 DEF Reply
<1>12. CASE Panics(w)
  <2>1. Ends(w)
    BY <1>12, EndingsEnd DEF Panics
  <2> QED BY <1>12, <2>1, EndsInv DEF Panics, Thinking, pool, vars, ServerTypeOK
<1>13. CASE Logged(w)
  <2>1. req[w] = "answered" /\ UNCHANGED <<pool, main, conns, left, seen, cut>>
    BY <1>13 DEF Logged
  <2>2. /\ probe' \in [Workers -> [Checks ->
             {"off", "started", "asking", "failed", "locked", "passed", "noted"}]]
        /\ \A v \in Workers \ {w} : probe'[v] = probe[v]
        /\ \A c \in Checks : probe'[w][c] = "off"
    BY <1>13 DEF Logged, Unprobed, ServerTypeOK
  <2>3. ServerTypeOK'
    BY <2>1, <2>2, <1>13 DEF Logged, ServerTypeOK, IInv, Endpoints, main
  <2>4. PoolOfMain' /\ OrderlyStopAnswersAll'
    BY <2>1, <1>13 DEF Logged, ServerTypeOK, PoolOfMain, OrderlyStopAnswersAll, pool, vars, main
  <2>5. Holdings'
    <3>1. NoConnectionOut => NoConnectionOut'
      BY <2>1, <2>2 DEF NoConnectionOut, Checks
    <3> QED BY <2>1, <3>1 DEF Holdings, pool, vars, main
  <2>6. Answers'
    BY <2>1, <2>2, <1>13 DEF Logged, ServerTypeOK, Answers, Checked, pool, vars, main
  <2>7. (\A v \in Workers : ProbeSound(v))'
    <3>1. ProbeSound(w)'
      BY <2>2, <1>13 DEF Logged, ServerTypeOK, ProbeSound, Checked
    <3>2. ASSUME NEW v \in Workers, v # w PROVE ProbeSound(v)'
      BY <2>1, <2>2, <3>2, <1>13 DEF Logged, ServerTypeOK, ProbeSound, Checked
    <3> QED BY <3>1, <3>2
  <2>8. ProbesTellTheTruth'
    BY <2>2, <1>13 DEF Logged, ServerTypeOK, ProbesTellTheTruth
  <2> QED BY <2>3, <2>4, <2>5, <2>6, <2>7, <2>8
<1>14. ASSUME NEW c \in Checks, Check(w, c) PROVE ServerInv'
  BY <1>14, CheckInv
<1> QED BY <1>3, <1>4, <1>5, <1>6, <1>7, <1>8, <1>9, <1>10, <1>11, <1>12, <1>13, <1>14 DEF Handle

LEMMA NextServerInv ==
  ASSUME PoolAssumption, ServerAssumption, ServerInv, [ServerNext]_serverVars
  PROVE  ServerInv'
<1>1. IInv'
  BY StepsUseThePool, NextIInv DEF ServerInv
<1>2. CASE \/ Starting \/ Signal \/ ServeFails \/ Drains \/ GraceEnds
           \/ PoolClosed \/ CloseEnv \/ CloseDb \/ DbClosed
  <2>1. UNCHANGED pool
    BY <1>2 DEF Starting, Configure, OpenDb, NewRuntime, CreateSession, LoadFails, Loaded, Build, Builds,
     BuildAnalyzer, BuildService, BuildEnrollment, BuildRouter,
                Signal, ServeFails, Drains, GraceEnds, PoolClosed, CloseEnv, CloseDb, DbClosed
  <2> QED BY <1>1, <1>2, <2>1, MainStepInv
<1>3. CASE ClosePool
  BY <1>1, <1>3, ClosePoolInv
<1>4. ASSUME NEW w \in Workers, Arrive(w) \/ Handle(w) \/ OutOfTime(w) PROVE ServerInv'
  BY <1>1, <1>4, RequestInv
<1>5. CASE UNCHANGED serverVars
  BY <1>1, <1>5 DEF serverVars, pool, vars, main, requests, request, probes, ServerInv, ServerTypeOK,
     IInv, PoolOfMain, Holdings, NoConnectionOut, Answers, Checked, ProbeSound,
     OrderlyStopAnswersAll, ProbesTellTheTruth
<1> QED BY <1>2, <1>3, <1>4, <1>5 DEF ServerNext, Stopping

(* The strengthening holds in every state of the server. *)
THEOREM ServerInvariance == ServerSpec => []ServerInv
BY PoolAssumption, ServerAssumption, InitServerInv, NextServerInv, PTL DEF ServerSpec

(* Type correctness of the process, its requests and its pool. *)
THEOREM ServerTypeCorrect == ServerSpec => []ServerTypeOK
BY ServerInvariance, PTL DEF ServerInv

(* The process implements SessionPool: whatever main and the requests do, they do   *)
(* to the pool only what its Use and Close allow.                                   *)
THEOREM ServerUsesThePool == ServerSpec => Spec
<1>1. ServerInit => Init
  BY DEF ServerInit
<1>2. [ServerNext]_serverVars => [Next]_vars
  BY PoolAssumption, ServerAssumption, StepsUseThePool
<1> QED BY <1>1, <1>2, PTL DEF ServerSpec, Spec

(* However start and stop go, nothing outlives the environment it was made in, and  *)
(* run returns with everything released.                                            *)
THEOREM EverythingUnwinds == ServerSpec => []ResourcesUnwind
<1>1. ServerInv => ResourcesUnwind
  BY DEF ServerInv, Holdings, After, ResourcesUnwind
<1> QED BY <1>1, ServerInvariance, PTL

(* A stop that reports success has turned no request away and left none behind.     *)
THEOREM OrderlyStops == ServerSpec => []OrderlyStopAnswersAll
BY ServerInvariance, PTL DEF ServerInv

(* However the goroutines of a probe interleave, with each other and with a stop, its *)
(* answer says ready when all its checks passed and names just those that did not.    *)
THEOREM ProbesAreTrue == ServerSpec => []ProbesTellTheTruth
BY ServerInvariance, PTL DEF ServerInv
=============================================================================
