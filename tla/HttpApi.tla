------------------------------ MODULE HttpApi ------------------------------
(***************************************************************************)
(* internal/httpapi: what a request to each endpoint passes on its way in,   *)
(* what its handler then calls, and the status each outcome is answered with. *)
(* Bodies, headers and messages are left out.                                *)
(***************************************************************************)
EXTENDS Naturals, Sequences

CONSTANTS AllowAnonymousSessions, StoreArtifacts

ASSUME HttpAssumption ==
  AllowAnonymousSessions \in BOOLEAN /\ StoreArtifacts \in BOOLEAN

Endpoints == {"healthz", "readyz", "start", "frames", "complete", "status",
              "enroll", "search", "delete", "elsewhere"}

(* The middleware of the endpoint's group and the checks of its handler, in order. *)
GatesOf(endpoint) ==
  CASE endpoint \in {"healthz", "readyz"} -> <<>>
    [] endpoint = "start" -> IF AllowAnonymousSessions THEN <<"rate">> ELSE <<"rate", "key">>
    [] endpoint = "frames" -> <<"rate", "json", "fields", "base64", "image">>
    [] endpoint \in {"complete", "status"} -> <<"rate">>
    [] endpoint = "enroll" -> <<"key", "json", "fields", "base64", "image">>
    [] endpoint = "search" -> <<"key", "json", "base64", "image">>
    [] endpoint = "delete" -> <<"key", "json", "fields">>
    [] endpoint = "elsewhere" -> <<"key", "route">>

(* imaging.Decode: the size, the header, its format and dimensions, the pixels. *)
DecodeErrors == <<"too_large", "unsupported", "unsupported", "corrupt", "too_many_pixels", "corrupt">>

ImagingStatus(error) ==
  CASE error \in {"too_large", "too_many_pixels"} -> 413
    [] error = "unsupported" -> 415
    [] error = "corrupt" -> 400

RefusalsBy(gate) ==
  CASE gate = "rate" -> {429}
    [] gate = "key" -> {401}
    [] gate = "route" -> {404}
    [] gate = "json" -> {400, 413}
    [] gate \in {"fields", "base64"} -> {400}
    [] gate = "image" -> {ImagingStatus(DecodeErrors[i]) : i \in DOMAIN DecodeErrors}

Refusals(endpoint) ==
  UNION {RefusalsBy(GatesOf(endpoint)[i]) : i \in DOMAIN GatesOf(endpoint)}

(* mapLivenessError; "other" is any error that is no sentinel, of a store too. *)
LivenessStatus(error) ==
  CASE error = "not_found" -> 404
    [] error = "wrong_nonce" -> 403
    [] error = "expired" -> 410
    [] error \in {"finished", "version_conflict", "incomplete"} -> 409
    [] error \in {"sequence_replay", "static_replay", "spoof", "identity", "other"} -> 422

EnrollmentStatus(error) ==
  CASE error = "token_invalid" -> 403
    [] error \in {"identity_mismatch", "no_face", "low_quality"} -> 422
    [] error = "session_unavailable" -> 410
    [] error \in {"subject_not_found", "no_match"} -> 404
    [] error = "other" -> 500

(* The calls a handler makes that can wait or fail: to the database, by one of which  *)
(* enroll reads the session's reference and by others it notes a refusal or a search    *)
(* in the audit trail; to the object store; to the models.                            *)
Calls == {"db", "reference", "refusal", "note", "token", "store", "models"}

(* Calls whose failure is logged and changes nothing of the answer: complete sends *)
(* its verdict without a token; Enroll refuses and Search answers without an entry   *)
(* in the trail, or without having counted the gallery when nothing was near.        *)
BestEffort == {"token", "refusal", "note"}

(* The calls of a handler that comes to its end.  A frame that restarts its challenge  *)
(* is not analysed; only an expired session is written by status and complete; readyz  *)
(* runs its checks beside each other.                                               *)
CallsOf(endpoint) ==
  CASE endpoint \in {"healthz", "readyz", "elsewhere"} -> {<<>>}
    [] endpoint \in {"start", "delete"} -> {<<"db">>}
    [] endpoint = "status" -> {<<"db">>, <<"db", "db">>}
    [] endpoint = "complete" -> {<<"db">>, <<"db", "token">>, <<"db", "db">>, <<"db", "db", "token">>}
    [] endpoint = "frames" -> {<<"db", "db">>, <<"db", "models", "db">>}
    [] endpoint = "enroll" -> {<<"db", "reference", "models", "refusal">>,
                               IF StoreArtifacts
                               THEN <<"db", "reference", "models", "store", "db">>
                               ELSE <<"db", "reference", "models", "db">>}
    [] endpoint = "search" -> {<<"models", "db", "note">>}

(* What the domain may answer before that: errors a service returns of itself.     *)
DomainErrors(endpoint) ==
  CASE endpoint = "frames" ->
         {LivenessStatus(e) : e \in {"not_found", "wrong_nonce", "expired", "finished",
                                     "version_conflict", "sequence_replay"}}
    [] endpoint = "complete" ->
         {LivenessStatus(e) : e \in {"not_found", "wrong_nonce", "expired", "incomplete",
                                     "version_conflict"}}
    [] endpoint = "status" ->
         {LivenessStatus(e) : e \in {"not_found", "wrong_nonce", "version_conflict"}}
    [] endpoint = "enroll" ->
         {EnrollmentStatus(e) : e \in {"token_invalid", "session_unavailable", "no_face"}}
    [] endpoint = "search" -> {EnrollmentStatus(e) : e \in {"no_face", "no_match"}}
    [] endpoint = "delete" -> {EnrollmentStatus("subject_not_found")}
    [] OTHER -> {}

(* The status of a request whose call failed: a store or a model that is not      *)
(* there, a context that is done.                                                *)
FaultStatus(endpoint, call) ==
  CASE endpoint \in {"frames", "complete", "status"} -> LivenessStatus("other")
    [] endpoint = "enroll" /\ call = "reference" -> EnrollmentStatus("session_unavailable")
    [] OTHER -> EnrollmentStatus("other")

ReadinessStatus(failing) == IF failing = {} THEN 200 ELSE 503

Success(endpoint) == IF endpoint \in {"start", "enroll"} THEN 201 ELSE 200

Statuses ==
  {500, 503} \cup {FaultStatus(e, c) : e \in Endpoints, c \in Calls}
             \cup UNION {Refusals(e) \cup DomainErrors(e) \cup {Success(e)} : e \in Endpoints}
=============================================================================
