-------------------------- MODULE RequestPipeline --------------------------
(***************************************************************************)
(* What surrounds a handler: TraceContextLayer (telemetry/trace_context.rs)*)
(* opens the request's span around the call, GrpcMetricsLayer              *)
(* (telemetry/metrics.rs) counts it, and for DeltaTxnService, not for the  *)
(* health service, the interceptor of grpc/auth.rs checks the API key.     *)
(*                                                                         *)
(* A call's status is known to the server either with the response headers *)
(* (nothing was written before it failed) or only when the body, polled by *)
(* the HTTP/2 connection after the call returned, yields its trailers.     *)
(* The connection may drop the call or its body at any time: the client    *)
(* reset the stream, went away, or its deadline passed.  Data frames       *)
(* change none of this state and are left out.                             *)
(***************************************************************************)
EXTENDS Naturals, FiniteSets

CONSTANT Calls   \* the requests

ASSUME CallsFinite == IsFiniteSet(Calls)

Services == {"delta", "health"}
Credential == {"absent", "wrong", "right"}
CallType == [service : Services, x_api_key : Credential, bearer : Credential]
Codes == {"OK", "UNAUTHENTICATED", "INTERNAL", "UNKNOWN"}
PCs == {"new", "calling", "body", "trailed", "over", "dropped"}

VARIABLES
    key_env,    \* DELTA_TXN_GRPC_API_KEY: "unset", "blank" or "key"
    call,       \* the service each request is for and its credentials
    pc,         \* "calling": the future runs; "body": the response was
                \* returned; "trailed": its trailers were seen; "over"
    recorder,   \* the body still holds the call's MetricsRecorder
    ran,        \* the calls whose handler ran
    seen,       \* the status the client was sent, "none" before
    requests,   \* grpc.server.requests
    errors,     \* grpc.server.errors
    recorded    \* the calls that were recorded

vars == <<key_env, call, pc, recorder, ran, seen, requests, errors, recorded>>

(* One type invariant: every variable keeps its shape, and no counter      *)
(* passes the number of requests.                                          *)
TypeOK ==
    /\ key_env \in {"unset", "blank", "key"}
    /\ call \in [Calls -> CallType]
    /\ pc \in [Calls -> PCs]
    /\ recorder \in [Calls -> BOOLEAN]
    /\ ran \subseteq Calls
    /\ seen \in [Calls -> Codes \cup {"none"}]
    /\ requests \in 0 .. Cardinality(Calls)
    /\ errors \in 0 .. requests
    /\ recorded \subseteq Calls

Init ==
    /\ key_env \in {"unset", "blank", "key"}
    /\ call \in [Calls -> CallType]
    /\ pc = [c \in Calls |-> "new"]
    /\ recorder = [c \in Calls |-> FALSE]
    /\ ran = {}
    /\ seen = [c \in Calls |-> "none"]
    /\ requests = 0
    /\ errors = 0
    /\ recorded = {}

----------------------------------------------------------------------------
(* A blank key is no key.                                                  *)
KeyConfigured == key_env = "key"

Authorized_PresenceWins(r) ==
    \/ ~KeyConfigured
    \/ r.x_api_key = "right"
    \/ r.x_api_key = "absent" /\ r.bearer = "right"

(* The interceptor: the x-api-key header, and if that does not match the   *)
(* bearer token.                                                           *)
Authorized(r) ==
    \/ ~KeyConfigured
    \/ r.x_api_key = "right"
    \/ r.x_api_key # "right" /\ r.bearer = "right"

(* record(): one more request, one more error unless it is OK.             *)
record_EverythingIsAnError(c, code) ==
    /\ requests' = requests + 1
    /\ errors' = errors + 1
    /\ recorded' = recorded \cup {c}

record(c, code) ==
    /\ requests' = requests + 1
    /\ errors' = errors + (IF code = "OK" THEN 0 ELSE 1)
    /\ recorded' = recorded \cup {c}

(* MetricsBody: record once, if nothing was recorded so far.               *)
TakeAndRecord_NotTaken(c, code) ==
    /\ IF recorder[c] THEN record(c, code) ELSE UNCHANGED <<requests, errors, recorded>>
    /\ UNCHANGED recorder

TakeAndRecord(c, code) ==
    /\ IF recorder[c] THEN record(c, code) ELSE UNCHANGED <<requests, errors, recorded>>
    /\ recorder' = [recorder EXCEPT ![c] = FALSE]

Goto(c, l) == pc' = [pc EXCEPT ![c] = l]
Tell(c, code) == seen' = [seen EXCEPT ![c] = code]

(* The request reaches the layers, which start its span and its clock.     *)
Arrive(c) ==
    /\ pc[c] = "new"
    /\ Goto(c, "calling")
    /\ UNCHANGED <<key_env, call, recorder, ran, seen, requests, errors, recorded>>

(* Is the request stopped before its service?                              *)
Stopped(c) == call[c].service = "delta" /\ ~Authorized(call[c])

(* A status in the response headers is recorded at once, and the body gets *)
(* no recorder.                                                            *)
TrailersOnly(c, code) ==
    /\ pc[c] = "calling"
    /\ Tell(c, code)
    /\ record(c, code)
    /\ Goto(c, "body")
    /\ UNCHANGED <<key_env, call, recorder>>

AuthRejects(c) == Stopped(c) /\ TrailersOnly(c, "UNAUTHENTICATED") /\ UNCHANGED ran

HandlerFails(c) ==
    /\ ~Stopped(c)
    /\ TrailersOnly(c, "INTERNAL")
    /\ ran' = ran \cup {c}

(* Anything else is left to the body: a message or a stream.               *)
HandlerReturns(c) ==
    /\ pc[c] = "calling"
    /\ ~Stopped(c)
    /\ ran' = ran \cup {c}
    /\ recorder' = [recorder EXCEPT ![c] = TRUE]
    /\ Goto(c, "body")
    /\ UNCHANGED <<key_env, call, seen, requests, errors, recorded>>

(* poll_frame yields the trailers: the stream's end, or its failure after  *)
(* some batches; UNKNOWN stands for trailers without a status.             *)
Trailers(c) ==
    /\ pc[c] = "body"
    /\ seen[c] = "none"
    /\ \E code \in {"OK", "INTERNAL", "UNKNOWN"} :
          Tell(c, code) /\ TakeAndRecord(c, code)
    /\ Goto(c, "trailed")
    /\ UNCHANGED <<key_env, call, ran>>

BodyEnds_NotRecorded(c) ==
    /\ pc[c] \in {"body", "trailed", "over"}
    /\ IF seen[c] = "none" THEN Tell(c, "UNKNOWN") ELSE UNCHANGED seen
    /\ Goto(c, "over")
    /\ UNCHANGED <<key_env, call, ran, recorder, requests, errors, recorded>>

(* poll_frame yields the end or an error, with or without trailers before  *)
(* it, and possibly once more after it.                                    *)
BodyEnds(c) ==
    /\ pc[c] \in {"body", "trailed", "over"}
    /\ IF seen[c] = "none" THEN Tell(c, "UNKNOWN") ELSE UNCHANGED seen
    /\ TakeAndRecord(c, "UNKNOWN")
    /\ Goto(c, "over")
    /\ UNCHANGED <<key_env, call, ran>>

(* The connection drops the future or the body, with whatever it holds.    *)
Drop(c) ==
    /\ pc[c] \in {"calling", "body", "trailed"}
    /\ Goto(c, "dropped")
    /\ recorder' = [recorder EXCEPT ![c] = FALSE]
    /\ UNCHANGED <<key_env, call, ran, seen, requests, errors, recorded>>

Serve(c) == AuthRejects(c) \/ HandlerFails(c) \/ HandlerReturns(c) \/ Trailers(c) \/ BodyEnds(c)

Finished == \A c \in Calls : pc[c] \in {"over", "dropped"}

Next ==
    \/ \E c \in Calls : Arrive(c) \/ Serve(c) \/ Drop(c)
    \/ Finished /\ UNCHANGED vars

Spec == Init /\ [][Next]_vars

(* Handlers return and connections poll the bodies they were given; no     *)
(* request has to come.                                                    *)
FairSpec == Spec /\ \A c \in Calls : WF_vars(Serve(c))

----------------------------------------------------------------------------
(* README.md:226-231, metrics.rs:240-246: the counters are exactly the     *)
(* calls whose status was sent, and those sent with a status other than    *)
(* OK, each once: rejected ones, failures after some data, bodies polled   *)
(* past their end and calls dropped halfway included.                      *)
CountersExact ==
    /\ requests = Cardinality({c \in Calls : seen[c] # "none"})
    /\ errors = Cardinality({c \in Calls : seen[c] \notin {"none", "OK"}})

(* Who may use the service: everyone when no key is configured, health     *)
(* checks always, else who shows the key in either header.                 *)
Entitled(c) ==
    \/ key_env # "key"
    \/ call[c].service = "health"
    \/ "right" \in {call[c].x_api_key, call[c].bearer}

(* auth.rs:26-38, main.rs:210-215: a handler runs only for the entitled,   *)
(* and nobody entitled is turned away, whichever header is wrong.          *)
GateExact ==
    \A c \in Calls :
        /\ c \in ran => Entitled(c)
        /\ seen[c] = "UNAUTHENTICATED" => ~Entitled(c)

(* metrics.rs:37-40: a call is recorded in the end, however its body ends, *)
(* unless the connection dropped it.                                       *)
CountedUnlessDropped ==
    \A c \in Calls : pc[c] = "calling" ~> c \in recorded \/ pc[c] = "dropped"

(* metrics.rs:278-281: a body that is closed abnormally, by a dropped      *)
(* connection too, is recorded rather than never recorded at all.          *)
AbnormalCloseRecorded ==
    \A c \in ran : pc[c] = "dropped" => c \in recorded

----------------------------------------------------------------------------
(* What makes the counters inductive: the body holds the recorder exactly  *)
(* as long as a status is still to come from it ...                        *)
RecorderExact ==
    \A c \in Calls :
        /\ recorder[c] <=> pc[c] = "body" /\ seen[c] = "none"
        /\ pc[c] \in {"new", "calling"} => seen[c] = "none"
        /\ pc[c] \in {"trailed", "over"} => seen[c] # "none"

(* ... and who was recorded is who was sent a status.                      *)
RecordedExact == recorded = {c \in Calls : seen[c] # "none"}

(* The inductive invariant of the layers around the handlers.              *)
IInv ==
    /\ TypeOK
    /\ RecorderExact
    /\ RecordedExact
    /\ CountersExact
    /\ GateExact
=============================================================================
