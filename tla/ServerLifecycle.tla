-------------------------- MODULE ServerLifecycle --------------------------
(***************************************************************************)
(* The life of one process, main.rs: start-up, the readiness status that   *)
(* the health service reports for DeltaTxnService, the task that probes    *)
(* the storage endpoint, the shutdown signal and the drain.  The probe     *)
(* task and the shutdown future write the same status and know nothing of  *)
(* each other.  Time is abstract: the ticker may fire at any moment.       *)
(*                                                                         *)
(* telemetry/tracing.rs lives as long as the process: what is exported is  *)
(* settled first, and flushed by the guard that every way out of main      *)
(* drops.                                                                  *)
(***************************************************************************)
EXTENDS Naturals

CONSTANTS
    Endpoints,     \* the values of AWS_ENDPOINT_URL considered
    OtlpVariables, \* the OTEL_EXPORTER_OTLP_*ENDPOINT variables considered
    MaxInFlight    \* bound: calls and responses in flight at one time

ASSUME EndpointsAssumption == Endpoints \subseteq {"unset", "malformed", "valid"}
ASSUME MaxInFlightAssumption == MaxInFlight \in Nat

VARIABLES
    env,        \* the DELTA_TXN_GRPC_* variables: does the address parse, are
                \* the certificate and the key set
    endpoint,   \* AWS_ENDPOINT_URL of this process
    reachable,  \* does the storage endpoint accept connections
    phase,      \* "booting", "starting", "binding", "serving", "notifying" (signal seen),
                \* "draining" (no new connections), "exited"
    status,     \* what the health service says of DeltaTxnService
    probe,      \* the spawned task: "none", "mark" (about to report a
                \* malformed endpoint), "ticking", "connecting", "report"
    result,     \* the outcome of the last connection attempt
    running,    \* calls whose handler has not returned
    streaming,  \* answered calls whose response is still being sent
    otlp,       \* the endpoint variables of OtlpVariables that are set
    built,      \* the signals with a registered provider
    guard,      \* the signals whose provider the TelemetryGuard will shut down
    meter,      \* do the request metrics record into the meter provider
    pending,    \* the signals with records not handed to the exporter yet
    sent,       \* (history) the signals of which records were handed over
    measured    \* (history) has the code recorded the metrics of some call

requests == <<running, streaming>>
telemetry == <<built, guard, meter, pending, sent, measured>>
vars == <<env, endpoint, reachable, phase, status, probe, result, requests, otlp, telemetry>>

Signals == {"traces", "metrics"}
Env == [addr : BOOLEAN, cert : BOOLEAN, key : BOOLEAN]

(* One type invariant: every variable keeps its shape.                     *)
TypeOK ==
    /\ env \in Env
    /\ endpoint \in Endpoints
    /\ reachable \in BOOLEAN
    /\ phase \in {"booting", "starting", "binding", "serving", "notifying", "draining", "exited"}
    /\ status \in {"UNKNOWN", "SERVING", "NOT_SERVING"}
    /\ probe \in {"none", "mark", "ticking", "connecting", "report"}
    /\ result \in BOOLEAN
    /\ running \in Nat /\ streaming \in Nat /\ running + streaming <= MaxInFlight
    /\ otlp \subseteq OtlpVariables
    /\ built \subseteq Signals /\ guard \subseteq built
    /\ meter \in BOOLEAN
    /\ pending \subseteq built /\ sent \subseteq built
    /\ measured \in BOOLEAN

Init ==
    /\ env \in Env
    /\ endpoint \in Endpoints
    /\ reachable \in BOOLEAN
    /\ phase = "booting"
    /\ status = "UNKNOWN"
    /\ probe = "none"
    /\ result = FALSE
    /\ running = 0 /\ streaming = 0
    /\ otlp \in SUBSET OtlpVariables
    /\ built = {} /\ guard = {} /\ pending = {} /\ sent = {}
    /\ meter = FALSE /\ measured = FALSE

----------------------------------------------------------------------------
(* What spawn_storage_health_probe starts: nothing without an endpoint, a  *)
(* one-shot report for one that has no URL, host or port, else the loop.   *)
ProbeFor_Quiet(e) == IF e = "valid" THEN "ticking" ELSE "none"
ProbeFor(e) ==
    CASE e = "unset"     -> "none"
      [] e = "malformed" -> "mark"
      [] e = "valid"     -> "ticking"

(* Any of the variables turns on the export of both signals.               *)
otel_export_enabled == otlp # {}

(* init_tracing comes first in main.  An exporter that cannot be built     *)
(* leaves its signal unexported and the process goes on.                   *)
GuardFor_TracesOnly(signals) == signals \ {"metrics"}
GuardFor(signals) == signals

init_tracing ==
    /\ phase = "booting"
    /\ built' \in IF otel_export_enabled THEN SUBSET Signals ELSE {{}}
    /\ guard' = GuardFor(built')
    /\ phase' = "starting"
    /\ UNCHANGED <<env, endpoint, reachable, status, probe, result, requests, otlp, meter, pending, sent, measured>>

(* main returns and the guard is dropped: its providers send what is left. *)
DropGuard ==
    /\ pending' = pending \ guard
    /\ sent' = sent \cup (pending \cap guard)
    /\ guard' = {}
    /\ UNCHANGED <<otlp, built, meter, measured>>

(* An address that does not parse, or half of a TLS pair, ends start-up.   *)
ConfigLoads(e) == e.addr /\ (e.cert <=> e.key)

load_grpc_config ==
    /\ phase = "starting"
    /\ ~ConfigLoads(env)
    /\ phase' = "exited"
    /\ DropGuard
    /\ UNCHANGED <<env, endpoint, reachable, status, probe, result, requests>>

(* Counters made from the global meter record into the provider that was   *)
(* registered by then.                                                     *)
InstrumentsRecord_MadeFirst == FALSE
InstrumentsRecord == "metrics" \in built

(* main: report SERVING, spawn the probe and make the instruments of the   *)
(* request metrics, before anything listens ...                            *)
main ==
    /\ phase = "starting"
    /\ ConfigLoads(env)
    /\ status' = "SERVING"
    /\ probe' = ProbeFor(endpoint)
    /\ meter' = InstrumentsRecord
    /\ phase' = "binding"
    /\ UNCHANGED <<env, endpoint, reachable, result, requests, otlp, built, guard, pending, sent, measured>>

(* ... then read the TLS files and bind the address, which may fail.       *)
serve ==
    /\ phase = "binding"
    /\ \/ phase' = "serving" /\ UNCHANGED <<otlp, telemetry>>
       \/ phase' = "exited" /\ DropGuard
    /\ UNCHANGED <<env, endpoint, reachable, status, probe, result, requests>>

MarkMalformed ==
    /\ probe = "mark" /\ phase # "exited"
    /\ status' = "NOT_SERVING"
    /\ probe' = "none"
    /\ UNCHANGED <<env, endpoint, reachable, phase, result, requests, otlp, telemetry>>

Tick ==
    /\ probe = "ticking" /\ phase # "exited"
    /\ probe' = "connecting"
    /\ UNCHANGED <<env, endpoint, reachable, phase, status, result, requests, otlp, telemetry>>

(* The connection is made, refused or timed out.                           *)
Connect ==
    /\ probe = "connecting" /\ phase # "exited"
    /\ result' = reachable
    /\ probe' = "report"
    /\ UNCHANGED <<env, endpoint, reachable, phase, status, requests, otlp, telemetry>>

Reported_OnlyUp(r) == IF r THEN "SERVING" ELSE status
Reported(r) == IF r THEN "SERVING" ELSE "NOT_SERVING"

(* The probe reports what it found, whatever the process is doing.         *)
Report ==
    /\ probe = "report" /\ phase # "exited"
    /\ status' = Reported(result)
    /\ probe' = "ticking"
    /\ UNCHANGED <<env, endpoint, reachable, phase, result, requests, otlp, telemetry>>

(* Storage goes down or comes back.                                        *)
StorageFlips ==
    /\ reachable' = ~reachable
    /\ UNCHANGED <<env, endpoint, phase, status, probe, result, requests, otlp, telemetry>>

(* SIGTERM or Ctrl-C wakes shutdown_signal ...                             *)
Signal ==
    /\ phase = "serving"
    /\ phase' = "notifying"
    /\ UNCHANGED <<env, endpoint, reachable, status, probe, result, requests, otlp, telemetry>>

StatusAtShutdown_Kept == status
StatusAtShutdown == "NOT_SERVING"

(* ... which reports NOT_SERVING and returns: the server stops accepting.  *)
shutdown_signal ==
    /\ phase = "notifying"
    /\ status' = StatusAtShutdown
    /\ phase' = "draining"
    /\ UNCHANGED <<env, endpoint, reachable, probe, result, requests, otlp, telemetry>>

Accept ==
    /\ phase \in {"serving", "notifying"}
    /\ running + streaming < MaxInFlight
    /\ running' = running + 1
    /\ UNCHANGED <<env, endpoint, reachable, phase, status, probe, result, streaming, otlp, telemetry>>

(* What the end of a call's span leaves for the exporter: nothing where    *)
(* the caller's sampling or the log filter says so.                        *)
Spans == SUBSET (built \cap {"traces"})

(* What record() leaves: nothing if the instruments have no provider.      *)
Measurements == IF meter THEN built \cap {"metrics"} ELSE {}

Collect(records, counted) ==
    /\ pending' = pending \cup records
    /\ measured' = (measured \/ counted)
    /\ UNCHANGED <<otlp, built, guard, meter, sent>>

(* A handler returns and its span ends.  A status in the headers is        *)
(* recorded at once; otherwise the recorder goes with the body.            *)
Return ==
    /\ running > 0
    /\ running' = running - 1
    /\ \E span \in Spans :
          \/ streaming' = streaming + 1 /\ Collect(span, FALSE)
          \/ streaming' = streaming /\ Collect(span \cup Measurements, TRUE)
    /\ UNCHANGED <<env, endpoint, reachable, phase, status, probe, result>>

(* The body is polled to its trailers, its end or an error.                *)
BodyEnds ==
    /\ streaming > 0
    /\ streaming' = streaming - 1
    /\ Collect(Measurements, TRUE)
    /\ UNCHANGED <<env, endpoint, reachable, phase, status, probe, result, running>>

(* The client is gone: the call is dropped, which ends its span too, or    *)
(* the body with its recorder.  Neither records metrics.                   *)
Drop ==
    /\ \/ /\ running > 0
          /\ running' = running - 1 /\ streaming' = streaming
          /\ \E span \in Spans : Collect(span, FALSE)
       \/ /\ streaming > 0
          /\ streaming' = streaming - 1 /\ running' = running
          /\ Collect({}, FALSE)
    /\ UNCHANGED <<env, endpoint, reachable, phase, status, probe, result>>

(* The batch and the periodic exporter send now and then.                  *)
Export(s) ==
    /\ s \in pending /\ phase # "exited"
    /\ pending' = pending \ {s}
    /\ sent' = sent \cup {s}
    /\ UNCHANGED <<env, endpoint, reachable, phase, status, probe, result, requests, otlp, built, guard, meter, measured>>

(* serve_with_shutdown returns once everything accepted is answered and    *)
(* sent.                                                                   *)
DrainedNow_Never == FALSE
DrainedNow == running = 0 /\ streaming = 0

Exit ==
    /\ phase = "draining"
    /\ DrainedNow
    /\ phase' = "exited"
    /\ DropGuard
    /\ UNCHANGED <<env, endpoint, reachable, status, probe, result, requests>>

Next ==
    \/ init_tracing \/ load_grpc_config \/ main \/ serve \/ MarkMalformed \/ Tick \/ Connect \/ Report \/ StorageFlips
    \/ Signal \/ shutdown_signal \/ Accept \/ Return \/ BodyEnds \/ Drop \/ Exit
    \/ \E s \in Signals : Export(s)

Spec == Init /\ [][Next]_vars

(* Tasks run, the ticker ticks, handlers return and their responses are    *)
(* read to the end.  No signal has to come, no request has to be made, no  *)
(* client has to leave and storage does not have to change.                *)
FairSpec ==
    /\ Spec
    /\ WF_vars(init_tracing) /\ WF_vars(load_grpc_config) /\ WF_vars(main) /\ WF_vars(serve) /\ WF_vars(MarkMalformed)
    /\ WF_vars(Tick) /\ WF_vars(Connect) /\ WF_vars(Report)
    /\ WF_vars(shutdown_signal) /\ WF_vars(Return) /\ WF_vars(BodyEnds) /\ WF_vars(Exit)

----------------------------------------------------------------------------
(* main.rs:35-42: from the signal on, the process is never reported ready  *)
(* once it has stopped accepting connections.                              *)
DrainingNotReady == phase = "draining" => status = "NOT_SERVING"

(* The same, for the deployments in which no probe loop runs.              *)
UnprobedDrainNotReady == endpoint # "valid" => DrainingNotReady

(* main.rs:101-108: a malformed endpoint ends in NOT_SERVING for good, even*)
(* when start-up, the report and a shutdown race each other.               *)
MalformedNeverReady ==
    endpoint = "malformed" => <>[](phase = "exited" \/ status = "NOT_SERVING")

(* main.rs:75-84: storage that stays down is reported, and storage that    *)
(* stays up is reported again while the process serves, whatever stale     *)
(* probe result was under way when it changed.                             *)
StorageReported ==
    endpoint = "valid" =>
        /\ <>[]~reachable => <>[](phase # "exited" => status = "NOT_SERVING")
        /\ <>[]reachable => <>[](phase = "serving" => status = "SERVING")

(* tracing.rs:16-23, 164-170: whichever way the process ends, nothing that *)
(* was recorded is left behind, and once the code has recorded the metrics *)
(* of a call they are sent if there is an exporter for them: the meter     *)
(* provider was there before the instruments were made.                    *)
FlushedAtExit ==
    phase = "exited" =>
        /\ pending = {}
        /\ measured /\ "metrics" \in built => "metrics" \in sent

(* main.rs:20-33: a signalled process lets its requests finish and exits.  *)
ShutdownCompletes == phase = "notifying" ~> phase = "exited"

----------------------------------------------------------------------------
(* What makes the safety properties inductive: until the process exits the *)
(* guard answers for every provider that was built ...                     *)
GuardComplete == phase # "exited" => guard = built

(* ... nothing is served or recorded before the address is bound, or after *)
(* the last response was sent ...                                          *)
QuietOutsideService ==
    /\ phase \in {"booting", "starting", "binding"} => pending = {} /\ sent = {} /\ ~measured
    /\ phase \in {"booting", "starting", "binding", "exited"} => running = 0 /\ streaming = 0
    /\ phase = "exited" => pending = {}

(* ... and what the instruments record reaches the provider there is.      *)
MetricsKept ==
    /\ phase \in {"binding", "serving", "notifying", "draining"} => (meter <=> "metrics" \in built)
    /\ measured /\ "metrics" \in built => "metrics" \in sent \cup pending

(* A process without a valid endpoint never has a probe that may report    *)
(* SERVING.                                                                *)
NoProbeLoop == endpoint # "valid" => probe \in {"none", "mark"}

(* The inductive invariant of the process.                                 *)
IInv ==
    /\ TypeOK
    /\ GuardComplete
    /\ QuietOutsideService
    /\ MetricsKept
    /\ NoProbeLoop
    /\ UnprobedDrainNotReady
=============================================================================
