----------------------- MODULE ServerLifecycleProofs -----------------------
(***************************************************************************)
(* Proofs about the life of the process, for any endpoint settings and any *)
(* number of requests in flight: what the health service may say while it  *)
(* drains without a probe, and what is exported by the time it has exited. *)
(***************************************************************************)
EXTENDS ServerLifecycle, TLAPS

(* The process before main's first statement.                              *)
LEMMA InitIInv == Init => IInv
<1> SUFFICES ASSUME Init PROVE IInv
  OBVIOUS
<1>1. TypeOK
  <2>1. running \in Nat /\ streaming \in Nat /\ running + streaming <= MaxInFlight
    BY MaxInFlightAssumption DEF Init
  <2> QED  BY <2>1 DEF Init, TypeOK
<1>2. GuardComplete /\ QuietOutsideService /\ MetricsKept
  BY DEF Init, GuardComplete, QuietOutsideService, MetricsKept
<1>3. NoProbeLoop /\ UnprobedDrainNotReady
  BY DEF Init, NoProbeLoop, UnprobedDrainNotReady, DrainingNotReady
<1> QED  BY <1>1, <1>2, <1>3 DEF IInv

(* Dropping the guard leaves nothing pending and loses nothing.            *)
LEMMA DropGuardFlushes ==
    ASSUME TypeOK, GuardComplete, MetricsKept, phase # "exited", DropGuard
    PROVE  /\ pending' = {} /\ sent' = sent \cup pending
           /\ guard' = {} /\ built' = built /\ meter' = meter /\ otlp' = otlp /\ measured' = measured
  BY DEF TypeOK, GuardComplete, DropGuard

(* Every way out of main drops the guard when nothing is in flight.        *)
LEMMA ExitIInv ==
    ASSUME IInv, phase # "exited", running = 0 /\ streaming = 0, phase' = "exited", DropGuard,
           UNCHANGED <<env, endpoint, reachable, status, probe, result, requests>>
    PROVE  IInv'
<1> USE DEF requests
<1>1. /\ pending' = {} /\ sent' = sent \cup pending
      /\ guard' = {} /\ built' = built /\ meter' = meter /\ otlp' = otlp /\ measured' = measured
  BY DropGuardFlushes DEF IInv
<1>2. TypeOK'
  BY <1>1 DEF IInv, TypeOK
<1>3. GuardComplete' /\ QuietOutsideService'
  BY <1>1 DEF GuardComplete, QuietOutsideService
<1>4. MetricsKept'
  BY <1>1 DEF IInv, MetricsKept
<1>5. NoProbeLoop' /\ UnprobedDrainNotReady'
  BY DEF IInv, NoProbeLoop, UnprobedDrainNotReady, DrainingNotReady
<1> QED  BY <1>2, <1>3, <1>4, <1>5 DEF IInv

(* Steps that leave telemetry and the requests alone.                      *)
LEMMA QuietStep ==
    ASSUME IInv, UNCHANGED <<endpoint, requests, otlp, telemetry>>, TypeOK',
           \/ phase' = phase
           \/ phase = "binding" /\ phase' = "serving"
           \/ phase = "serving" /\ phase' = "notifying"
           \/ phase = "notifying" /\ phase' = "draining",
           NoProbeLoop', UnprobedDrainNotReady'
    PROVE  IInv'
<1> USE DEF requests, telemetry
<1>1. GuardComplete'
  BY DEF IInv, GuardComplete
<1>2. QuietOutsideService'
  BY DEF IInv, QuietOutsideService
<1>3. MetricsKept'
  BY DEF IInv, MetricsKept
<1> QED  BY <1>1, <1>2, <1>3 DEF IInv

(* init_tracing.                                                           *)
LEMMA InitTracingIInv == IInv /\ init_tracing => IInv'
<1> SUFFICES ASSUME IInv, init_tracing PROVE IInv'
  OBVIOUS
<1> USE DEF init_tracing, GuardFor, requests
<1>0. built' \subseteq Signals
  BY DEF otel_export_enabled
<1>1. TypeOK'
  BY <1>0 DEF IInv, TypeOK, QuietOutsideService
<1>2. GuardComplete' /\ QuietOutsideService' /\ MetricsKept'
  BY DEF IInv, GuardComplete, QuietOutsideService, MetricsKept
<1>3. NoProbeLoop' /\ UnprobedDrainNotReady'
  BY DEF IInv, NoProbeLoop, UnprobedDrainNotReady, DrainingNotReady
<1> QED  BY <1>1, <1>2, <1>3 DEF IInv

(* A configuration that does not load ends main.                           *)
LEMMA LoadGrpcConfigIInv == IInv /\ load_grpc_config => IInv'
<1> SUFFICES ASSUME IInv, load_grpc_config PROVE IInv'
  OBVIOUS
<1>1. phase = "starting" /\ running = 0 /\ streaming = 0
  BY DEF load_grpc_config, IInv, QuietOutsideService
<1> QED  BY <1>1, ExitIInv DEF load_grpc_config

(* main up to the listener: the instruments are made after the provider.   *)
LEMMA MainIInv == IInv /\ main => IInv'
<1> SUFFICES ASSUME IInv, main PROVE IInv'
  OBVIOUS
<1> USE DEF main, InstrumentsRecord, requests
<1>0. /\ probe' \in {"none", "mark", "ticking"}
      /\ endpoint # "valid" => probe' \in {"none", "mark"}
  BY EndpointsAssumption DEF ProbeFor, IInv, TypeOK
<1>1. TypeOK'
  BY <1>0 DEF IInv, TypeOK
<1>2. GuardComplete' /\ QuietOutsideService'
  BY DEF IInv, GuardComplete, QuietOutsideService
<1>3. MetricsKept'
  BY DEF IInv, MetricsKept, QuietOutsideService
<1>4. NoProbeLoop' /\ UnprobedDrainNotReady'
  BY <1>0 DEF NoProbeLoop, UnprobedDrainNotReady, DrainingNotReady
<1> QED  BY <1>1, <1>2, <1>3, <1>4 DEF IInv

(* The listener is bound, or main returns.                                 *)
LEMMA ServeIInv == IInv /\ serve => IInv'
<1> SUFFICES ASSUME IInv, serve PROVE IInv'
  OBVIOUS
<1>1. CASE phase' = "serving" /\ UNCHANGED <<otlp, telemetry>>
  <2>1. TypeOK'
    BY <1>1 DEF serve, IInv, TypeOK, telemetry, requests
  <2>2. NoProbeLoop' /\ UnprobedDrainNotReady'
    BY <1>1 DEF serve, IInv, NoProbeLoop, UnprobedDrainNotReady, DrainingNotReady
  <2> QED  BY <1>1, <2>1, <2>2, QuietStep DEF serve
<1>2. CASE phase' = "exited" /\ DropGuard
  <2>1. phase = "binding" /\ running = 0 /\ streaming = 0
    BY DEF serve, IInv, QuietOutsideService
  <2> QED  BY <1>2, <2>1, ExitIInv DEF serve
<1> QED  BY <1>1, <1>2 DEF serve

(* The probe task and storage.  Without a valid endpoint the probe can     *)
(* only report NOT_SERVING.                                                *)
LEMMA ProbeIInv ==
    IInv /\ (MarkMalformed \/ Tick \/ Connect \/ Report \/ StorageFlips) => IInv'
<1> SUFFICES ASSUME IInv, MarkMalformed \/ Tick \/ Connect \/ Report \/ StorageFlips PROVE IInv'
  OBVIOUS
<1> USE DEF MarkMalformed, Tick, Connect, Report, StorageFlips
<1>1. TypeOK'
  BY DEF IInv, TypeOK, Reported, telemetry, requests
<1>2. NoProbeLoop'
  BY DEF IInv, NoProbeLoop
<1>3. UnprobedDrainNotReady'
  BY DEF IInv, NoProbeLoop, UnprobedDrainNotReady, DrainingNotReady
<1> QED  BY <1>1, <1>2, <1>3, QuietStep

(* The signal and the status it sets before the listener closes.           *)
LEMMA ShutdownIInv == IInv /\ (Signal \/ shutdown_signal) => IInv'
<1> SUFFICES ASSUME IInv, Signal \/ shutdown_signal PROVE IInv'
  OBVIOUS
<1> USE DEF Signal, shutdown_signal, StatusAtShutdown
<1>1. TypeOK'
  BY DEF IInv, TypeOK, telemetry, requests
<1>2. NoProbeLoop' /\ UnprobedDrainNotReady'
  BY DEF IInv, NoProbeLoop, UnprobedDrainNotReady, DrainingNotReady
<1> QED  BY <1>1, <1>2, QuietStep

(* A request is accepted.                                                  *)
LEMMA AcceptIInv == IInv /\ Accept => IInv'
<1> SUFFICES ASSUME IInv, Accept PROVE IInv'
  OBVIOUS
<1> USE DEF Accept, telemetry
<1>1. TypeOK'
  BY MaxInFlightAssumption DEF IInv, TypeOK
<1>2. GuardComplete' /\ QuietOutsideService' /\ MetricsKept'
  BY DEF IInv, GuardComplete, QuietOutsideService, MetricsKept
<1>3. NoProbeLoop' /\ UnprobedDrainNotReady'
  BY DEF IInv, NoProbeLoop, UnprobedDrainNotReady, DrainingNotReady
<1> QED  BY <1>1, <1>2, <1>3 DEF IInv

(* What a step of a call records, and that its metrics reach the provider. *)
LEMMA CollectIInv ==
    ASSUME IInv, NEW records \in SUBSET built, NEW counted \in BOOLEAN, Collect(records, counted),
           counted /\ meter => built \cap {"metrics"} \subseteq records,
           running > 0 \/ streaming > 0,
           running' \in Nat, streaming' \in Nat, running' + streaming' <= MaxInFlight,
           UNCHANGED <<env, endpoint, reachable, phase, status, probe, result>>
    PROVE  IInv'
<1>0. /\ pending' = pending \cup records /\ measured' = (measured \/ counted)
      /\ UNCHANGED <<env, endpoint, reachable, phase, status, probe, result, otlp, built, guard, meter, sent>>
  BY DEF Collect
<1>1. phase \in {"serving", "notifying", "draining"}
  BY DEF IInv, TypeOK, QuietOutsideService
<1>2. TypeOK'
  <2>1. pending' \subseteq built /\ measured' \in BOOLEAN
    BY <1>0 DEF IInv, TypeOK
  <2> QED  BY <1>0, <2>1 DEF IInv, TypeOK
<1>3. GuardComplete' /\ QuietOutsideService'
  BY <1>0, <1>1 DEF IInv, GuardComplete, QuietOutsideService
<1>4. MetricsKept'
  <2>1. meter <=> "metrics" \in built
    BY <1>1 DEF IInv, MetricsKept
  <2>2. counted /\ "metrics" \in built => "metrics" \in pending'
    BY <1>0, <2>1
  <2> QED  BY <1>0, <2>1, <2>2 DEF IInv, MetricsKept
<1>5. NoProbeLoop' /\ UnprobedDrainNotReady'
  BY <1>0 DEF IInv, NoProbeLoop, UnprobedDrainNotReady, DrainingNotReady
<1> QED  BY <1>2, <1>3, <1>4, <1>5 DEF IInv

(* A handler returns: its metrics are recorded now or go with the body.    *)
LEMMA ReturnIInv == IInv /\ Return => IInv'
<1> SUFFICES ASSUME IInv, Return PROVE IInv'
  OBVIOUS
<1>0. /\ running \in Nat /\ streaming \in Nat /\ running + streaming <= MaxInFlight
      /\ MaxInFlight \in Nat /\ running > 0 /\ running' = running - 1
      /\ UNCHANGED <<env, endpoint, reachable, phase, status, probe, result>>
  BY MaxInFlightAssumption DEF Return, IInv, TypeOK
<1>1. PICK span \in Spans :
          \/ streaming' = streaming + 1 /\ Collect(span, FALSE)
          \/ streaming' = streaming /\ Collect(span \cup Measurements, TRUE)
  BY DEF Return
<1>2. span \subseteq built
  BY DEF Spans
<1>3. CASE streaming' = streaming + 1 /\ Collect(span, FALSE)
  <2>1. running' \in Nat /\ streaming' \in Nat /\ running' + streaming' <= MaxInFlight
    BY <1>0, <1>3
  <2> QED  BY <1>0, <1>2, <1>3, <2>1, CollectIInv
<1>4. CASE streaming' = streaming /\ Collect(span \cup Measurements, TRUE)
  <2>1. running' \in Nat /\ streaming' \in Nat /\ running' + streaming' <= MaxInFlight
    BY <1>0, <1>4
  <2>2. /\ span \cup Measurements \in SUBSET built
        /\ meter => built \cap {"metrics"} \subseteq span \cup Measurements
    BY <1>2 DEF Measurements
  <2> QED  BY <1>0, <1>4, <2>1, <2>2, CollectIInv
<1> QED  BY <1>1, <1>3, <1>4

(* A response is sent to its end.                                          *)
LEMMA BodyEndsIInv == IInv /\ BodyEnds => IInv'
<1> SUFFICES ASSUME IInv, BodyEnds PROVE IInv'
  OBVIOUS
<1>0. /\ streaming > 0 /\ streaming' = streaming - 1 /\ running' = running
      /\ Collect(Measurements, TRUE)
      /\ UNCHANGED <<env, endpoint, reachable, phase, status, probe, result>>
  BY DEF BodyEnds
<1>1. running' \in Nat /\ streaming' \in Nat /\ running' + streaming' <= MaxInFlight
  BY <1>0, MaxInFlightAssumption DEF IInv, TypeOK
<1>2. Measurements \in SUBSET built /\ (meter => built \cap {"metrics"} \subseteq Measurements)
  BY DEF Measurements
<1> QED  BY <1>0, <1>1, <1>2, CollectIInv

(* A client leaves: a span may end, no metrics are recorded.               *)
LEMMA DropIInv == IInv /\ Drop => IInv'
<1> SUFFICES ASSUME IInv, Drop PROVE IInv'
  OBVIOUS
<1>0. /\ \/ running > 0 /\ running' = running - 1 /\ streaming' = streaming
         \/ streaming > 0 /\ streaming' = streaming - 1 /\ running' = running
      /\ UNCHANGED <<env, endpoint, reachable, phase, status, probe, result>>
  BY DEF Drop
<1>1. /\ running > 0 \/ streaming > 0
      /\ running' \in Nat /\ streaming' \in Nat /\ running' + streaming' <= MaxInFlight
  BY <1>0, MaxInFlightAssumption DEF IInv, TypeOK
<1>2. \E records \in SUBSET built : Collect(records, FALSE)
  BY DEF Drop, Spans
<1> QED  BY <1>0, <1>1, <1>2, CollectIInv

(* The exporters move a signal from pending to sent.                       *)
LEMMA ExportIInv == ASSUME IInv, NEW s \in Signals, Export(s) PROVE IInv'
<1> USE DEF Export, requests
<1>1. TypeOK'
  BY DEF IInv, TypeOK
<1>2. GuardComplete' /\ MetricsKept'
  BY DEF IInv, GuardComplete, MetricsKept
<1>3. QuietOutsideService'
  BY DEF IInv, QuietOutsideService
<1>4. NoProbeLoop' /\ UnprobedDrainNotReady'
  BY DEF IInv, NoProbeLoop, UnprobedDrainNotReady, DrainingNotReady
<1> QED  BY <1>1, <1>2, <1>3, <1>4 DEF IInv

(* Every step preserves the invariant.                                     *)
LEMMA NextIInv == IInv /\ [Next]_vars => IInv'
<1> SUFFICES ASSUME IInv, [Next]_vars PROVE IInv'
  OBVIOUS
<1>1. CASE Exit
  BY <1>1, ExitIInv DEF Exit, DrainedNow
<1>2. CASE UNCHANGED vars
  BY <1>2 DEF vars, telemetry, requests, IInv, TypeOK, GuardComplete, QuietOutsideService, MetricsKept,
     NoProbeLoop, UnprobedDrainNotReady, DrainingNotReady
<1> QED  BY <1>1, <1>2, InitTracingIInv, LoadGrpcConfigIInv, MainIInv, ServeIInv, ProbeIInv,
            ShutdownIInv, AcceptIInv, ReturnIInv,
            BodyEndsIInv, DropIInv, ExportIInv DEF Next

(* The inductive invariant holds in every state of the process: types, a   *)
(* guard that answers for every provider, no request outside the time of   *)
(* service, instruments that record into the provider there is, and no     *)
(* ready status in an unprobed drain (main.rs, tracing.rs).                *)
THEOREM InvariantCorrect == Spec => []IInv
  BY InitIInv, NextIInv, PTL DEF Spec

(* Without a probe loop a draining process is never reported ready, even   *)
(* when the report of a malformed endpoint comes late.                     *)
THEOREM UnprobedDrainCorrect == Spec => []UnprobedDrainNotReady
<1>1. IInv => UnprobedDrainNotReady
  BY DEF IInv
<1> QED  BY <1>1, InvariantCorrect, PTL

(* Whichever way main returns, nothing recorded is left behind, and no     *)
(* metrics were recorded into nowhere although an exporter was there       *)
(* (tracing.rs:16-39, 164-170).                                            *)
THEOREM FlushedCorrect == Spec => []FlushedAtExit
<1>1. IInv => FlushedAtExit
  BY DEF IInv, FlushedAtExit, QuietOutsideService, MetricsKept
<1> QED  BY <1>1, InvariantCorrect, PTL
=============================================================================
