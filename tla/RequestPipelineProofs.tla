----------------------- MODULE RequestPipelineProofs -----------------------
(***************************************************************************)
(* Proofs about the layers around the handlers, for any finite set of      *)
(* requests: the request metrics count every status that was sent exactly  *)
(* once, and the API key decides exactly who reaches a handler.            *)
(***************************************************************************)
EXTENDS RequestPipeline, TLAPS, FiniteSetTheorems

Told == {c \in Calls : seen[c] # "none"}
Failed == {c \in Calls : seen[c] \notin {"none", "OK"}}

(* The counted calls are finitely many.                                    *)
LEMMA CountsAreNumbers ==
    /\ IsFiniteSet(Told) /\ Cardinality(Told) \in Nat
    /\ IsFiniteSet(Failed) /\ Cardinality(Failed) \in Nat
    /\ Cardinality(Failed) <= Cardinality(Told)
    /\ Cardinality(Told) <= Cardinality(Calls)
    /\ Cardinality(Calls) \in Nat
<1>1. Told \subseteq Calls /\ Failed \subseteq Told
  BY DEF Told, Failed
<1>2. IsFiniteSet(Told) /\ Cardinality(Told) <= Cardinality(Calls)
  BY <1>1, CallsFinite, FS_Subset
<1>3. IsFiniteSet(Failed) /\ Cardinality(Failed) <= Cardinality(Told)
  BY <1>1, <1>2, FS_Subset
<1> QED  BY <1>2, <1>3, CallsFinite, FS_CardinalityType

(* The bounds of the counters follow from their exactness.                 *)
LEMMA CounterBounds ==
    ASSUME CountersExact
    PROVE  requests \in 0 .. Cardinality(Calls) /\ errors \in 0 .. requests
<1>1. requests = Cardinality(Told) /\ errors = Cardinality(Failed)
  BY DEF CountersExact, Told, Failed
<1> QED  BY <1>1, CountsAreNumbers

(* record(), called for a request that was sent its status just now, keeps *)
(* the counters exact.                                                     *)
LEMMA RecordCounts ==
    ASSUME TypeOK, CountersExact, RecordedExact, NEW c \in Calls, NEW code \in Codes,
           seen[c] = "none", Tell(c, code), record(c, code)
    PROVE  CountersExact' /\ RecordedExact'
<1>0. seen'[c] = code /\ code # "none" /\ \A d \in Calls : d # c => seen'[d] = seen[d]
  BY DEF TypeOK, Tell, Codes
<1>1. Told' = Told \cup {c} /\ c \notin Told
  BY <1>0 DEF Told
<1>2. requests' = Cardinality(Told')
  <2>1. Cardinality(Told') = Cardinality(Told) + 1
    BY <1>1, CountsAreNumbers, FS_AddElement
  <2> QED  BY <2>1 DEF record, CountersExact, Told
<1>3. errors' = Cardinality(Failed')
  <2>1. CASE code = "OK"
    <3>1. Failed' = Failed
      BY <1>0, <2>1 DEF Failed
    <3>2. errors = Cardinality(Failed) /\ errors' = errors + 0
      BY <2>1 DEF record, CountersExact, Failed
    <3> QED  BY <3>1, <3>2, CountsAreNumbers
  <2>2. CASE code # "OK"
    <3>1. Failed' = Failed \cup {c} /\ c \notin Failed
      BY <1>0, <2>2 DEF Failed
    <3>2. Cardinality(Failed') = Cardinality(Failed) + 1
      BY <3>1, CountsAreNumbers, FS_AddElement
    <3> QED  BY <2>2, <3>2 DEF record, CountersExact, Failed
  <2> QED  BY <2>1, <2>2
<1>4. RecordedExact'
  <2>1. recorded' = Told \cup {c}
    BY DEF record, RecordedExact, Told
  <2> QED  BY <2>1, <1>1 DEF RecordedExact, Told
<1> QED  BY <1>2, <1>3, <1>4 DEF CountersExact, Told, Failed

(* A call that was sent nothing new changes no counter.                    *)
LEMMA NothingRecorded ==
    ASSUME CountersExact, RecordedExact, UNCHANGED <<seen, requests, errors, recorded>>
    PROVE  CountersExact' /\ RecordedExact'
  BY DEF CountersExact, RecordedExact

(* The interceptor lets exactly the entitled through.                      *)
LEMMA StoppedExact ==
    ASSUME TypeOK, NEW c \in Calls
    PROVE  Stopped(c) <=> ~Entitled(c)
<1>1. call[c].service \in {"delta", "health"}
  BY DEF TypeOK, CallType, Services
<1> QED  BY <1>1 DEF Stopped, Authorized, KeyConfigured, Entitled

(* The layers before the first request.                                    *)
LEMMA InitIInv == Init => IInv
<1> SUFFICES ASSUME Init PROVE IInv
  OBVIOUS
<1>1. Told = {} /\ Failed = {}
  BY DEF Init, Told, Failed
<1>2. CountersExact
  BY <1>1, FS_EmptySet DEF Init, CountersExact, Told, Failed
<1>3. RecordedExact
  BY <1>1 DEF Init, RecordedExact, Told
<1>4. TypeOK
  BY <1>2, CounterBounds DEF Init, TypeOK, PCs
<1>5. RecorderExact /\ GateExact
  BY DEF Init, RecorderExact, GateExact
<1> QED  BY <1>2, <1>3, <1>4, <1>5 DEF IInv

(* A step of call c, by what it does to that call.                         *)
LEMMA CallStep ==
    ASSUME IInv, NEW c \in Calls, NEW p \in PCs, Goto(c, p), UNCHANGED <<key_env, call>>,
           recorder' \in [Calls -> BOOLEAN], seen' \in [Calls -> Codes \cup {"none"}],
           ran' = ran \/ ran' = ran \cup {c},
           \A d \in Calls : d # c => recorder'[d] = recorder[d] /\ seen'[d] = seen[d],
           recorder'[c] <=> p = "body" /\ seen'[c] = "none",
           p \in {"new", "calling"} => seen'[c] = "none",
           p \in {"trailed", "over"} => seen'[c] # "none",
           c \in ran' => Entitled(c),
           seen'[c] = "UNAUTHENTICATED" => ~Entitled(c),
           CountersExact', RecordedExact'
    PROVE  IInv'
<1>1. pc' = [pc EXCEPT ![c] = p] /\ pc'[c] = p /\ \A d \in Calls : d # c => pc'[d] = pc[d]
  BY DEF Goto, IInv, TypeOK
<1>2. requests' \in 0 .. Cardinality(Calls) /\ errors' \in 0 .. requests'
  <2>1. requests' = Cardinality(Told') /\ errors' = Cardinality(Failed')
    BY DEF CountersExact, Told, Failed
  <2>2. /\ Cardinality(Told') \in Nat /\ Cardinality(Failed') \in Nat /\ Cardinality(Calls) \in Nat
        /\ Cardinality(Failed') <= Cardinality(Told') /\ Cardinality(Told') <= Cardinality(Calls)
    <3>1. Told' \subseteq Calls /\ Failed' \subseteq Told'
      BY DEF Told, Failed
    <3>2. IsFiniteSet(Told') /\ Cardinality(Told') <= Cardinality(Calls)
      BY <3>1, CallsFinite, FS_Subset
    <3>3. IsFiniteSet(Failed') /\ Cardinality(Failed') <= Cardinality(Told')
      BY <3>1, <3>2, FS_Subset
    <3> QED  BY <3>2, <3>3, CallsFinite, FS_CardinalityType
  <2> QED  BY <2>1, <2>2
<1>3. TypeOK'
  <2>1. recorded' \subseteq Calls
    BY DEF RecordedExact
  <2> QED  BY <1>1, <1>2, <2>1 DEF IInv, TypeOK
<1>4. RecorderExact'
  BY <1>1 DEF IInv, RecorderExact
<1>5. GateExact'
  <2>1. \A d \in Calls : Entitled(d)' <=> Entitled(d)
    BY DEF Entitled
  <2> QED  BY <2>1 DEF IInv, GateExact
<1> QED  BY <1>3, <1>4, <1>5 DEF IInv

(* The layers see the request.                                             *)
LEMMA ArriveIInv == ASSUME IInv, NEW c \in Calls, Arrive(c) PROVE IInv'
<1> USE DEF Arrive
<1>1. CountersExact' /\ RecordedExact'
  BY NothingRecorded DEF IInv
<1>2. seen[c] = "none" /\ ~recorder[c] /\ (c \in ran => Entitled(c))
  BY DEF IInv, RecorderExact, GateExact
<1> QED  BY <1>1, <1>2, CallStep DEF IInv, TypeOK, PCs

(* A status in the headers: the interceptor's, or a handler's error.       *)
LEMMA TrailersOnlyIInv ==
    ASSUME IInv, NEW c \in Calls, NEW code \in Codes, TrailersOnly(c, code),
           ran' = ran \/ ran' = ran \cup {c},
           c \in ran' => Entitled(c),
           code = "UNAUTHENTICATED" => ~Entitled(c)
    PROVE  IInv'
<1> USE DEF TrailersOnly
<1>1. TypeOK /\ seen[c] = "none" /\ ~recorder[c]
  BY DEF IInv, RecorderExact
<1>2. CountersExact' /\ RecordedExact'
  BY <1>1, RecordCounts DEF IInv
<1>3. /\ seen' \in [Calls -> Codes \cup {"none"}] /\ seen'[c] = code /\ code # "none"
      /\ \A d \in Calls : d # c => seen'[d] = seen[d]
  BY <1>1 DEF TypeOK, Tell, Codes
<1>4. "body" \in PCs /\ recorder' \in [Calls -> BOOLEAN]
  BY <1>1 DEF TypeOK, PCs
<1> QED  BY <1>1, <1>2, <1>3, <1>4, CallStep

(* check_api_key and a handler that fails before it wrote anything.        *)
LEMMA ServedInHeadersIInv ==
    ASSUME IInv, NEW c \in Calls, AuthRejects(c) \/ HandlerFails(c) PROVE IInv'
<1>0. (Stopped(c) <=> ~Entitled(c)) /\ (c \in ran => Entitled(c))
  BY StoppedExact DEF IInv, GateExact
<1>1. CASE AuthRejects(c)
  BY <1>0, <1>1, TrailersOnlyIInv DEF AuthRejects, Codes
<1>2. CASE HandlerFails(c)
  BY <1>0, <1>2, TrailersOnlyIInv DEF HandlerFails, Codes
<1> QED  BY <1>1, <1>2

(* A response whose status is still to come gets a recorder.               *)
LEMMA HandlerReturnsIInv == ASSUME IInv, NEW c \in Calls, HandlerReturns(c) PROVE IInv'
<1> USE DEF HandlerReturns
<1>1. TypeOK /\ seen[c] = "none" /\ Entitled(c)
  BY StoppedExact DEF IInv, RecorderExact
<1>2. CountersExact' /\ RecordedExact'
  BY NothingRecorded DEF IInv
<1>3. recorder' \in [Calls -> BOOLEAN] /\ recorder'[c] = TRUE /\ \A d \in Calls : d # c => recorder'[d] = recorder[d]
  BY <1>1 DEF TypeOK
<1>4. "body" \in PCs /\ seen' \in [Calls -> Codes \cup {"none"}]
  BY <1>1 DEF TypeOK, PCs
<1> QED  BY <1>1, <1>2, <1>3, <1>4, CallStep

(* MetricsBody::poll_frame sees the trailers.                              *)
LEMMA TrailersIInv == ASSUME IInv, NEW c \in Calls, Trailers(c) PROVE IInv'
<1>0. TypeOK /\ recorder[c] /\ seen[c] = "none" /\ (c \in ran => Entitled(c))
  BY DEF Trailers, IInv, RecorderExact, GateExact
<1>1. PICK code \in {"OK", "INTERNAL", "UNKNOWN"} : Tell(c, code) /\ TakeAndRecord(c, code)
  BY DEF Trailers
<1>2. record(c, code) /\ recorder' = [recorder EXCEPT ![c] = FALSE]
  BY <1>0, <1>1 DEF TakeAndRecord
<1>3. CountersExact' /\ RecordedExact'
  BY <1>0, <1>1, <1>2, RecordCounts DEF IInv, Codes
<1>4. /\ seen' \in [Calls -> Codes \cup {"none"}] /\ seen'[c] = code
      /\ recorder' \in [Calls -> BOOLEAN] /\ ~recorder'[c]
      /\ \A d \in Calls : d # c => seen'[d] = seen[d] /\ recorder'[d] = recorder[d]
  BY <1>0, <1>1, <1>2 DEF TypeOK, Tell, Codes
<1>5. Goto(c, "trailed") /\ UNCHANGED <<key_env, call, ran>> /\ "trailed" \in PCs
  BY DEF Trailers, PCs
<1> QED  BY <1>0, <1>1, <1>3, <1>4, <1>5, CallStep

(* MetricsBody::poll_frame sees the end or an error, once or again.        *)
LEMMA BodyEndsIInv == ASSUME IInv, NEW c \in Calls, BodyEnds(c) PROVE IInv'
<1>0. TypeOK /\ (recorder[c] <=> seen[c] = "none") /\ (c \in ran => Entitled(c))
  BY DEF BodyEnds, IInv, RecorderExact, GateExact
<1>1. recorder' = [recorder EXCEPT ![c] = FALSE] /\ Goto(c, "over") /\ UNCHANGED <<key_env, call, ran>>
  BY DEF BodyEnds, TakeAndRecord
<1>2. recorder' \in [Calls -> BOOLEAN] /\ ~recorder'[c] /\ \A d \in Calls : d # c => recorder'[d] = recorder[d]
  BY <1>0, <1>1 DEF TypeOK
<1>3. CASE seen[c] = "none"
  <2>1. Tell(c, "UNKNOWN") /\ record(c, "UNKNOWN")
    BY <1>0, <1>3 DEF BodyEnds, TakeAndRecord
  <2>2. CountersExact' /\ RecordedExact'
    BY <1>0, <1>3, <2>1, RecordCounts DEF IInv, Codes
  <2>3. /\ seen' \in [Calls -> Codes \cup {"none"}] /\ seen'[c] = "UNKNOWN"
        /\ \A d \in Calls : d # c => seen'[d] = seen[d]
    BY <1>0, <2>1 DEF TypeOK, Tell, Codes
  <2> QED  BY <1>0, <1>1, <1>2, <2>2, <2>3, CallStep DEF PCs
<1>4. CASE seen[c] # "none"
  <2>1. UNCHANGED <<seen, requests, errors, recorded>>
    BY <1>0, <1>4 DEF BodyEnds, TakeAndRecord
  <2>2. CountersExact' /\ RecordedExact'
    BY <2>1, NothingRecorded DEF IInv
  <2>3. seen' \in [Calls -> Codes \cup {"none"}] /\ (seen'[c] = "UNAUTHENTICATED" => ~Entitled(c))
    BY <1>0, <2>1 DEF TypeOK, IInv, GateExact
  <2> QED  BY <1>0, <1>1, <1>2, <1>4, <2>1, <2>2, <2>3, CallStep DEF PCs
<1> QED  BY <1>3, <1>4

(* The connection drops the call: its recorder is never asked again.       *)
LEMMA DropIInv == ASSUME IInv, NEW c \in Calls, Drop(c) PROVE IInv'
<1> USE DEF Drop
<1>0. TypeOK /\ (c \in ran => Entitled(c)) /\ (seen[c] = "UNAUTHENTICATED" => ~Entitled(c))
  BY DEF IInv, GateExact
<1>1. CountersExact' /\ RecordedExact'
  BY NothingRecorded DEF IInv
<1>2. recorder' \in [Calls -> BOOLEAN] /\ ~recorder'[c] /\ \A d \in Calls : d # c => recorder'[d] = recorder[d]
  BY <1>0 DEF TypeOK
<1>3. "dropped" \in PCs /\ seen' \in [Calls -> Codes \cup {"none"}]
  BY <1>0 DEF TypeOK, PCs
<1> QED  BY <1>0, <1>1, <1>2, <1>3, CallStep

(* Every step preserves the invariant.                                     *)
LEMMA NextIInv == IInv /\ [Next]_vars => IInv'
<1> SUFFICES ASSUME IInv, [Next]_vars PROVE IInv'
  OBVIOUS
<1>1. ASSUME NEW c \in Calls, Arrive(c) \/ Serve(c) \/ Drop(c) PROVE IInv'
  BY <1>1, ArriveIInv, ServedInHeadersIInv, HandlerReturnsIInv, TrailersIInv, BodyEndsIInv, DropIInv DEF Serve
<1>2. CASE UNCHANGED vars
  <2> USE <1>2 DEF vars
  <2>1. TypeOK' /\ RecorderExact'
    BY DEF IInv, TypeOK, RecorderExact
  <2>2. CountersExact' /\ RecordedExact'
    BY NothingRecorded DEF IInv
  <2>3. GateExact'
    BY DEF IInv, GateExact, Entitled
  <2> QED  BY <2>1, <2>2, <2>3 DEF IInv
<1> QED  BY <1>1, <1>2 DEF Next

(* The inductive invariant holds in every state of the layers: types, with *)
(* a recorder exactly where a status is still to come.                     *)
THEOREM InvariantCorrect == Spec => []IInv
  BY InitIInv, NextIInv, PTL DEF Spec

(* The request metrics are exact: each status that was sent is counted     *)
(* once, whichever of headers, trailers, end or error carried it.          *)
THEOREM CountersCorrect == Spec => []CountersExact
<1>1. IInv => CountersExact
  BY DEF IInv
<1> QED  BY <1>1, InvariantCorrect, PTL

(* A handler runs only for the entitled, and only others are refused.      *)
THEOREM GateCorrect == Spec => []GateExact
<1>1. IInv => GateExact
  BY DEF IInv
<1> QED  BY <1>1, InvariantCorrect, PTL
=============================================================================
