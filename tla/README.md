# Formal verification of delta-txn-service

TLA+ models of the gRPC service in this repository, TLC runs on small instances
and TLAPS proofs. `PROJECT.json` maps every definition to the source lines it
models and lists the runs, mutants, findings, hazards and theorems.

## The system

One process serves `DeltaTxnService` (`Commit`, `GetTable`, `ListActiveFiles`)
and the standard health service. Several replicas may run against the same
tables; they share nothing but each table's `_delta_log` in object storage,
whose conditional put creates version N only if it does not exist yet.

| Component | State | Operations | Talks to |
|---|---|---|---|
| Table lock manager (`locking/table_lock.rs`) | map key → ref-counted entry with an async mutex | `lock_for`, `lock`, guard drop, `TableLock::drop`, `remove_if_unused` | used by Commit |
| Commit path (`grpc/server.rs` `commit`, `delta/*`) | the table's log (shared), the lock | URI check, mapping, lock, exists, open, version check, `create_table` / `commit_actions` | lock manager, storage, CommitBuilder (delta-rs) |
| Read path (`get_table`, `list_active_files`) | a snapshot, a batch, a bounded channel | exists, open, header, batches, tail, error item | storage, client stream |
| Process life (`main.rs`) | readiness status, probe task, requests in flight | configuration, start, probe loop, shutdown signal, drain | health service, storage endpoint |
| Request layers (`telemetry/metrics.rs`, `trace_context.rs`, `grpc/auth.rs`) | counters, one recorder per response body, the span | record at headers, trailers, end or error; check of the API key | every RPC |
| URI normalisation and allowlist (`server.rs`, `config/storage.rs`) | the allowlist, directories made on the way | two-step check around `ensure_table_uri` | Commit and reads, the lock's key |
| Mapping (`grpc/mapping.rs`), operation choice (`delta/commit.rs`) | none; what it makes is in the log | protobuf ↔ Delta actions, files, statistics, metadata; `build_operation` | Commit and reads |
| Telemetry start-up (`telemetry/tracing.rs`) | providers, the guard, records not yet sent | `init_tracing`, guard drop | process life, request layers |
| Generated code, deployment | – | – | – |

What is hard: calls interleave at every await and with other replicas; a call
can be dropped at any await while its put is still under way; a replica can die
between the put and the answer; an entry of the lock map is evicted without a
lock held across the decision; a listing races with commits, with a slow client
and with its own failure; two tasks write the readiness status; a response's
status is known only after the call has returned; one table has many spellings,
and normalising one has a side effect; what is committed passes through two
translations, and JSON, before a reader sees it.

What makes each part correct:

* lock manager – one mutex per key at any time, exact reference counts, no entry
  left behind, every waiter served, also past cancelled waiters;
* commit – a request enters the log at most once, OK names its version, a
  rejected request never lands, a table starts with its protocol and metadata,
  an expected version is honoured, every call is answered;
* reads – one snapshot, complete unless an error says otherwise, never older
  than the call; the spawned task never outlives its client for good;
* process – outage and recovery reach the readiness status, a draining process
  is not ready, shutdown completes;
* telemetry – whatever was recorded is flushed, whichever way the process ends;
* request layers – each sent status counted once; exactly the entitled served;
* table URIs – exactly what lies below a configured prefix is served, what the
  check of the URI as sent can refuse leaves nothing behind, one table has one
  lock;
* mapping – a request is mapped whole or refused; readers get back what was
  sent, as values of the types the table declares; the operation is the declared
  one.

## Modules

| Module | Models |
|---|---|
| `KeyLock` | abstract: one FIFO line per key; its first task may hold the lock |
| `TableLock` | the lock manager, one action per atomic step |
| `TableLockProofs` | its invariant and theorems; refinement of `KeyLock` |
| `CommitLog` | abstract: what clients may conclude from an answer to Commit |
| `DeltaCommit` | Commit on several replicas; the lock of each replica is a `KeyLock` |
| `DeltaCommitProofs` | its invariant and theorems; refinement of `CommitLog` |
| `ReadPath`, `ReadPathProofs` | GetTable and ListActiveFiles with its task and channel |
| `ServerLifecycle`, `ServerLifecycleProofs` | start-up, readiness status, probe, shutdown and drain; telemetry export |
| `RequestPipeline`, `RequestPipelineProofs` | metrics and API key layers around a handler |
| `TableUri`, `TableUriProofs` | allowlist, normalisation and lock key; the locks are a `KeyLock` |
| `Mapping`, `MappingProofs` | the contents of commits: protobuf to log and back, and the operation |
| `SequenceLemmas` | what leaving a line does to it, and inductions over numbers and sequences, for the proofs |
| `MC*` | the instances TLC checks |

Operators named `X_Something` directly above an operator `X` are mistakes one
could make in the code for `X`. They are used nowhere in the specifications; the
mutant list in `PROJECT.json` puts them in the place of `X` to confirm that the
named property notices.

### TableLock

`locks` is the DashMap, `ref_count[e]` the entry's atomic, `line[e]` the tokio
mutex (its first task has the permit, the others queue), `entry` and `key` the
fields of each call's `TableLock`. `lock_for` and `remove_if_unused` each hold
the shard lock and are one step; `drop`'s `fetch_sub` is a step of its own, so
the window before the eviction is there. A call may be dropped while it waits,
with or without the permit (`Cancel`), or while it holds the guard (`Unlock`).
Addresses of entries are reused as soon as no Arc owns them, which is what makes
`Arc::ptr_eq` worth checking: the remover still owns its entry, so its address
cannot come back under it.

### CommitLog and DeltaCommit

`log` is the table's `_delta_log`, one request per version. Each await in
`commit()` is a value of `pc`; `Begin`/`EnterSection`/`Finish` are `KeyLock`'s
Join, Enter and Leave, so the early returns release the lock as the guard does.
`CommitBuilder` is external, modelled from how `commit.rs` describes and uses
it: an attempt re-reads the latest version, may end in a conflict with what it
missed, puts the next version, and repeats up to `MaxAttempts`; without a
snapshot (`create_table`) it first puts version 0 and, if that is taken, loads
the table and continues. Faults: a storage call fails (`StorageFails`), a call is
dropped (`Cancel`), a replica crashes and restarts (`Crash`); a put that was sent
by then may land later or never (`orphan`). Assumed of storage: a put reports
"exists" only if somebody else's put created that version.

`CommitLog` says what an answer means: OK is durable and names the version;
a rejection is final; INTERNAL, a lost connection, and ABORTED from a creating
call are no verdict. That last exception is the finding below: without it the
refinement does not hold. The state "table not initialized" after a successful
open is not modelled, since a loaded table has a version.

### ReadPath

`table` is the history of active file sets, growing at any time. The task goes
exists → open → header → files, full batches being flushed, → tail, and every
failure becomes one last error item. `chan` is the mpsc channel: a send waits
for room and fails only once the receiver is gone. Files are model values; what
`map_active_file_to_pb` makes of them is left to the mapping.

### ServerLifecycle

`status` is what the health service says of DeltaTxnService. The probe task and
`shutdown_signal` both write it. Time is abstract: a tick may come at any
moment, and a connection that times out is one that is not `reachable`. Requests
on a connection that is being drained are counted when they were accepted before
the listener stopped.

`init_tracing` is the first step. `built` are the signals whose exporter could be
built (any subset, none without an OTLP endpoint), `guard` those the
`TelemetryGuard` will shut down, `meter` whether the request metrics' instruments
were made while a meter provider was set. A call is `running` in its handler,
then its body may be `streaming`. Its span ends when the handler returns
(`Return`) or the call is dropped (`Drop`); a status in the headers is recorded
with the return, any other when the body is polled to its end (`BodyEnds`), and
never if it is dropped. So a span may go without metrics; the history variable
`measured` says whether `record` was called at all, and what it recorded must
reach the exporter. Records wait in `pending`; the SDK's exporters send them now
and then, and `DropGuard` is part of every action by which `main` returns. A collector that does not answer is not
told apart from one that does: what is handed to the exporter is `sent`.

### RequestPipeline

`recorder[c]` is the `Option<MetricsRecorder>` of the body, `seen[c]` the status
the client was sent. A call rejected or failed before its first message is
recorded during the call; anything else when the connection polls trailers, the
end or an error out of the body. The connection may drop either at any time. The
arm for an `Err` of the inner service is left out: tonic's routes are infallible.

### TableUri

A URI is a scheme and the text after `scheme:`, a sequence of tokens in which
`"/"` separates names and a name is one or more tokens, so that `t` is a proper
beginning of `t-new`, and `s3://` minus its last slash is a prefix of every `s3`
URI, as in the code. `allowlist` is the Option, a set of at most one list.
`normalize_and_check_table_uri` has no await and is one action with the
three outcomes of the code; it is followed, in a Commit, by `lock_for` and `lock`
on the normalised URI. The check of the URI as sent goes by `"://"`
(`HasSchemeMark`), which `file:/srv/d` does not have although it is a file URI;
such a URI is handled like a bare path. `ensure_table_uri` is delta-rs's: it reads the segments
of the text (`Segments`), resolves relative paths and dot segments (`Resolve`),
writes the result without a final slash (`Absolute`), makes a directory for a
local table, and fails on an unknown scheme or, for a local table, on I/O, before
or after its directory was made. These
are recursive functions over the places of a sequence, so that they can be proved
about. Symbolic links are not modelled, nor is percent-encoding: a name is a token
that `Url` writes as it is, as it does with letters and digits; a name it would
encode (a space, say) is compared encoded in the code. What delta-rs makes of an
empty segment inside a URI with `"://"` (`s3://b//t`), or of a remote URI without
it, is not considered.

`AllowlistExact` has two halves. What is served is at or below a configured
prefix, for any prefix. What is at or below one is not refused if the prefix is
`Tidy` (single slashes, at most one at the end) and the URI has no dot segments or
no `"://"`: the match is one of texts, so a prefix `s3://b//t` admits nothing, and a
URI with `"://"` is first compared as it was sent. `NoDirectoryForRefused` says which
requests can leave a directory outside the list: refused or failed ones whose URI has
no `"://"`, or has dot segments that the comparison as sent does not follow. The
second kind is a finding.

### Mapping

`log` holds what `map_actions` made of each request together with the operation
given to CommitBuilder; `sent` remembers the requests. The operators keep the
code's names; the min/max pairs of functions, which differ only in the enum they
produce, are one operator each. An `Option`, and the `Ok` of a `Result`, is a set of
at most one element, and so is a JSON text that may be absent. A JSON value keeps
its JSON type, because that is what the way back goes by. `ListActiveFiles` and
`GetTable` are operators on the log: a file is active if the last commit that
mentions its path adds it; metadata is the last of its kind. Nothing in this
repository says which of two actions about one path in one commit counts, so the
model leaves it open: `Holds` of neither, and the path is among the files of neither
side of `FilesReadBack` until a later commit mentions it (the run has such a
request). For the same reason a request has at most one Metadata. A path alone
names a file; deletion vectors, which `map_action` always leaves unset, are not
modelled.

The partition values of a listed file are not the log's texts: delta-rs reads them
as values of the table's partition columns and the service writes each value as text
(`partition_values`, `server.rs:283-308`). The constant `Scalar` gives, for a column
type and a text, the text of the value, or nothing for null; `PartitionColumns` are
those of the last metadata. `FilesReadBack` therefore says that `02024` in an integer
column comes back as `2024`, that a key that is no column is not listed, and that a
column without a value, or with null, is listed as `""`. Texts that cannot be read as
a value of their column's type make the listing fail in delta-rs and are out of scope
(`ScalarAssumption`). `Copy` is a client that lists a file and commits it
again. `CanCreate` is the check for a Protocol and a Metadata in front of version 0.
Commits here never conflict; that is `DeltaCommit`'s subject. `map_protocol` and the
`serde_json` errors that no request can cause are left out, as is a stored schema
that does not parse; `parse_schema` followed by `to_string` gives one canonical
text. Floating-point numbers are names, so a printed double reads back as itself.

## Runs

| Run | Instance | Shows |
|---|---|---|
| `lock` | 3 calls, 2 tables, 4 allocations | safety and inductive invariant of the lock manager; it implements `KeyLock`; waiters are served |
| `commit` | 3 calls, 2 replicas, 2 attempts, all kinds of request, all faults | implements `CommitLog`; at most once; create first; expected version; and, while all calls went to one replica and none was dropped or failed, what the lock buys: no contended put, expected version exact |
| `commit_live` | 3 calls, 2 replicas, 2 attempts, dropped calls | every call is answered |
| `commit_aborted` | 2 calls, 2 replicas, no faults | violated, see findings |
| `read` | 4 files, batches of 2, channel of 1, 2 commits | snapshot, completeness, stream grammar, batch sizes, freshness; the task ends without its client; every read ends |
| `lifecycle` | all endpoint settings and configurations, 2 OTLP variables, 2 requests in flight, each answered or dropped | readiness, shutdown, flush at exit |
| `lifecycle_drain` | an endpoint with a probe loop | violated, see findings |
| `pipeline` | 2 requests, all credentials and key settings | exact counters, exact gate, everything recorded unless dropped |
| `pipeline_dropped` | 1 request | violated, see findings |
| `table_uri` | 2 calls, 18 spellings, 8 allowlists | exact allowlist, which requests leave directories, one lock per table |
| `mapping` | 3 commits, 49 requests, 8 foreign files, 2 column types | all or nothing, files and metadata read back, operation as declared, copies stable |
| `mapping_target_size` | the same | violated, see findings |

`IInv`, in every run of a module that has one, is the inductive invariant of the
proofs; the type invariant is its first conjunct.

Bounds. Three calls are a late remover, a holder and a newcomer, the cast of the
eviction race described at `table_lock.rs:25-51`; one more allocation than can be
in use lets every address be reused or not. The proofs cover every size. Three commits are a
winner, a loser and one that moves the version again while the loser retries;
two replicas because more add no new kind of sharing. Two attempts give a first
try, a retry and the exhausted limit. Up to four files in batches of
two give full batches, a tail, exact multiples and none; the channel is small
enough to be full. Two calls are two spellings of one table; the spellings have a
sibling that starts with the prefix's last name, dot segments into and out of a
prefix, remote and local, file URIs with and without `"://"`, and every kind of local path; the allowlists are unset, blank, with and
without a final slash, all of a store, and untidy. Three commits create a table, write and
overwrite; the requests have every type of minimum and maximum, absent and
unrepresentable ones, every operation, partition values that are and are not
written as their column writes them, two actions on one path, and a bad action
first, last and alone. Calls, replicas and files are
interchangeable where symmetry is used, and no liveness run uses it.

Fairness. Weak fairness of a call's own steps: the tokio runtime polls what can
run, destructors run, storage answers or errors. It is never assumed that a
client calls, that a signal comes, or that a fault happens. `ReadEnds` assumes that
a client that stays keeps reading; `TaskEndsWithoutClient` gains nothing from
that, since a client that left takes no more steps. `ShutdownCompletes` and `CountedUnlessDropped` assume that
handlers return and response bodies are read to their end: a client that neither
reads its listing nor leaves holds up the drain, and so does a `Watch` of the health
service, whose stream never ends by itself; such a body is also not recorded before
its client leaves.

## Proofs

Each proof module has the same plan: stream or line lemmas, `InitIInv`, one lemma
per action that it keeps `IInv`, `NextIInv`, the theorem `InvariantCorrect`
(`Spec => []IInv`), and then the properties as consequences. Every theorem holds
for all values of the constants that meet the assumptions below.

**Lock manager** (`TableLockProofs`): `InvariantCorrect`, `TypeCorrect`,
`MutexCorrect`, `NoLeakCorrect`. Mutual exclusion alone is not inductive: that two
holders of one key use one mutex needs `LiveHandleIsCurrent` (a live handle's
entry is the map's), whose preservation by an eviction needs `RefCountExact`
(a count of zero means that no handle is left); a reused address needs
`OneKeyPerEntry`; and "only the first in line holds" needs `LineExact`, that a
line holds each of its tasks once. `NextNoLeak` shows on top of it that the last
handle to go always leaves an evicter. `LockManagerImplementsKeyLock`
maps each step to Join, Enter, Leave or a stutter of
`KeyLock`; that an eviction is a stutter needs that the evicted entry's line is
empty, which again is `RefCountExact`.

**Commit** (`DeltaCommitProofs`): `AtMostOnceCorrect`, `StartsWithCreateCorrect`,
`ExpectedHonouredCorrect`, `NoLostRaceCorrect`, `ExpectedExactCorrect`, and
`CommitRpcImplementsCommitLog`. A request lands at most once because a call that
landed has no put left, neither its own nor an orphan (`PlaceSound`), and an orphan
belongs to a call that got no verdict (`AnswerSound`). That an expected version is
honoured although CommitBuilder retries needs `PutSound`: every put under way,
orphans included, is for a version above the expected one. `StartsWithCreate`
needs the same for version 0 (only a creating call puts it) and `PathSound` (who
creates has a Protocol and a Metadata and expects nothing). What the lock buys is
`Uncontended`: while all calls went to one replica and none was dropped or failed,
the snapshot of the working call is the latest version up to its put, because
`LineSound` lets no other call work in between. The refinement then maps each
step to one of `CommitLog` or a stutter, with `IInv` as its invariant.

**Reads** (`ReadPathProofs`): `SnapshotCorrect`, `CleanEndCorrect`,
`StreamShapeCorrect`, `FreshCorrect`. None is inductive over what the client has
received; the invariant speaks of `Stream`, the received items followed by those
in the channel. `StreamSound` has its grammar and that nothing but its end may be
short or an error while the task still works; `FilesSound` that the stream, the
batch and the unread files are disjoint parts of the header's version;
`NothingLost` that they are all of it as long as the client is there. Receiving
leaves the stream as it is, and a client that leaves cuts it to what was received
(`StreamPrefix`).

**Process** (`ServerLifecycleProofs`): `UnprobedDrainCorrect`, `FlushedCorrect`.
The guard has every provider that was built until exit (`GuardComplete`), and the
instruments record into the provider there is, so what was measured is pending or
sent (`MetricsKept`); nothing is recorded before the address is bound or after the
last response (`QuietOutsideService`); a deployment without a
valid endpoint has no probe that reports SERVING (`NoProbeLoop`).

**Request layers** (`RequestPipelineProofs`): `CountersCorrect`, `GateCorrect`. A
body has its recorder exactly while its status is still to come (`RecorderExact`),
so taking it counts a call once.

**Table URIs** (`TableUriProofs`): `InvariantCorrect`, `OneCommitCorrect`,
`AllowlistCorrect`, `NoDirectoryCorrect`. The lock key depends on the location
alone (`OneKeyPerLocation`), a Commit is in the line of that key and no other, and
a holder is at its front (`LineSound`). `VerdictSound` ties every verdict and every
directory to the list read at the start; that a verdict is exact is `VerdictsExact`.
The rest is about texts and paths, where
the induction over data is done by hand: a least counterexample gives induction
over numbers for a *set* of them (`UpTo`), from which follow induction over
sequences (`SeqInduction`) and that a recursive function over the places of a
sequence has the values its definition says (`RunExists`, then `ScanSteps`,
`WalkSteps`, `WriteSteps`). `SegmentsSplit`, that a slash ends a segment whatever
surrounds it, is the heart: a text that matches a prefix has its segments in front
(`MatchCovers`). For the other half, what was written is read back
(`JoinedFacts`), and a path below another is written as its text, a slash and more
(`JoinedBelow`), so a tidy prefix matches as text what it covers as a path
(`TidyMatches`).

**Mapping** (`MappingProofs`): `InvariantCorrect`, `AllOrNothingCorrect`,
`OperationCorrect`, `MetadataCorrect`, `FilesCorrect`, `CopyCorrect`. The invariant
(`Logged`) says that every version of the log is, action by action, what
`map_actions` makes of the request remembered for it, and that foreign files are
as other writers may leave them. Since log and requests then have the same kinds
at the same places, "last" means the same in both, and what remains is that each
action reads back: minimum and maximum, null counts and tags there and back, type
by type, and partition values by the columns of the last metadata, which are the same
in log and requests (`ColumnsSent`, `PartitionThereAndBack`). What is listed is
listed the same again (`ReportedAgain`). That a table has a last metadata is the greatest place of a finite set,
again from a least counterexample. A copy is stable because its file is the last
mention of its path after the commit.

Assumptions on constants: `TasksFinite`, `CallsFinite` (calls in flight are
finitely many); `NoneIsNew`, `NoneIsNoVersion` (None is no allocation, no
version); `TokensAssumption` (no name has a slash in it), `CwdAssumption` (the
working directory is a path of names), `UrisAssumption` (request URIs with `"://"`
have no empty segments inside, those without are local), `ScalarAssumption` (texts of
partition values can be read, the text of a value is read as that value, and an empty
text as empty or null), `RequestsOnTheWire` and `ForeignFilesInTheLog` (the
shapes that protobuf and the Delta log allow); `MaxAttemptsAssumption`, `BatchAssumption`, `CapacityAssumption` (limits
of at least one, as in the code), `MaxInFlightAssumption`; and the types of the
requests, faults, endpoints, URIs and settings considered. The bounds `MaxVersions`
and `MaxInFlight` restrict how long a behaviour is; no invariant mentions them
except as a type.

Only model-checked is all liveness (`WaiterServed`, `EveryCallEnds`,
`TaskEndsWithoutClient`, `ReadEnds`, `MalformedNeverReady`, `StorageReported`,
`ShutdownCompletes`, `CountedUnlessDropped`), which needs fairness and ENABLED. Every
safety property of a passing run is a theorem.

## Findings

* `commit_aborted` – a creating call that loses the race to another replica is
  answered ABORTED although its actions landed at version 1 or later;
  `errors.rs:31-33` says that such a request never reached CommitBuilder, and
  `errors.rs:43-47` that repeating it is right, which would commit it twice.
* `lifecycle_drain` – the probe loop sets SERVING again after the shutdown signal
  set NOT_SERVING; `main.rs:35-42` describes a draining pod as not ready.
* `pipeline_dropped` – a connection dropped while a response streams is not
  recorded, since the body is dropped and not polled; `metrics.rs:278-281` lists
  dropped connections among the recorded ends.
* `mapping_target_size` – `int_param` and `uint_param` read JSON numbers, but
  every parameter of a request is made a JSON string, so an OPTIMIZE's
  `target_size` is always 0 and a RESTORE's `version` and `datetime` are always
  unset; the test at `commit.rs:289-309` expects the declared `target_size`, with
  a JSON number that no request can produce. The operation is only used for
  conflict detection and the commit's own provenance.

Two more are shown by properties that hold, since the documents claim the opposite
of what the code does:

* `mapping`, `OperationAsDeclared` – CommitBuilder is told the client's operation
  and predicate (`commit.rs:106-137`); the wire contract says that the operation
  does not affect the isolation level, "a separate, hardcoded value"
  (`delta_txn.proto:165-170`), and that the parameters are not read back
  (`delta_txn.proto:319-323`). The comment at `mapping.rs:355-365` is out of date in
  the same way.
* `table_uri`, `NoDirectoryForRefused` – under the prefix `file:///srv/d` the URI
  `file:///srv/d/../e` passes the check as sent, gets the directory `/srv/e` and is
  then refused; `file:/srv/e` is not checked as sent. `server.rs:134-137` says that
  a disallowed absolute URI never reaches `ensure_table_uri`, and
  `e2e_security.rs:135` that a rejected URI must not create a directory. Without its
  exception for dot segments the property is violated.

Noted while reading, without a run:

* `commit.rs:189-191` requires exactly one Protocol and one Metadata, while the
  caller checks for at least one;
* a normal response is recorded when its body is polled, after the future that
  carries the request's span has returned, and the listing task that
  `server.rs:524` spawns logs its failures outside any span, while
  `main.rs:239-243` says that recording and every log call under a request happen
  inside the span's scope;
* `server.rs:111-114` says that the allowlist is checked before any I/O and
  matches by characters; for a path without a scheme the directory is made
  before the check (which `server.rs:129-148` says), and `storage.rs:43-55`
  matches by segments;
* a null partition value is listed as an empty string, and statistics of other
  writers without `numRecords` are listed with 0 records;
* `tracing.rs:214-217` says that the metrics endpoint alone suffices to export
  metrics only; it enables the export of both signals.

## Not modelled

The wire contract and generated code, deployment manifests, the log layer on
stdout and the OTLP protocol choice (`tracing.rs:203-212`), the attributes,
latencies and trace identifiers that the request layers attach, the forwarding of
`AWS_*` variables (`storage.rs:3-23`, a copy of the environment), and the inside of
delta-rs (deletion vectors and unreadable partition values among it), tokio, tonic, hyper and the OpenTelemetry SDK beyond what the code
relies on.

## Plan

1. Lock manager, abstract lock, proofs and refinement (done).
2. Commit on several replicas and its abstract log (done); reads (done);
   process life (done); request layers (done).
3. `TableUri`: allowlist, two-step check, lock key (done).
4. `Mapping`: contents of commits there and back, `build_operation` (done);
   telemetry in `ServerLifecycle` (done).
5. Inductive invariants and safety theorems of every component, and the
   refinements of `KeyLock` and `CommitLog` (done).
6. Left: a composition of reads with `DeltaCommit`: a client reads what it was
   told was committed, across replicas.
