---------------------------- MODULE DeltaCommit ----------------------------
(***************************************************************************)
(* The Commit RPC (grpc/server.rs commit, delta/commit.rs, delta/table.rs) *)
(* of several replicas of the service on one table.  The replicas share    *)
(* only the table's _delta_log in object storage, whose conditional put    *)
(* creates version N only if it does not exist.  Inside a replica the call *)
(* holds the table's lock (KeyLock, implemented by TableLock) from before  *)
(* the exists check until it is answered.                                  *)
(*                                                                         *)
(* Every await on storage is a step of its own, so anything another call   *)
(* or replica does can come between two of them; at each of them the call  *)
(* can be dropped (client gone) and the whole replica can crash.  A put    *)
(* that was sent before that may still reach storage afterwards.           *)
(*                                                                         *)
(* CommitBuilder (delta-rs) is external: with a snapshot it re-reads the   *)
(* latest version, checks the commits it missed for conflicts, puts the    *)
(* next version and repeats, up to a limit, when that version was taken;   *)
(* without one it puts version 0 and, when that was taken, loads the table *)
(* and goes on in the same way.                                            *)
(***************************************************************************)
EXTENDS Integers, Sequences, FiniteSets, SequencesExt

CONSTANTS
    Requests,     \* the Commit calls
    Replicas,     \* processes of the service
    CallKinds,    \* the CommitRequests a client may send, see CallType
    MaxAttempts,  \* CommitBuilder's limit on puts after a snapshot
    Faults,       \* which of "storage", "cancel", "crash" may happen
    None

(* A CommitRequest: which of the handler's checks its table_uri passes;    *)
(* whether its actions do not map, are data actions only, or include both  *)
(* a Protocol and a Metadata; and its expected_version.                    *)
CallType ==
    [uri : {"ok", "malformed", "denied"},
     actions : {"malformed", "data", "create"},
     expected : Int \cup {None}]

ASSUME CallKindsAssumption == CallKinds \subseteq CallType
ASSUME MaxAttemptsAssumption == MaxAttempts \in Nat \ {0}
ASSUME FaultsAssumption == Faults \subseteq {"storage", "cancel", "crash"}
ASSUME NoneIsNoVersion == None \notin Int

VARIABLES
    log,        \* the table's log in storage: the request of each version
    line,       \* line[r]: the table lock of replica r
    holding,    \* the calls inside the locked section
    home,       \* the replica each call was sent to
    call,       \* its CommitRequest
    pc,         \* where the call is
    target,     \* the version the call's next put is for: one more than its
                \* snapshot's version, 0 for a table that did not exist
    creating,   \* the call went down the create_table path
    attempts,   \* puts it has made against a snapshot
    answer,     \* the Status of the answered call, with the version if OK
    orphan      \* its put was sent and nobody waits for it any more

lockVars == <<line, holding>>
vars == <<log, line, holding, home, call, pc, target, creating, attempts, answer, orphan>>

Lock == INSTANCE KeyLock WITH Tasks <- Requests, Keys <- Replicas

(* pc: the await the call is at.  "exists" table_exists; "open" open_table;*)
(* "attempt", "put", "reload", "landed" inside CommitBuilder.              *)
Locked == {"exists", "open", "attempt", "put", "reload", "landed"}
InCall == Locked \cup {"waiting"}
Codes == {"NONE", "OK", "INVALID_ARGUMENT", "PERMISSION_DENIED", "FAILED_PRECONDITION",
          "ABORTED", "INTERNAL", "LOST"}

Pending == [code |-> "NONE", version |-> 0]

(* One type invariant: every variable keeps its shape.                     *)
TypeOK ==
    /\ log \in Seq(Requests)
    /\ line \in [Replicas -> Seq(Requests)]
    /\ holding \subseteq Requests
    /\ home \in [Requests -> Replicas]
    /\ call \in [Requests -> CallKinds]
    /\ pc \in [Requests -> InCall \cup {"new", "done"}]
    /\ target \in [Requests -> Nat]
    /\ creating \in [Requests -> BOOLEAN]
    /\ attempts \in [Requests -> 0 .. MaxAttempts]
    /\ answer \in [Requests -> [code : Codes, version : Nat]]
    /\ orphan \in [Requests -> BOOLEAN]

Init ==
    /\ log = <<>>
    /\ line = [r \in Replicas |-> <<>>]
    /\ holding = {}
    /\ home \in [Requests -> Replicas]
    /\ call \in [Requests -> CallKinds]
    /\ pc = [t \in Requests |-> "new"]
    /\ target = [t \in Requests |-> 0]
    /\ creating = [t \in Requests |-> FALSE]
    /\ attempts = [t \in Requests |-> 0]
    /\ answer = [t \in Requests |-> Pending]
    /\ orphan = [t \in Requests |-> FALSE]

----------------------------------------------------------------------------
(* The version of the latest commit in storage, -1 where no table exists,  *)
(* and the version a writer that has seen `seen` puts next.                *)
Current == Len(log) - 1
NextVersion(seen) == seen + 1

(* DeltaTxnError and the gRPC status each variant becomes.                 *)
StatusOf_Retryable(error) == "ABORTED"
StatusOf(error) == IF error = "VersionConflict" THEN "ABORTED" ELSE "INTERNAL"

Goto(t, l) == pc' = [pc EXCEPT ![t] = l]

Finish_KeepsGuard(t, code, v) ==
    /\ Goto(t, "done")
    /\ answer' = [answer EXCEPT ![t] = [code |-> code, version |-> v]]
    /\ UNCHANGED <<line, holding>>

(* The call is answered and its guard dropped.                             *)
Finish(t, code, v) ==
    /\ Goto(t, "done")
    /\ answer' = [answer EXCEPT ![t] = [code |-> code, version |-> v]]
    /\ Lock!Leave(t, home[t])

(* The verdict on the request itself, reached before the lock is taken:    *)
(* normalize_and_check_table_uri, then map_actions.                        *)
Verdict(c) ==
    CASE c.uri = "malformed"     -> "INVALID_ARGUMENT"
      [] c.uri = "denied"        -> "PERMISSION_DENIED"
      [] c.actions = "malformed" -> "INVALID_ARGUMENT"
      [] OTHER                   -> "OK"

RejectInvalid(t) ==
    /\ pc[t] = "new"
    /\ Verdict(call[t]) # "OK"
    /\ Goto(t, "done")
    /\ answer' = [answer EXCEPT ![t] = [code |-> Verdict(call[t]), version |-> 0]]
    /\ UNCHANGED <<log, line, holding, home, call, target, creating, attempts, orphan>>

(* A valid request asks for the table's lock.                              *)
Begin(t) ==
    /\ pc[t] = "new"
    /\ Verdict(call[t]) = "OK"
    /\ Lock!Join(t, home[t])
    /\ Goto(t, IF t \in holding' THEN "exists" ELSE "waiting")
    /\ UNCHANGED <<log, home, call, target, creating, attempts, answer, orphan>>

EnterSection_OutOfTurn(t) ==
    /\ pc[t] = "waiting"
    /\ holding' = holding \cup {t}
    /\ Goto(t, "exists")
    /\ UNCHANGED <<log, line, home, call, target, creating, attempts, answer, orphan>>

EnterSection(t) ==
    /\ pc[t] = "waiting"
    /\ Lock!Enter(t, home[t])
    /\ Goto(t, "exists")
    /\ UNCHANGED <<log, home, call, target, creating, attempts, answer, orphan>>

(* What the handler makes of a table_uri where nothing exists yet.         *)
MayCreate_NoProtocolNeeded(c) == c.expected = None
MayCreate(c) == c.expected = None /\ c.actions = "create"

(* table_exists, and what follows it up to the next await.                 *)
table_exists(t) ==
    /\ pc[t] = "exists"
    /\ \/ /\ log # <<>>
          /\ Goto(t, "open")
          /\ UNCHANGED <<line, holding, creating, target, answer>>
       \/ /\ log = <<>>
          /\ ~MayCreate(call[t])
          /\ Finish(t, "FAILED_PRECONDITION", 0)
          /\ UNCHANGED <<creating, target>>
       \/ /\ log = <<>>
          /\ MayCreate(call[t])
          /\ creating' = [creating EXCEPT ![t] = TRUE]
          /\ target' = [target EXCEPT ![t] = NextVersion(-1)]
          /\ Goto(t, "put")
          /\ UNCHANGED <<line, holding, answer>>
    /\ UNCHANGED <<log, home, call, attempts, orphan>>

(* The version check: current # expected is the service's VersionConflict. *)
PassesCheck_AtMost(c, current) == IF c.expected = None THEN TRUE ELSE c.expected >= current
PassesCheck_NotBelow(c, current) == IF c.expected = None THEN TRUE ELSE c.expected <= current
PassesCheck(c, current) == c.expected \in {None, current}

(* open_table, and the version check on the snapshot it loaded.            *)
open_table(t) ==
    /\ pc[t] = "open"
    /\ \/ /\ PassesCheck(call[t], Current)
          /\ target' = [target EXCEPT ![t] = NextVersion(Current)]
          /\ Goto(t, "attempt")
          /\ UNCHANGED <<line, holding, answer>>
       \/ /\ ~PassesCheck(call[t], Current)
          /\ Finish(t, StatusOf("VersionConflict"), 0)
          /\ UNCHANGED target
    /\ UNCHANGED <<log, home, call, creating, attempts, orphan>>

----------------------------------------------------------------------------
(* CommitBuilder: an attempt starts from the latest version.  Commits that *)
(* landed since the snapshot may conflict with this one, which ends it.    *)
StartAttempt(t) ==
    /\ pc[t] = "attempt"
    /\ target' = [target EXCEPT ![t] = NextVersion(Current)]
    /\ attempts' = [attempts EXCEPT ![t] = @ + 1]
    /\ Goto(t, "put")
    /\ UNCHANGED <<log, line, holding, home, call, creating, answer, orphan>>

ConflictFound(t) ==
    /\ pc[t] = "attempt"
    /\ target[t] < Len(log)
    /\ Finish(t, StatusOf("CommitFailed"), 0)
    /\ UNCHANGED <<log, home, call, target, creating, attempts, orphan>>

(* The conditional put: version `target` is created if it is the next one. *)
PutLands(t) ==
    /\ pc[t] = "put"
    /\ target[t] = Len(log)
    /\ log' = Append(log, t)
    /\ Goto(t, "landed")
    /\ UNCHANGED <<line, holding, home, call, target, creating, attempts, answer, orphan>>

(* The version was taken.  A create without a snapshot (its first put is   *)
(* not a counted attempt) loads the table; an attempt is repeated.         *)
PutExists(t) ==
    /\ pc[t] = "put"
    /\ target[t] < Len(log)
    /\ \/ /\ attempts[t] = 0
          /\ Goto(t, "reload")
          /\ UNCHANGED <<line, holding, answer>>
       \/ /\ attempts[t] \in 1 .. MaxAttempts - 1
          /\ Goto(t, "attempt")
          /\ UNCHANGED <<line, holding, answer>>
       \/ /\ attempts[t] = MaxAttempts
          /\ Finish(t, StatusOf("CommitFailed"), 0)
    /\ UNCHANGED <<log, home, call, target, creating, attempts, orphan>>

Reload(t) ==
    /\ pc[t] = "reload"
    /\ target' = [target EXCEPT ![t] = NextVersion(Current)]
    /\ Goto(t, "attempt")
    /\ UNCHANGED <<log, line, holding, home, call, creating, attempts, answer, orphan>>

Respond_CommitsAgain(t) ==
    /\ pc[t] = "landed"
    /\ IF creating[t] /\ target[t] # 0
       THEN /\ Goto(t, "open")
            /\ creating' = [creating EXCEPT ![t] = FALSE]
            /\ attempts' = [attempts EXCEPT ![t] = 0]
            /\ UNCHANGED <<line, holding, answer>>
       ELSE Finish(t, "OK", target[t]) /\ UNCHANGED <<creating, attempts>>
    /\ UNCHANGED <<log, home, call, target, orphan>>

(* commit_actions answers with the version that landed; create_table turns *)
(* any version but 0 into a VersionConflict.                               *)
Respond(t) ==
    /\ pc[t] = "landed"
    /\ IF creating[t] /\ target[t] # 0
       THEN Finish(t, StatusOf("VersionConflict"), 0)
       ELSE Finish(t, "OK", target[t])
    /\ UNCHANGED <<log, home, call, target, creating, attempts, orphan>>

----------------------------------------------------------------------------
(* A storage call fails (OpenFailed, CommitFailed).  A put that failed for *)
(* its sender may have reached storage, or reach it still; CommitBuilder's *)
(* work after the put can fail too.                                        *)
StorageFails(t) ==
    /\ "storage" \in Faults
    /\ pc[t] \in Locked
    /\ Finish(t, StatusOf(IF pc[t] \in {"exists", "open"} THEN "OpenFailed" ELSE "CommitFailed"), 0)
    /\ orphan' = [orphan EXCEPT ![t] = (pc[t] = "put")]
    /\ UNCHANGED <<log, home, call, target, creating, attempts>>

(* The client goes away: tonic drops the handler's future at its await,    *)
(* which drops the guard; a put that was sent stays sent.                  *)
Cancel(t) ==
    /\ "cancel" \in Faults
    /\ pc[t] \in InCall
    /\ Finish(t, "LOST", 0)
    /\ orphan' = [orphan EXCEPT ![t] = (pc[t] = "put")]
    /\ UNCHANGED <<log, home, call, target, creating, attempts>>

(* A replica crashes and restarts with an empty lock manager.              *)
Crash(r) ==
    /\ "crash" \in Faults
    /\ LET killed == {t \in Requests : home[t] = r /\ pc[t] \in InCall} IN
          /\ killed # {}
          /\ pc' = [t \in Requests |-> IF t \in killed THEN "done" ELSE pc[t]]
          /\ answer' = [t \in Requests |->
                          IF t \in killed THEN [code |-> "LOST", version |-> 0] ELSE answer[t]]
          /\ orphan' = [t \in Requests |-> orphan[t] \/ (t \in killed /\ pc[t] = "put")]
          /\ holding' = holding \ killed
    /\ line' = [line EXCEPT ![r] = <<>>]
    /\ UNCHANGED <<log, home, call, target, creating, attempts>>

(* A put nobody waits for reaches storage, or never does or finds its      *)
(* version taken.                                                          *)
OrphanLands(t) ==
    /\ orphan[t]
    /\ target[t] = Len(log)
    /\ log' = Append(log, t)
    /\ orphan' = [orphan EXCEPT ![t] = FALSE]
    /\ UNCHANGED <<line, holding, home, call, pc, target, creating, attempts, answer>>

OrphanLost(t) ==
    /\ orphan[t]
    /\ orphan' = [orphan EXCEPT ![t] = FALSE]
    /\ UNCHANGED <<log, line, holding, home, call, pc, target, creating, attempts, answer>>

----------------------------------------------------------------------------
(* The steps of a call that nothing but its own progress is needed for.    *)
Progress(t) ==
    \/ EnterSection(t) \/ table_exists(t) \/ open_table(t)
    \/ StartAttempt(t) \/ ConflictFound(t) \/ PutLands(t) \/ PutExists(t)
    \/ Reload(t) \/ Respond(t)

(* All calls were made and answered, and no put is under way.              *)
Finished == \A t \in Requests : pc[t] = "done" /\ ~orphan[t]

Next ==
    \/ \E t \in Requests :
          \/ RejectInvalid(t) \/ Begin(t) \/ Progress(t)
          \/ StorageFails(t) \/ Cancel(t) \/ OrphanLands(t) \/ OrphanLost(t)
    \/ \E r \in Replicas : Crash(r)
    \/ Finished /\ UNCHANGED vars

Spec == Init /\ [][Next]_vars

(* Storage answers every request and the runtime polls what can run; no    *)
(* client has to call, and no fault has to happen.                         *)
FairSpec == Spec /\ \A t \in Requests : WF_vars(Progress(t))

----------------------------------------------------------------------------
Landed(t) == \E i \in 1 .. Len(log) : log[i] = t

(* CommitBuilder's retries, a dropped call's put and a crash never make a  *)
(* request's actions enter the table twice (commit.rs:157).                *)
AtMostOnce == \A i, j \in 1 .. Len(log) : log[i] = log[j] => i = j

(* The first commit of a table carries its Protocol and Metadata and was   *)
(* sent without expected_version, whichever replica won the race to create *)
(* it (server.rs:389-427).                                                 *)
StartsWithCreate ==
    log # <<>> => call[log[1]].actions = "create" /\ call[log[1]].expected = None

(* A request with an expected_version lands only on top of that version,   *)
(* never below it, even when CommitBuilder moved it (server.rs:434-448).   *)
ExpectedHonoured ==
    \A i \in 1 .. Len(log) :
        call[log[i]].expected # None => call[log[i]].expected < i - 1

(* What each client knows, as CommitLog has it.  An ABORTED answer to a    *)
(* creating call is no verdict: its actions may be in the table.           *)
Outcome(t) ==
    CASE answer[t].code = "NONE" -> "pending"
      [] answer[t].code = "OK"   -> "committed"
      [] answer[t].code \in {"INTERNAL", "LOST"} -> "unknown"
      [] answer[t].code = "ABORTED" /\ creating[t] -> "unknown"
      [] OTHER -> "rejected"

CL == INSTANCE CommitLog WITH
        outcome <- [t \in Requests |-> Outcome(t)],
        version <- [t \in Requests |-> answer[t].version]

(* The Commit RPC of all replicas together implements CommitLog: the log   *)
(* only grows, OK is durable and names the right version, and what was     *)
(* rejected never lands, crashes and late puts included.                   *)
ImplementsCommitLog == CL!CLSpec

(* Every call that waits for the lock or works under it is answered.       *)
EveryCallEnds == \A t \in Requests : pc[t] \in InCall ~> pc[t] = "done"

(* All calls so far went to one replica, and none was dropped or failed.   *)
OneWriter ==
    /\ \A t, u \in Requests : "new" \notin {pc[t], pc[u]} => home[t] = home[u]
    /\ \A t \in Requests : answer[t].code \notin {"INTERNAL", "LOST"}

(* As long as one replica writes undisturbed, the lock makes every write   *)
(* uncontended: a put never finds its version taken, so CommitBuilder      *)
(* never has to retry (table_lock.rs:44-47).                               *)
NoLostRace ==
    OneWriter => \A t \in Requests : pc[t] = "put" => target[t] = Len(log)

(* As long as one replica writes undisturbed, a commit with an             *)
(* expected_version lands exactly one above it, so no two commits share    *)
(* one: the check and the write are in one section (server.rs:370-377).    *)
ExpectedExact ==
    OneWriter => \A i \in 1 .. Len(log) :
        call[log[i]].expected # None => call[log[i]].expected = i - 2

(* errors.rs:31 says of VersionConflict, the only source of ABORTED, that  *)
(* the request was rejected before CommitBuilder was ever called: so an    *)
(* aborted request is not in the table.                                    *)
AbortedNotCommitted ==
    \A t \in Requests : answer[t].code = "ABORTED" => ~Landed(t)

----------------------------------------------------------------------------
(* What makes those invariants inductive, one part per piece of state.     *)

(* Where a request's commit is: not in the log while its call is still on  *)
(* the way there, at the call's own version once it landed.                *)
PlaceSound(t) ==
    /\ Landed(t) => pc[t] \in {"landed", "done"} /\ ~orphan[t]
    /\ pc[t] = "landed" => target[t] < Len(log) /\ log[target[t] + 1] = t

(* Only a call that got no verdict leaves a put behind.                    *)
AnswerSound(t) ==
    /\ pc[t] # "done" => answer[t] = Pending
    /\ orphan[t] => pc[t] = "done" /\ answer[t].code \in {"INTERNAL", "LOST"}

(* A put is never for a version past the end of the log, nor below the     *)
(* expected version; only a creating call has one for version 0.           *)
PutSound(t) ==
    /\ pc[t] \in {"open", "attempt", "reload"} => log # <<>>
    /\ pc[t] \in {"attempt", "put"} \/ orphan[t] =>
          /\ target[t] <= Len(log)
          /\ target[t] = 0 => creating[t]
          /\ call[t].expected # None => call[t].expected < target[t]

(* create_table's path, and CommitBuilder's count of attempts.             *)
PathSound(t) ==
    /\ creating[t] => MayCreate(call[t])
    /\ pc[t] \in {"new", "waiting", "exists", "open"} => ~creating[t]
    /\ pc[t] \in {"new", "waiting", "exists", "open", "reload"} => attempts[t] = 0
    /\ pc[t] = "put" /\ attempts[t] = 0 => creating[t]
    /\ pc[t] = "reload" => creating[t]
    /\ pc[t] = "attempt" => attempts[t] < MaxAttempts

(* The line of a replica's lock is its calls that wait for the table or    *)
(* work on it, and only the first of them works.                           *)
LineSound ==
    /\ \A r \in Replicas :
          /\ \A i, j \in 1 .. Len(line[r]) : line[r][i] = line[r][j] => i = j
          /\ \A i \in 1 .. Len(line[r]) : home[line[r][i]] = r /\ pc[line[r][i]] \in InCall
    /\ \A t \in Requests : pc[t] \in InCall => \E i \in 1 .. Len(line[home[t]]) : line[home[t]][i] = t
    /\ \A t \in Requests : pc[t] \in Locked => line[home[t]][1] = t
    /\ holding = {t \in Requests : pc[t] \in Locked}

(* While one replica writes undisturbed, the snapshot its working call     *)
(* loaded is the latest version until that call's own put.                 *)
UpToDate(t) ==
    /\ pc[t] # "reload"
    /\ pc[t] \in {"attempt", "put"} =>
          target[t] = Len(log) /\ call[t].expected \in {None, Current}

Uncontended == OneWriter => \A t \in Requests : UpToDate(t)

CallSound(t) == PlaceSound(t) /\ AnswerSound(t) /\ PutSound(t) /\ PathSound(t)

(* The inductive invariant of the commit path.                             *)
IInv ==
    /\ TypeOK
    /\ AtMostOnce
    /\ StartsWithCreate
    /\ ExpectedHonoured
    /\ \A t \in Requests : CallSound(t)
    /\ LineSound
    /\ Uncontended
    /\ ExpectedExact
=============================================================================
