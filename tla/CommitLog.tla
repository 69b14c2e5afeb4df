----------------------------- MODULE CommitLog -----------------------------
(***************************************************************************)
(* What the Commit RPC promises about one table, seen from its clients:    *)
(* a request enters the table's log at most once, in one piece, and the    *)
(* log is never rewritten; a request answered with OK and a version is the *)
(* log's entry of that version; a request that was rejected never enters   *)
(* the log, not even later; and a client that got no verdict (an internal  *)
(* error, a lost connection) may find its request committed or not.        *)
(***************************************************************************)
EXTENDS Naturals, Sequences

CONSTANT Requests

VARIABLES
    log,       \* the table's commits, oldest first; version v is log[v + 1]
    outcome,   \* what each request's client knows
    version    \* the version its client was told, meaningful when committed

clVars == <<log, outcome, version>>

Outcomes == {"pending", "committed", "rejected", "unknown"}

Landed(t) == \E i \in 1 .. Len(log) : log[i] = t

CLInit ==
    /\ log = <<>>
    /\ outcome = [t \in Requests |-> "pending"]
    /\ version = [t \in Requests |-> 0]

Land(t) ==
    /\ outcome[t] \in {"pending", "unknown"}
    /\ ~Landed(t)
    /\ log' = Append(log, t)
    /\ UNCHANGED <<outcome, version>>

Acknowledge(t) ==
    /\ outcome[t] = "pending"
    /\ \E i \in 1 .. Len(log) : log[i] = t /\ version' = [version EXCEPT ![t] = i - 1]
    /\ outcome' = [outcome EXCEPT ![t] = "committed"]
    /\ UNCHANGED log

Reject(t) ==
    /\ outcome[t] = "pending"
    /\ ~Landed(t)
    /\ outcome' = [outcome EXCEPT ![t] = "rejected"]
    /\ UNCHANGED <<log, version>>

(* A crash takes the verdict from several clients at once.                 *)
Forget(S) ==
    /\ \A t \in S : outcome[t] = "pending"
    /\ outcome' = [t \in Requests |-> IF t \in S THEN "unknown" ELSE outcome[t]]
    /\ UNCHANGED <<log, version>>

CLNext ==
    \/ \E t \in Requests : Land(t) \/ Acknowledge(t) \/ Reject(t)
    \/ \E S \in SUBSET Requests : Forget(S)

CLSpec == CLInit /\ [][CLNext]_clVars
=============================================================================
