--------------------------- MODULE MCDeltaCommit ---------------------------
(* Small instances of DeltaCommit.  The calls and the replicas are          *)
(* interchangeable: what distinguishes a call is chosen in Init.           *)
EXTENDS DeltaCommit, TLC

Kind(a, e) == [uri |-> "ok", actions |-> a, expected |-> e]

(* Requests that the handler rejects before it takes the lock.             *)
Invalid ==
    {[uri |-> "malformed", actions |-> "data", expected |-> None],
     [uri |-> "denied", actions |-> "create", expected |-> None],
     [uri |-> "ok", actions |-> "malformed", expected |-> None]}

(* Creators and writers, with and without an expected version.             *)
RaceKinds == {Kind("create", None), Kind("data", None), Kind("data", 0), Kind("create", 0)}
LiveKinds == {Kind("create", None), Kind("data", None)}
AllKinds == RaceKinds \cup Invalid \cup {Kind("data", 1), Kind("data", -1)}

Symmetry == Permutations(Requests) \cup Permutations(Replicas)
=============================================================================
