------------------------------ MODULE KeyLock ------------------------------
(***************************************************************************)
(* What the per-table lock promises, with none of the lock manager's map   *)
(* of reference-counted entries: every table key has one line of tasks,    *)
(* tasks join at the end, may give up from any place, and only the task at *)
(* the front is ever let in.  TableLock is shown to implement this.        *)
(***************************************************************************)
EXTENDS Naturals, SequencesExt

CONSTANTS Tasks, Keys

VARIABLES
    line,      \* line[k]: the tasks that asked for key k, in order
    holding    \* the tasks inside the section the lock protects

absVars == <<line, holding>>

InLine(t) == \E k \in Keys : \E i \in 1 .. Len(line[k]) : line[k][i] = t

KLInit ==
    /\ line = [k \in Keys |-> <<>>]
    /\ holding = {}

(* A task joins the line; it may be let in at once only if it is alone.    *)
Join(t, k) ==
    /\ ~InLine(t)
    /\ line' = [line EXCEPT ![k] = Append(@, t)]
    /\ \/ holding' = holding
       \/ line[k] = <<>> /\ holding' = holding \cup {t}

Enter(t, k) ==
    /\ line[k] # <<>> /\ line[k][1] = t
    /\ holding' = holding \cup {t}
    /\ UNCHANGED line

(* The holder releases, or a task still in line gives up.                  *)
Leave(t, k) ==
    /\ \E i \in 1 .. Len(line[k]) :
          line[k][i] = t /\ line' = [line EXCEPT ![k] = RemoveAt(@, i)]
    /\ holding' = holding \ {t}

KLNext == \E t \in Tasks, k \in Keys : Join(t, k) \/ Enter(t, k) \/ Leave(t, k)

KLSpec == KLInit /\ [][KLNext]_absVars
=============================================================================
