----------------------------- MODULE TableLock -----------------------------
(***************************************************************************)
(* The per-table lock manager of src/src/locking/table_lock.rs: a map from *)
(* a table URI to a reference-counted LockEntry holding an async mutex,    *)
(* whose entry is evicted when its last TableLock handle is dropped.       *)
(*                                                                         *)
(* One action is one atomic step of the code.  lock_for and                *)
(* remove_if_unused each run under the map's shard lock; the fetch_sub of  *)
(* TableLock::drop does not, so other tasks run between it and the         *)
(* eviction it decides on.  Tasks are the Commit calls in flight; each may *)
(* be dropped (client gone) at an await point, which runs the destructors. *)
(***************************************************************************)
EXTENDS Naturals, Sequences, FiniteSets, SequencesExt

CONSTANTS
    Tasks,      \* Commit calls, each using the manager any number of times
    Keys,       \* normalized table URIs
    Entries,    \* addresses of LockEntry allocations, reused once freed
    None

ASSUME TasksFinite == IsFiniteSet(Tasks)
ASSUME NoneIsNew == None \notin Entries

VARIABLES
    locks,      \* the DashMap: locks[k] is the entry of key k, or None
    ref_count,  \* ref_count[e]: the entry's AtomicUsize
    line,       \* line[e]: the mutex; its first task has the permit
    pc,         \* where each task is in the life of its TableLock
    key,        \* TableLock.key (meaningless when idle)
    entry       \* TableLock.entry, None when the task has no TableLock

vars == <<locks, ref_count, line, pc, key, entry>>

(***************************************************************************)
(* pc: "idle" no TableLock; "handle" lock_for returned, lock() not yet     *)
(* polled; "waiting" inside lock().await; "locked" has the guard;          *)
(* "dropping" guard gone, TableLock::drop about to run; "remove" its       *)
(* fetch_sub returned 1 and remove_if_unused is about to run.              *)
(***************************************************************************)
PCs == {"idle", "handle", "waiting", "locked", "dropping", "remove"}

Counted(t) == pc[t] \in {"handle", "waiting", "locked", "dropping"}

(* The TableLock handles on entry e whose drop has not decremented it yet. *)
Handles(e) == {t \in Tasks : Counted(t) /\ entry[t] = e}

(* One type invariant: every variable keeps its shape; the AtomicUsize of  *)
(* an entry never goes below zero.                                         *)
TypeOK ==
    /\ locks \in [Keys -> Entries \cup {None}]
    /\ ref_count \in [Entries -> Nat]
    /\ line \in [Entries -> Seq(Tasks)]
    /\ pc \in [Tasks -> PCs]
    /\ key \in [Tasks -> Keys]
    /\ entry \in [Tasks -> Entries \cup {None}]

Init ==
    /\ locks = [k \in Keys |-> None]
    /\ ref_count = [e \in Entries |-> 0]
    /\ line = [e \in Entries |-> <<>>]
    /\ pc = [t \in Tasks |-> "idle"]
    /\ key \in [Tasks -> Keys]
    /\ entry = [t \in Tasks |-> None]

----------------------------------------------------------------------------
(* An allocation is free when neither the map nor a TableLock owns the Arc.*)
Free(e) == (\A k \in Keys : locks[k] # e) /\ (\A t \in Tasks : entry[t] # e)

(* LockEntry::new(): the address of the map's entry for k, a new one if    *)
(* the key is vacant.                                                      *)
EntryFor(k, e) == IF locks[k] = None THEN Free(e) ELSE e = locks[k]

(* The entry's count after its fetch_add, starting from LockEntry::new()'s *)
(* zero when the key was vacant.                                           *)
CountBumped(k, n) == IF locks[k] = None THEN 1 ELSE n + 1

(* TableLockManager::lock_for, under the shard lock: find or insert the    *)
(* entry, count the new handle, hand out the TableLock.                    *)
lock_for(t, k) ==
    /\ pc[t] = "idle"
    /\ \E e \in Entries :
          /\ EntryFor(k, e)
          /\ locks' = [locks EXCEPT ![k] = e]
          /\ ref_count' = [ref_count EXCEPT ![e] = CountBumped(k, @)]
          /\ line' = [line EXCEPT ![e] = IF locks[k] = None THEN <<>> ELSE @]
          /\ entry' = [entry EXCEPT ![t] = e]
    /\ key' = [key EXCEPT ![t] = k]
    /\ pc' = [pc EXCEPT ![t] = "handle"]

(* TableLock::lock, first poll: a free mutex is taken at once, otherwise   *)
(* the task queues behind the others (tokio's mutex is first in first out).*)
lock(t) ==
    /\ pc[t] = "handle"
    /\ pc' = [pc EXCEPT ![t] = IF line[entry[t]] = <<>> THEN "locked" ELSE "waiting"]
    /\ line' = [line EXCEPT ![entry[t]] = Append(@, t)]
    /\ UNCHANGED <<locks, ref_count, key, entry>>

(* A waiter that was handed the permit is polled again and gets its guard. *)
Granted(t) ==
    /\ pc[t] = "waiting"
    /\ line[entry[t]] # <<>> /\ line[entry[t]][1] = t
    /\ pc' = [pc EXCEPT ![t] = "locked"]
    /\ UNCHANGED <<locks, ref_count, line, key, entry>>

(* The MutexGuard is dropped, at the end of the call or because the call   *)
(* was dropped while it worked: the permit goes to the next in line.       *)
Unlock(t) ==
    /\ pc[t] = "locked"
    /\ pc' = [pc EXCEPT ![t] = "dropping"]
    /\ line' = [line EXCEPT ![entry[t]] = Tail(@)]
    /\ UNCHANGED <<locks, ref_count, key, entry>>

Cancel_KeepsItsPlace(t) ==
    /\ pc[t] = "waiting"
    /\ pc' = [pc EXCEPT ![t] = "dropping"]
    /\ UNCHANGED <<locks, ref_count, line, key, entry>>

(* The call is dropped while it waits, before or after it was handed the   *)
(* permit: it leaves the line, and a permit it had goes to the next task.  *)
Cancel(t) ==
    /\ pc[t] = "waiting"
    /\ \E i \in 1 .. Len(line[entry[t]]) :
          /\ line[entry[t]][i] = t
          /\ line' = [line EXCEPT ![entry[t]] = RemoveAt(@, i)]
    /\ pc' = [pc EXCEPT ![t] = "dropping"]
    /\ UNCHANGED <<locks, ref_count, key, entry>>

(* TableLock::drop up to its fetch_sub, which takes no shard lock.  Unless *)
(* it was the last handle, the TableLock is gone.                          *)
drop(t) ==
    /\ pc[t] = "dropping"
    /\ ref_count' = [ref_count EXCEPT ![entry[t]] = @ - 1]
    /\ IF ref_count[entry[t]] = 1
       THEN /\ pc' = [pc EXCEPT ![t] = "remove"]
            /\ UNCHANGED entry
       ELSE /\ pc' = [pc EXCEPT ![t] = "idle"]
            /\ entry' = [entry EXCEPT ![t] = None]
    /\ UNCHANGED <<locks, line, key>>

(* The conditions under which remove_if_unused evicts the map's entry.     *)
Evicts_AnyEntry(t) == locks[key[t]] # None /\ ref_count[entry[t]] = 0
Evicts_InUse(t) == locks[key[t]] = entry[t]
Evicts_OffByOne(t) == locks[key[t]] = entry[t] /\ ref_count[entry[t]] = 1
Evicts(t) == locks[key[t]] = entry[t] /\ ref_count[entry[t]] = 0

(* TableLockManager::remove_if_unused, under the shard lock.               *)
remove_if_unused(t) ==
    /\ pc[t] = "remove"
    /\ locks' = IF Evicts(t) THEN [locks EXCEPT ![key[t]] = None] ELSE locks
    /\ pc' = [pc EXCEPT ![t] = "idle"]
    /\ entry' = [entry EXCEPT ![t] = None]
    /\ UNCHANGED <<ref_count, line, key>>

----------------------------------------------------------------------------
Next ==
    \E t \in Tasks :
        \/ \E k \in Keys : lock_for(t, k)
        \/ lock(t) \/ Granted(t) \/ Unlock(t) \/ Cancel(t)
        \/ drop(t) \/ remove_if_unused(t)

Spec == Init /\ [][Next]_vars

(* The runtime keeps polling a task that can run, destructors always run   *)
(* to their end, and the storage calls made under the lock return.  No     *)
(* task has to ask for a lock, or to be cancelled.                         *)
Fairness ==
    \A t \in Tasks :
        WF_vars(lock(t) \/ Granted(t) \/ Unlock(t) \/ drop(t) \/ remove_if_unused(t))

FairSpec == Spec /\ Fairness

----------------------------------------------------------------------------
(* No two Commit calls hold the lock of one table at the same time         *)
(* (the test at table_lock.rs:101), however handles come and go.           *)
MutualExclusion ==
    \A t, u \in Tasks :
        pc[t] = "locked" /\ pc[u] = "locked" /\ key[t] = key[u] => t = u

(* A handle that has not been dropped keeps its entry in the map, so a     *)
(* later lock_for of the same key finds that mutex and not a second one    *)
(* (the eviction race of the comment at table_lock.rs:25).                 *)
LiveHandleIsCurrent ==
    \A t \in Tasks : Counted(t) => locks[key[t]] = entry[t]

(* ref_count is the number of handles whose drop has not decremented it,   *)
(* for every entry the map or a handle can still reach.                    *)
RefCountExact ==
    \A e \in Entries : ~Free(e) => ref_count[e] = Cardinality(Handles(e))

(* The map leaks nothing (table_lock.rs:144): an entry in it has a live    *)
(* handle, or a drop of that very entry is about to evict it.              *)
NoLeakedEntry ==
    \A k \in Keys :
        locks[k] # None =>
            \E t \in Tasks :
                entry[t] = locks[k] /\ key[t] = k /\ (Counted(t) \/ pc[t] = "remove")

(* Strengthening needed for the facts above to be inductive.  A task has   *)
(* an entry exactly when it has a TableLock; an entry serves one key; and  *)
(* the line of a reachable entry holds, once each, exactly the tasks that  *)
(* wait for it or hold it, a holder standing first.                        *)
HasEntry == \A t \in Tasks : entry[t] = None <=> pc[t] = "idle"

OneKeyPerEntry ==
    /\ \A k, l \in Keys : locks[k] = locks[l] /\ locks[k] # None => k = l
    /\ \A k \in Keys, t \in Tasks : locks[k] = entry[t] /\ locks[k] # None => key[t] = k
    /\ \A t, u \in Tasks : entry[t] = entry[u] /\ entry[t] # None => key[t] = key[u]

InLine(t) == pc[t] \in {"waiting", "locked"}

SoundLine(e) ==
    /\ \A i \in 1 .. Len(line[e]) : InLine(line[e][i]) /\ entry[line[e][i]] = e
    /\ \A i, j \in 1 .. Len(line[e]) : line[e][i] = line[e][j] => i = j

HasPlace(t) == \E i \in 1 .. Len(line[entry[t]]) : line[entry[t]][i] = t

LineExact ==
    /\ \A e \in Entries : ~Free(e) => SoundLine(e)
    /\ \A t \in Tasks : InLine(t) => HasPlace(t)
    /\ \A t \in Tasks : pc[t] = "locked" => line[entry[t]][1] = t

(* The inductive invariant of the lock manager.                            *)
IInv ==
    /\ TypeOK
    /\ HasEntry
    /\ OneKeyPerEntry
    /\ LiveHandleIsCurrent
    /\ RefCountExact
    /\ LineExact

----------------------------------------------------------------------------
(* The lock manager implements one first-in-first-out line per key: the    *)
(* line of a key is the line of the entry the map has for it.              *)
KeyLine == [k \in Keys |-> IF locks[k] = None THEN <<>> ELSE line[locks[k]]]
Holding == {t \in Tasks : pc[t] = "locked"}

KL == INSTANCE KeyLock WITH line <- KeyLine, holding <- Holding

(* The lock of table_lock.rs behaves like one mutex per key: nobody jumps  *)
(* the line, nobody but its head is let in, eviction loses no waiter.      *)
ImplementsKeyLock == KL!KLSpec

(* Every task that waits for a table's lock stops waiting: the permit is   *)
(* handed on by each holder, and by each waiter cancelled after it got it. *)
WaiterServed == \A t \in Tasks : pc[t] = "waiting" ~> pc[t] # "waiting"

=============================================================================
