-------------------------- MODULE TableLockProofs --------------------------
(***************************************************************************)
(* Proofs about the lock manager, for any number of tasks, table keys and  *)
(* entry addresses: its type invariant, the inductive invariant IInv, and  *)
(* what follows from it.                                                   *)
(***************************************************************************)
EXTENDS TableLock, SequenceLemmas, TLAPS, FiniteSetTheorems, SequenceTheorems

(* The handles on an entry are finitely many: each is a Commit call's.     *)
LEMMA HandlesFinite ==
    \A e : IsFiniteSet(Handles(e)) /\ Cardinality(Handles(e)) \in Nat
  BY TasksFinite, FS_Subset, FS_CardinalityType DEF Handles

(* The empty manager satisfies the inductive invariant.                    *)
LEMMA InitIInv == Init => IInv
<1> SUFFICES ASSUME Init PROVE IInv
  OBVIOUS
<1>1. TypeOK
  BY EmptySeq DEF Init, TypeOK, PCs
<1>2. \A e \in Entries : Free(e)
  BY NoneIsNew DEF Init, Free
<1>3. HasEntry /\ OneKeyPerEntry /\ LiveHandleIsCurrent
  BY DEF Init, HasEntry, OneKeyPerEntry, LiveHandleIsCurrent, Counted
<1>4. RefCountExact
  BY <1>2 DEF RefCountExact
<1>5. LineExact
  BY <1>2 DEF LineExact, Init, InLine
<1> QED  BY <1>1, <1>3, <1>4, <1>5 DEF IInv

(***************************************************************************)
(* One lemma per action: it preserves the inductive invariant.             *)
(***************************************************************************)
(* TableLockManager::lock_for: the new handle is counted on the entry the  *)
(* map has for its key, which was there or is a fresh one.                 *)
LEMMA LockForIInv ==
    ASSUME IInv, NEW t \in Tasks, NEW k \in Keys, lock_for(t, k)
    PROVE  IInv'
<1> USE DEF IInv
<1>0. pc[t] = "idle" /\ entry[t] = None
  BY DEF lock_for, HasEntry
<1>1. PICK e \in Entries :
          /\ EntryFor(k, e)
          /\ locks' = [locks EXCEPT ![k] = e]
          /\ ref_count' = [ref_count EXCEPT ![e] = CountBumped(k, @)]
          /\ line' = [line EXCEPT ![e] = IF locks[k] = None THEN <<>> ELSE @]
          /\ entry' = [entry EXCEPT ![t] = e]
  BY DEF lock_for
<1>2. key' = [key EXCEPT ![t] = k] /\ pc' = [pc EXCEPT ![t] = "handle"]
  BY DEF lock_for
<1>3. /\ locks[k] = None => Free(e)
      /\ locks[k] # None => locks[k] = e /\ ~Free(e)
      /\ e # None
  BY <1>1, NoneIsNew DEF EntryFor, Free
<1>4. TypeOK'
  BY <1>1, <1>2, EmptySeq DEF TypeOK, PCs, CountBumped
<1>5. HasEntry'
  BY <1>1, <1>2, <1>3 DEF TypeOK, HasEntry
<1>6. OneKeyPerEntry'
  BY <1>0, <1>1, <1>2, <1>3 DEF TypeOK, OneKeyPerEntry, Free
<1>7. LiveHandleIsCurrent'
  BY <1>0, <1>1, <1>2, <1>3 DEF TypeOK, LiveHandleIsCurrent, Counted, HasEntry
<1>8. \A f \in Entries : f # e /\ ~Free(f)' => ~Free(f)
  BY <1>0, <1>1, <1>3 DEF TypeOK, Free
<1>9. RefCountExact'
  <2> SUFFICES ASSUME NEW f \in Entries, ~Free(f)'
               PROVE  ref_count'[f] = Cardinality(Handles(f)')
    BY DEF RefCountExact
  <2>1. CASE f # e
    <3>1. Handles(f)' = Handles(f)
      BY <1>0, <1>1, <1>2, <2>1 DEF TypeOK, Handles, Counted
    <3> QED  BY <2>1, <3>1, <1>1, <1>8 DEF TypeOK, RefCountExact
  <2>2. CASE f = e
    <3>1. Handles(e)' = Handles(e) \cup {t} /\ t \notin Handles(e)
      BY <1>0, <1>1, <1>2 DEF TypeOK, Handles, Counted
    <3>2. Cardinality(Handles(e)') = Cardinality(Handles(e)) + 1
      BY <3>1, HandlesFinite, FS_AddElement
    <3>3. CASE locks[k] = None
      <4>1. Handles(e) = {}
        BY <3>3, <1>3 DEF Handles, Free
      <4>2. Cardinality(Handles(e)) = 0
        BY <4>1, FS_EmptySet
      <4> QED  BY <2>2, <3>2, <3>3, <4>2, <1>1 DEF TypeOK, CountBumped
    <3>4. CASE locks[k] # None
      BY <2>2, <3>2, <3>4, <1>1, <1>3 DEF TypeOK, RefCountExact, CountBumped
    <3> QED  BY <3>3, <3>4
  <2> QED  BY <2>1, <2>2
<1>10. LineExact'
  <2>1. \A u \in Tasks : InLine(u)' => u # t /\ InLine(u) /\ entry'[u] = entry[u] /\ line'[entry[u]] = line[entry[u]]
    BY <1>0, <1>1, <1>2, <1>3 DEF TypeOK, InLine, HasEntry, Free
  <2>2. ASSUME NEW f \in Entries, ~Free(f)' PROVE SoundLine(f)'
    <3>1. CASE f = e /\ locks[k] = None
      <4>1. line'[f] = <<>>
        BY <3>1, <1>1 DEF TypeOK
      <4> QED  BY <4>1 DEF SoundLine
    <3>2. CASE ~(f = e /\ locks[k] = None)
      <4>1. line'[f] = line[f] /\ ~Free(f)
        BY <3>2, <2>2, <1>1, <1>3, <1>8 DEF TypeOK
      <4>2. \A i \in 1 .. Len(line[f]) : line[f][i] \in Tasks
        BY DEF TypeOK
      <4>3. \A u \in Tasks : InLine(u) => InLine(u)' /\ entry'[u] = entry[u]
        BY <1>0, <1>1, <1>2 DEF InLine, TypeOK
      <4>4. SoundLine(f)
        BY <4>1 DEF LineExact
      <4> QED  BY <4>1, <4>2, <4>3, <4>4 DEF SoundLine, InLine
    <3> QED  BY <3>1, <3>2
  <2>3. ASSUME NEW u \in Tasks, InLine(u)' PROVE HasPlace(u)'
    <3>1. InLine(u) /\ line'[entry'[u]] = line[entry[u]]
      BY <2>1, <2>3
    <3> QED  BY <3>1 DEF LineExact, HasPlace
  <2>4. \A u \in Tasks : pc'[u] = "locked" => line'[entry'[u]][1] = u
    <3>1. \A u \in Tasks : pc'[u] = "locked" => InLine(u)' /\ pc[u] = "locked"
      BY <1>0, <1>2 DEF TypeOK, InLine
    <3> QED  BY <2>1, <3>1 DEF LineExact
  <2> QED  BY <2>2, <2>3, <2>4 DEF LineExact
<1> QED  BY <1>4, <1>5, <1>6, <1>7, <1>9, <1>10

(* The steps on the mutex leave the map, the counts and the handles alone. *)
LEMMA MutexStep ==
    ASSUME IInv, NEW t \in Tasks, Counted(t), Counted(t)',
           NEW p \in PCs, pc' = [pc EXCEPT ![t] = p],
           UNCHANGED <<locks, ref_count, key, entry>>
    PROVE  /\ HasEntry' /\ OneKeyPerEntry' /\ LiveHandleIsCurrent' /\ RefCountExact'
           /\ entry[t] \in Entries /\ ~Free(entry[t])
           /\ \A f \in Entries : Free(f)' <=> Free(f)
           /\ \A f \in Entries : f # entry[t] /\ SoundLine(f) /\ line'[f] = line[f] => SoundLine(f)'
<1> USE DEF IInv
<1>1. \A u \in Tasks : Counted(u)' <=> Counted(u)
  BY DEF Counted, TypeOK
<1>2. \A u \in Tasks : pc'[u] = "idle" <=> pc[u] = "idle"
  BY DEF Counted, TypeOK
<1>3. \A f \in Entries : Free(f)' <=> Free(f)
  BY DEF Free
<1>4. \A f : Handles(f)' = Handles(f)
  BY <1>1 DEF Handles
<1>5. entry[t] \in Entries /\ ~Free(entry[t])
  BY DEF HasEntry, Counted, Free, TypeOK
<1>6. HasEntry'
  BY <1>2 DEF HasEntry
<1>7. OneKeyPerEntry' /\ LiveHandleIsCurrent'
  BY <1>1 DEF OneKeyPerEntry, LiveHandleIsCurrent
<1>8. RefCountExact'
  BY <1>3, <1>4 DEF RefCountExact
<1>9. \A f \in Entries : \A i \in 1 .. Len(line[f]) : line[f][i] \in Tasks
  BY DEF TypeOK
<1>10. ASSUME NEW f \in Entries, f # entry[t], SoundLine(f), line'[f] = line[f]
       PROVE  SoundLine(f)'
  <2>1. \A i \in 1 .. Len(line[f]) : line[f][i] # t /\ pc'[line[f][i]] = pc[line[f][i]]
    BY <1>9, <1>10 DEF SoundLine, TypeOK
  <2> QED  BY <2>1, <1>10 DEF SoundLine, InLine
<1> QED  BY <1>3, <1>5, <1>6, <1>7, <1>8, <1>10

(* TableLock::lock, first poll: the task stands last in its entry's line,  *)
(* and has the guard only if it stands alone.                              *)
LEMMA LockIInv ==
    ASSUME IInv, NEW t \in Tasks, lock(t)
    PROVE  IInv'
<1> USE DEF IInv
<1>e. PICK e \in Entries : e = entry[t]
  BY DEF lock, TypeOK, HasEntry
<1>q. PICK q \in Seq(Tasks) : q = line[e]
  BY DEF TypeOK
<1>0. PICK p \in {"locked", "waiting"} :
          /\ pc' = [pc EXCEPT ![t] = p]
          /\ p = "locked" => q = <<>>
  BY <1>e, <1>q DEF lock
<1>1. /\ pc[t] = "handle" /\ Counted(t) /\ Counted(t)' /\ p \in PCs
      /\ UNCHANGED <<locks, ref_count, key, entry>>
      /\ line' = [line EXCEPT ![e] = Append(q, t)]
  BY <1>e, <1>q, <1>0 DEF lock, Counted, TypeOK, PCs
<1>2. /\ HasEntry' /\ OneKeyPerEntry' /\ LiveHandleIsCurrent' /\ RefCountExact'
      /\ e \in Entries /\ ~Free(e)
      /\ \A f \in Entries : Free(f)' <=> Free(f)
      /\ \A f \in Entries : f # e /\ SoundLine(f) /\ line'[f] = line[f] => SoundLine(f)'
  BY <1>e, <1>0, <1>1, MutexStep
<1>3. /\ q \in Seq(Tasks) /\ Len(q) \in Nat
      /\ Append(q, t) \in Seq(Tasks)
      /\ Len(Append(q, t)) = Len(q) + 1
      /\ \A i \in 1 .. Len(q) : Append(q, t)[i] = q[i] /\ q[i] \in Tasks
      /\ Append(q, t)[Len(q) + 1] = t
  BY <1>2, AppendProperties, ElementOfSeq, LenProperties DEF TypeOK
<1>4. TypeOK'
  BY <1>0, <1>1, <1>2, <1>3 DEF TypeOK, PCs
<1>5. line'[e] = Append(q, t) /\ \A f \in Entries : f # e => line'[f] = line[f]
  BY <1>1, <1>2 DEF TypeOK
<1>6. \A u \in Tasks : u # t => pc'[u] = pc[u]
  BY <1>0 DEF TypeOK
<1>7. InLine(t)' /\ ~InLine(t) /\ entry[t] = e
  BY <1>e, <1>0, <1>1 DEF InLine, TypeOK
<1>8. SoundLine(e)'
  <2>1. SoundLine(e)
    BY <1>2 DEF LineExact
  <2>2. \A i \in 1 .. Len(q) : q[i] # t /\ InLine(q[i]) /\ entry[q[i]] = e
    BY <1>q, <2>1, <1>7 DEF SoundLine
  <2>3. ASSUME NEW i \in 1 .. Len(line'[e])
        PROVE  (InLine(line[e][i]) /\ entry[line[e][i]] = e)'
    <3>1. CASE i \in 1 .. Len(q)
      BY <3>1, <2>2, <1>1, <1>3, <1>5, <1>6 DEF InLine
    <3>2. CASE i = Len(q) + 1
      BY <3>2, <1>1, <1>3, <1>5, <1>7 DEF InLine
    <3> QED  BY <3>1, <3>2, <1>3, <1>5
  <2>4. \A i, j \in 1 .. Len(line'[e]) : line'[e][i] = line'[e][j] => i = j
    BY <1>q, <2>1, <2>2, <1>3, <1>5 DEF SoundLine
  <2> QED  BY <2>3, <2>4 DEF SoundLine
<1>9. ASSUME NEW u \in Tasks, InLine(u)' PROVE HasPlace(u)'
  <2>1. CASE u = t
    <3>1. line'[entry'[t]][Len(q) + 1] = t /\ Len(q) + 1 \in 1 .. Len(line'[entry'[t]])
      BY <1>1, <1>3, <1>5, <1>7
    <3> QED  BY <2>1, <3>1 DEF HasPlace
  <2>2. CASE u # t
    <3>1. HasPlace(u) /\ entry[u] \in Entries
      BY <2>2, <1>6, <1>9 DEF LineExact, InLine, HasEntry, TypeOK
    <3>2. CASE entry[u] = e
      BY <1>q, <3>1, <3>2, <1>1, <1>3, <1>5 DEF HasPlace
    <3>3. CASE entry[u] # e
      BY <3>1, <3>3, <1>1, <1>5 DEF HasPlace
    <3> QED  BY <3>2, <3>3
  <2> QED  BY <2>1, <2>2
<1>10. ASSUME NEW u \in Tasks, pc'[u] = "locked" PROVE line'[entry'[u]][1] = u
  <2>1. CASE u = t
    <3>1. p = "locked"
      BY <2>1, <1>0, <1>10 DEF TypeOK
    <3>2. q = <<>>
      BY <3>1, <1>0
    <3> QED  BY <2>1, <3>2, <1>1, <1>3, <1>5, <1>7
  <2>2. CASE u # t
    <3>1. line[entry[u]][1] = u /\ HasPlace(u) /\ entry[u] \in Entries
      BY <2>2, <1>6, <1>10 DEF LineExact, InLine, HasEntry, TypeOK
    <3>2. CASE entry[u] = e
      <4>1. 1 \in 1 .. Len(q)
        BY <1>q, <3>1, <3>2, <1>3 DEF HasPlace
      <4> QED  BY <1>q, <4>1, <3>1, <3>2, <1>1, <1>3, <1>5
    <3>3. CASE entry[u] # e
      BY <3>1, <3>3, <1>1, <1>5
    <3> QED  BY <3>2, <3>3
  <2> QED  BY <2>1, <2>2
<1>11. LineExact'
  BY <1>2, <1>5, <1>8, <1>9, <1>10 DEF LineExact
<1> QED  BY <1>2, <1>4, <1>11

(* A waiter that gets its guard is the first in line.                      *)
LEMMA GrantedIInv ==
    ASSUME IInv, NEW t \in Tasks, Granted(t)
    PROVE  IInv'
<1> USE DEF IInv
<1>1. /\ pc[t] = "waiting" /\ Counted(t) /\ Counted(t)' /\ "locked" \in PCs
      /\ pc' = [pc EXCEPT ![t] = "locked"]
      /\ line[entry[t]][1] = t
      /\ UNCHANGED <<locks, ref_count, line, key, entry>>
  BY DEF Granted, Counted, TypeOK, PCs
<1>2. /\ HasEntry' /\ OneKeyPerEntry' /\ LiveHandleIsCurrent' /\ RefCountExact'
      /\ \A f \in Entries : Free(f)' <=> Free(f)
  BY <1>1, MutexStep
<1>3. TypeOK'
  BY <1>1 DEF TypeOK
<1>4. \A u : pc'[u] \in {"waiting", "locked"} <=> pc[u] \in {"waiting", "locked"}
  <2>1. ASSUME NEW u \in Tasks
        PROVE  pc'[u] \in {"waiting", "locked"} <=> pc[u] \in {"waiting", "locked"}
    BY <1>1 DEF TypeOK
  <2>2. ASSUME NEW u, u \notin Tasks
        PROVE  pc'[u] = pc[u]
    BY <1>1, <2>2 DEF TypeOK
  <2> QED  BY <2>1, <2>2
<1>5. LineExact'
  <2>1. \A f \in Entries : SoundLine(f) => SoundLine(f)'
    BY <1>1, <1>4 DEF SoundLine, InLine
  <2>2. \A u \in Tasks : InLine(u)' => HasPlace(u)'
    BY <1>1, <1>4 DEF LineExact, InLine, HasPlace
  <2>3. \A u \in Tasks : pc'[u] = "locked" => line'[entry'[u]][1] = u
    BY <1>1 DEF LineExact, TypeOK
  <2> QED  BY <2>1, <2>2, <2>3, <1>2 DEF LineExact
<1> QED  BY <1>2, <1>3, <1>5

(* Leaving the line, by releasing the mutex or by giving up.               *)
LEMMA LeaveIInv ==
    ASSUME IInv, NEW t \in Tasks, InLine(t),
           NEW i \in 1 .. Len(line[entry[t]]), line[entry[t]][i] = t,
           line' = [line EXCEPT ![entry[t]] = RemoveAt(@, i)],
           pc' = [pc EXCEPT ![t] = "dropping"],
           UNCHANGED <<locks, ref_count, key, entry>>
    PROVE  IInv'
<1> USE DEF IInv
<1>e. PICK e \in Entries : e = entry[t]
  BY DEF InLine, TypeOK, HasEntry
<1>q. PICK q \in Seq(Tasks) : q = line[e]
  BY DEF TypeOK
<1>r. PICK r : r = RemoveAt(q, i)
  OBVIOUS
<1>1. Counted(t) /\ Counted(t)' /\ "dropping" \in PCs
  BY DEF InLine, Counted, TypeOK, PCs
<1>2. /\ HasEntry' /\ OneKeyPerEntry' /\ LiveHandleIsCurrent' /\ RefCountExact'
      /\ ~Free(e)
      /\ \A f \in Entries : Free(f)' <=> Free(f)
      /\ \A f \in Entries : f # e /\ SoundLine(f) /\ line'[f] = line[f] => SoundLine(f)'
  BY <1>e, <1>1, MutexStep
<1>3. /\ i \in 1 .. Len(q) /\ q[i] = t /\ Len(q) \in Nat
      /\ \A j \in 1 .. Len(q) : q[j] \in Tasks
  BY <1>e, <1>q, ElementOfSeq, LenProperties
<1>4. /\ r \in Seq(Tasks) /\ Len(r) = Len(q) - 1
      /\ \A j \in 1 .. Len(q) - 1 : r[j] = IF j < i THEN q[j] ELSE q[j + 1]
  BY <1>r, <1>3, RemoveAtProperties
<1>5. line'[e] = r /\ \A f \in Entries : f # e => line'[f] = line[f]
  BY <1>e, <1>q, <1>r DEF TypeOK
<1>6. TypeOK'
  BY <1>e, <1>q, <1>r, <1>4 DEF TypeOK, PCs
<1>7. \A u \in Tasks : u # t => pc'[u] = pc[u]
  BY DEF TypeOK
<1>8. ~InLine(t)' /\ pc'[t] # "locked"
  BY DEF InLine, TypeOK
<1>9. SoundLine(e)
  BY <1>2 DEF LineExact
<1>inj. /\ \A j \in 1 .. Len(r) : \E l \in 1 .. Len(q) : l # i /\ r[j] = q[l]
        /\ \A l \in 1 .. Len(q) : l # i => \E j \in 1 .. Len(r) : r[j] = q[l]
        /\ \A j, l \in 1 .. Len(r) : r[j] = r[l] => j = l
  <2>1. \A j, l \in 1 .. Len(q) : q[j] = q[l] => j = l
    BY <1>q, <1>9 DEF SoundLine
  <2>2. i \in 1 .. Len(q)
    BY <1>3
  <2>3. /\ \A j \in 1 .. Len(RemoveAt(q, i)) : \E l \in 1 .. Len(q) : l # i /\ RemoveAt(q, i)[j] = q[l]
        /\ \A l \in 1 .. Len(q) : l # i => \E j \in 1 .. Len(RemoveAt(q, i)) : RemoveAt(q, i)[j] = q[l]
        /\ \A j, l \in 1 .. Len(RemoveAt(q, i)) : RemoveAt(q, i)[j] = RemoveAt(q, i)[l] => j = l
    BY ONLY <2>1, <2>2, q \in Seq(Tasks), RemoveAtInjective
  <2> QED  BY <2>3, <1>r
<1>10. SoundLine(e)'
  <2>1. \A j \in 1 .. Len(q) : j # i => q[j] # t /\ InLine(q[j]) /\ entry[q[j]] = e
    BY <1>q, <1>3, <1>9 DEF SoundLine
  <2>2. ASSUME NEW j \in 1 .. Len(r)
        PROVE  (InLine(line[e][j]) /\ entry[line[e][j]] = e)'
    <3>1. PICK l \in 1 .. Len(q) : l # i /\ r[j] = q[l]
      BY <1>inj
    <3> QED  BY <3>1, <2>1, <1>3, <1>5, <1>7 DEF InLine
  <2> QED  BY <2>2, <1>inj, <1>5 DEF SoundLine
<1>11. ASSUME NEW u \in Tasks, InLine(u)' PROVE HasPlace(u)'
  <2>1. u # t /\ HasPlace(u) /\ entry[u] \in Entries
    BY <1>7, <1>8, <1>11 DEF LineExact, InLine, HasEntry, TypeOK
  <2>2. CASE entry[u] = e
    <3>1. PICK j \in 1 .. Len(q) : q[j] = u
      BY <1>q, <2>1, <2>2 DEF HasPlace
    <3>2. j # i
      BY <3>1, <2>1, <1>3
    <3>3. PICK l \in 1 .. Len(r) : r[l] = u
      BY <3>1, <3>2, <1>inj
    <3> QED  BY <3>3, <2>2, <1>5 DEF HasPlace
  <2>3. CASE entry[u] # e
    BY <2>1, <2>3, <1>5 DEF HasPlace
  <2> QED  BY <2>2, <2>3
<1>12. ASSUME NEW u \in Tasks, pc'[u] = "locked" PROVE line'[entry'[u]][1] = u
  <2>1. u # t /\ HasPlace(u) /\ line[entry[u]][1] = u /\ entry[u] \in Entries
    BY <1>7, <1>8, <1>12 DEF LineExact, InLine, HasEntry, TypeOK
  <2>2. CASE entry[u] = e
    <3>1. q[1] = u /\ i # 1
      BY <1>q, <1>3, <2>1, <2>2
    <3> QED  BY <3>1, <2>2, <1>3, <1>4, <1>5
  <2>3. CASE entry[u] # e
    BY <2>1, <2>3, <1>5
  <2> QED  BY <2>2, <2>3
<1>13. LineExact'
  BY <1>2, <1>5, <1>10, <1>11, <1>12 DEF LineExact
<1> QED  BY <1>2, <1>6, <1>13

(* The guard is dropped: the holder, first in line, leaves it.             *)
LEMMA UnlockIInv ==
    ASSUME IInv, NEW t \in Tasks, Unlock(t)
    PROVE  IInv'
<1>1. InLine(t) /\ entry[t] \in Entries /\ HasPlace(t) /\ line[entry[t]][1] = t
  BY DEF Unlock, IInv, LineExact, InLine, TypeOK, HasEntry
<1>2. line[entry[t]] \in Seq(Tasks) /\ line[entry[t]] # <<>> /\ 1 \in 1 .. Len(line[entry[t]])
  BY <1>1, EmptySeq DEF IInv, TypeOK, HasPlace
<1>3. Tail(line[entry[t]]) = RemoveAt(line[entry[t]], 1)
  BY <1>2, TailIsRemoveAt
<1>4. line' = [line EXCEPT ![entry[t]] = RemoveAt(@, 1)]
  BY <1>3 DEF Unlock
<1> QED  BY <1>1, <1>2, <1>4, LeaveIInv DEF Unlock

(* A Commit call dropped while it waits leaves the line from any place.    *)
LEMMA CancelIInv ==
    ASSUME IInv, NEW t \in Tasks, Cancel(t)
    PROVE  IInv'
  BY LeaveIInv DEF Cancel, InLine

(* TableLock::drop: the count falls with the handle, and only the last     *)
(* handle goes on to evict.                                                *)
LEMMA DropIInv ==
    ASSUME IInv, NEW t \in Tasks, drop(t)
    PROVE  IInv'
<1> USE DEF IInv
<1>e. PICK e \in Entries : e = entry[t]
  BY DEF drop, TypeOK, HasEntry
<1>1. /\ pc[t] = "dropping" /\ Counted(t) /\ ~InLine(t)
      /\ ref_count' = [ref_count EXCEPT ![e] = @ - 1]
      /\ UNCHANGED <<locks, line, key>>
  BY <1>e DEF drop, Counted, InLine
<1>2. /\ pc' \in [Tasks -> PCs] /\ pc'[t] \in {"remove", "idle"}
      /\ entry' \in [Tasks -> Entries \cup {None}]
      /\ entry'[t] = IF pc'[t] = "idle" THEN None ELSE e
      /\ \A u \in Tasks : u # t => pc'[u] = pc[u] /\ entry'[u] = entry[u]
  BY <1>e DEF drop, TypeOK, PCs
<1>3. ~Counted(t)' /\ ~InLine(t)'
  BY <1>2 DEF Counted, InLine
<1>4. Handles(e)' = Handles(e) \ {t} /\ t \in Handles(e)
  BY <1>e, <1>1, <1>2, <1>3 DEF Handles, Counted
<1>5. \A f \in Entries : f # e => Handles(f)' = Handles(f)
  BY <1>e, <1>2, <1>3 DEF Handles, Counted
<1>6. \A f \in Entries : ~Free(f)' => ~Free(f)
  BY <1>e, <1>1, <1>2, NoneIsNew DEF Free
<1>7. ref_count[e] = Cardinality(Handles(e)) /\ ~Free(e)
  BY <1>e DEF RefCountExact, Free
<1>8. Cardinality(Handles(e)') = Cardinality(Handles(e)) - 1 /\ Cardinality(Handles(e)') \in Nat
  BY <1>4, HandlesFinite, FS_RemoveElement, FS_CardinalityType
<1>9. TypeOK'
  BY <1>1, <1>2, <1>7, <1>8 DEF TypeOK
<1>10. HasEntry'
  BY <1>2, NoneIsNew DEF HasEntry
<1>11. OneKeyPerEntry'
  BY <1>e, <1>1, <1>2 DEF OneKeyPerEntry
<1>12. LiveHandleIsCurrent'
  BY <1>1, <1>2, <1>3 DEF LiveHandleIsCurrent, Counted
<1>13. RefCountExact'
  BY <1>1, <1>5, <1>6, <1>7, <1>8 DEF RefCountExact, TypeOK
<1>14. LineExact'
  <2>1. ASSUME NEW f \in Entries, SoundLine(f) PROVE SoundLine(f)'
    <3>1. \A i \in 1 .. Len(line[f]) : line[f][i] \in Tasks /\ line[f][i] # t
      BY <2>1, <1>1 DEF TypeOK, SoundLine
    <3> QED  BY <2>1, <3>1, <1>1, <1>2 DEF SoundLine, InLine
  <2>2. \A u \in Tasks : InLine(u)' => HasPlace(u)'
    BY <1>1, <1>2, <1>3 DEF LineExact, InLine, HasPlace
  <2>3. \A u \in Tasks : pc'[u] = "locked" => line'[entry'[u]][1] = u
    BY <1>1, <1>2 DEF LineExact
  <2> QED  BY <2>1, <2>2, <2>3, <1>6 DEF LineExact
<1> QED  BY <1>9, <1>10, <1>11, <1>12, <1>13, <1>14

(* Evicting is safe: a count of zero means that no handle is left.         *)
LEMMA EvictsUnused ==
    ASSUME IInv, NEW t \in Tasks, pc[t] = "remove", Evicts(t)
    PROVE  \A u \in Tasks : Counted(u) => entry[u] # entry[t] /\ key[u] # key[t]
<1> USE DEF IInv
<1>1. entry[t] \in Entries /\ ~Free(entry[t])
  BY DEF TypeOK, HasEntry, Free
<1>2. Cardinality(Handles(entry[t])) = 0
  BY <1>1 DEF Evicts, RefCountExact
<1>3. Handles(entry[t]) = {}
  BY <1>2, HandlesFinite, FS_EmptySet
<1> QED  BY <1>1, <1>3 DEF Handles, Evicts, LiveHandleIsCurrent

(* TableLockManager::remove_if_unused: an eviction takes an entry that no  *)
(* handle counts on, a refused one changes nothing that counts.            *)
LEMMA RemoveIInv ==
    ASSUME IInv, NEW t \in Tasks, remove_if_unused(t)
    PROVE  IInv'
<1> USE DEF IInv
<1>1. /\ pc[t] = "remove" /\ ~Counted(t) /\ ~InLine(t)
      /\ UNCHANGED <<ref_count, line, key>>
      /\ locks' = IF Evicts(t) THEN [locks EXCEPT ![key[t]] = None] ELSE locks
      /\ pc' = [pc EXCEPT ![t] = "idle"]
      /\ entry' = [entry EXCEPT ![t] = None]
  BY DEF remove_if_unused, Counted, InLine
<1>2. TypeOK'
  BY <1>1 DEF TypeOK, PCs
<1>3. HasEntry'
  BY <1>1 DEF TypeOK, HasEntry
<1>4. OneKeyPerEntry'
  BY <1>1 DEF TypeOK, OneKeyPerEntry
<1>5. \A u \in Tasks : Counted(u)' => Counted(u) /\ u # t /\ entry'[u] = entry[u]
  BY <1>1 DEF TypeOK, Counted
<1>6. LiveHandleIsCurrent'
  BY <1>1, <1>5, EvictsUnused DEF TypeOK, LiveHandleIsCurrent
<1>7. \A f \in Entries : Handles(f)' = Handles(f)
  BY <1>1 DEF TypeOK, Handles, Counted
<1>8. \A f \in Entries : ~Free(f)' => ~Free(f)
  BY <1>1, NoneIsNew DEF TypeOK, Free
<1>9. RefCountExact'
  BY <1>1, <1>7, <1>8 DEF RefCountExact
<1>10. LineExact'
  <2>1. ASSUME NEW f \in Entries, SoundLine(f) PROVE SoundLine(f)'
    <3>1. \A i \in 1 .. Len(line[f]) : line[f][i] \in Tasks /\ line[f][i] # t
      BY <2>1, <1>1 DEF TypeOK, SoundLine
    <3> QED  BY <2>1, <3>1, <1>1 DEF SoundLine, InLine, TypeOK
  <2>2. \A u \in Tasks : InLine(u)' => InLine(u) /\ u # t
    BY <1>1 DEF InLine, TypeOK
  <2>3. \A u \in Tasks : InLine(u)' => HasPlace(u)'
    BY <1>1, <2>2 DEF LineExact, HasPlace, TypeOK
  <2>4. \A u \in Tasks : pc'[u] = "locked" => line'[entry'[u]][1] = u
    BY <1>1 DEF LineExact, TypeOK
  <2> QED  BY <2>1, <2>3, <2>4, <1>8 DEF LineExact
<1> QED  BY <1>2, <1>3, <1>4, <1>6, <1>9, <1>10

(***************************************************************************)
(* The inductive invariant holds in every reachable state.                 *)
(***************************************************************************)
LEMMA NextIInv == IInv /\ [Next]_vars => IInv'
<1> SUFFICES ASSUME IInv, [Next]_vars PROVE IInv'
  OBVIOUS
<1>1. ASSUME NEW t \in Tasks, NEW k \in Keys, lock_for(t, k) PROVE IInv'
  BY <1>1, LockForIInv
<1>2. ASSUME NEW t \in Tasks, lock(t) PROVE IInv'
  BY <1>2, LockIInv
<1>3. ASSUME NEW t \in Tasks, Granted(t) PROVE IInv'
  BY <1>3, GrantedIInv
<1>4. ASSUME NEW t \in Tasks, Unlock(t) PROVE IInv'
  BY <1>4, UnlockIInv
<1>5. ASSUME NEW t \in Tasks, Cancel(t) PROVE IInv'
  BY <1>5, CancelIInv
<1>6. ASSUME NEW t \in Tasks, drop(t) PROVE IInv'
  BY <1>6, DropIInv
<1>7. ASSUME NEW t \in Tasks, remove_if_unused(t) PROVE IInv'
  BY <1>7, RemoveIInv
<1>8. CASE UNCHANGED vars
  BY <1>8 DEF vars, IInv, TypeOK, HasEntry, OneKeyPerEntry, LiveHandleIsCurrent, Counted,
              RefCountExact, Handles, Free, LineExact, SoundLine, HasPlace, InLine
<1> QED  BY <1>1, <1>2, <1>3, <1>4, <1>5, <1>6, <1>7, <1>8 DEF Next

(* The invariant of TableLock holds in every state of the lock manager:    *)
(* among its parts, a call with a handle holds the entry that the map has  *)
(* for its key, although handles are dropped and entries evicted and       *)
(* reused in any order (table_lock.rs:25-59).                              *)
THEOREM InvariantCorrect == Spec => []IInv
  BY InitIInv, NextIInv, PTL DEF Spec

(* Type correctness of the lock manager's map, counts and mutexes, with    *)
(* exact reference counts: in particular no count ever drops below zero.   *)
THEOREM TypeCorrect == Spec => [](TypeOK /\ RefCountExact /\ LiveHandleIsCurrent)
<1>1. IInv => TypeOK /\ RefCountExact /\ LiveHandleIsCurrent
  BY DEF IInv
<1> QED  BY <1>1, InvariantCorrect, PTL

(* Two holders of one key stand on the entry the map has for it, and only  *)
(* the first in its line holds: the per-table lock excludes.               *)
THEOREM MutexCorrect == Spec => []MutualExclusion
<1>1. IInv => MutualExclusion
  BY DEF IInv, MutualExclusion, LiveHandleIsCurrent, LineExact, Counted
<1> QED  BY <1>1, InvariantCorrect, PTL

(* No step leaves an entry in the map with nobody to evict it.             *)
LEMMA NextNoLeak == IInv /\ NoLeakedEntry /\ [Next]_vars => NoLeakedEntry'
<1> SUFFICES ASSUME IInv, NoLeakedEntry, [Next]_vars, NEW l \in Keys, locks'[l] # None
             PROVE  (\E u \in Tasks : entry[u] = locks[l] /\ key[u] = l /\ (Counted(u) \/ pc[u] = "remove"))'
  BY DEF NoLeakedEntry
<1> USE DEF IInv
<1> DEFINE Kept(u) == entry[u] = locks[l] /\ key[u] = l /\ (Counted(u) \/ pc[u] = "remove")
<1>0. locks[l] # None => \E u \in Tasks : Kept(u)
  BY DEF NoLeakedEntry
<1>1. ASSUME NEW t \in Tasks, NEW k \in Keys, lock_for(t, k) PROVE \E u \in Tasks : Kept(u)'
  <2>1. pc[t] = "idle" /\ pc'[t] = "handle" /\ key'[t] = k /\ entry'[t] = locks'[k]
    BY <1>1 DEF lock_for, TypeOK
  <2>2. CASE l = k
    BY <2>1, <2>2 DEF Counted
  <2>3. CASE l # k
    <3>1. locks'[l] = locks[l]
      BY <1>1, <2>3 DEF lock_for, TypeOK
    <3>2. PICK u \in Tasks : Kept(u)
      BY <3>1, <1>0
    <3>3. u # t
      BY <2>1, <3>2 DEF Counted
    <3>4. Kept(u)'
      BY <1>1, <3>1, <3>2, <3>3 DEF lock_for, TypeOK, Counted
    <3> QED  BY <3>4
  <2> QED  BY <2>2, <2>3
<1>2. ASSUME NEW t \in Tasks, lock(t) \/ Granted(t) \/ Unlock(t) \/ Cancel(t)
      PROVE  \E u \in Tasks : Kept(u)'
  <2>1. PICK u \in Tasks : Kept(u)
    BY <1>0, <1>2 DEF lock, Granted, Unlock, Cancel
  <2>2. Kept(u)'
    BY <1>2, <2>1 DEF lock, Granted, Unlock, Cancel, Counted, TypeOK
  <2> QED  BY <2>2
<1>3. ASSUME NEW t \in Tasks, drop(t) PROVE \E u \in Tasks : Kept(u)'
  <2>1. /\ pc[t] = "dropping" /\ Counted(t) /\ entry[t] \in Entries /\ ~Free(entry[t])
        /\ UNCHANGED <<locks, key>>
        /\ \A u \in Tasks : u # t => pc'[u] = pc[u] /\ entry'[u] = entry[u]
    BY <1>3 DEF drop, Counted, TypeOK, HasEntry, Free
  <2>2. PICK u \in Tasks : Kept(u)
    BY <1>0, <2>1
  <2>3. CASE u # t
    BY <2>1, <2>2, <2>3 DEF Counted
  <2>4. CASE u = t /\ ref_count[entry[t]] = 1
    <3>1. pc'[t] = "remove" /\ entry'[t] = entry[t]
      BY <1>3, <2>4 DEF drop, TypeOK
    <3> QED  BY <2>1, <2>2, <2>4, <3>1
  <2>5. CASE u = t /\ ref_count[entry[t]] # 1
    <3>1. t \in Handles(entry[t]) /\ Cardinality(Handles(entry[t])) # 1
      BY <2>1, <2>5 DEF Handles, RefCountExact
    <3>2. PICK w \in Handles(entry[t]) : w # t
      <4>1. Handles(entry[t]) # {t}
        BY <3>1, FS_Singleton
      <4> QED  BY <3>1, <4>1
    <3>3. w \in Tasks /\ w # t /\ Counted(w) /\ entry[w] = entry[t] /\ key[w] = key[t]
      BY <3>2, <2>1, NoneIsNew DEF Handles, OneKeyPerEntry
    <3>4. Kept(w)'
      BY <2>1, <2>2, <2>5, <3>3 DEF Counted
    <3> QED  BY <3>3, <3>4
  <2> QED  BY <2>3, <2>4, <2>5
<1>4. ASSUME NEW t \in Tasks, remove_if_unused(t) PROVE \E u \in Tasks : Kept(u)'
  <2>1. /\ pc[t] = "remove" /\ entry[t] \in Entries /\ ~Free(entry[t]) /\ key' = key
        /\ \A u \in Tasks : u # t => pc'[u] = pc[u] /\ entry'[u] = entry[u]
    BY <1>4 DEF remove_if_unused, TypeOK, HasEntry, Free
  <2>2. locks'[l] = locks[l] /\ (l = key[t] => ~Evicts(t))
    BY <1>4 DEF remove_if_unused, TypeOK
  <2>3. PICK u \in Tasks : Kept(u)
    BY <1>0, <2>2
  <2>4. CASE u # t
    BY <2>1, <2>2, <2>3, <2>4 DEF Counted
  <2>5. CASE u = t
    <3>1. locks[l] = entry[t] /\ l = key[t] /\ ref_count[entry[t]] # 0
      BY <2>2, <2>3, <2>5 DEF Evicts
    <3>2. Handles(entry[t]) # {}
      BY <3>1, <2>1, FS_EmptySet DEF RefCountExact
    <3>3. PICK w \in Tasks : Counted(w) /\ entry[w] = entry[t]
      BY <3>2 DEF Handles
    <3>4. w # t /\ key[w] = key[t]
      BY <3>3, <2>1, NoneIsNew DEF Counted, OneKeyPerEntry
    <3>5. Kept(w)'
      BY <2>1, <2>2, <3>1, <3>3, <3>4 DEF Counted
    <3> QED  BY <3>5
  <2> QED  BY <2>4, <2>5
<1>5. ASSUME UNCHANGED vars PROVE \E u \in Tasks : Kept(u)'
  BY <1>0, <1>5 DEF vars, Counted
<1> QED  BY <1>1, <1>2, <1>3, <1>4, <1>5 DEF Next

(* The map never keeps an entry that no handle uses and no drop is about   *)
(* to evict, so it is empty once every Commit call is over.                *)
THEOREM NoLeakCorrect == Spec => []NoLeakedEntry
<1>1. Init => NoLeakedEntry
  BY DEF Init, NoLeakedEntry
<1> QED  BY <1>1, InitIInv, NextIInv, NextNoLeak, PTL DEF Spec

----------------------------------------------------------------------------
(***************************************************************************)
(* The lock manager implements KeyLock, for every number of tasks, keys    *)
(* and entry addresses: the map of evictable entries behaves like one      *)
(* first-in-first-out mutex per table key.                                 *)
(***************************************************************************)
(* A key's line holds tasks that wait for or hold that key, nobody else.   *)
LEMMA KeyLineSound ==
    ASSUME IInv, NEW k \in Keys
    PROVE  /\ KeyLine[k] \in Seq(Tasks)
           /\ \A i \in 1 .. Len(KeyLine[k]) :
                 InLine(KeyLine[k][i]) /\ entry[KeyLine[k][i]] = locks[k]
<1>1. CASE locks[k] = None
  <2>1. KeyLine[k] = <<>>
    BY <1>1 DEF KeyLine
  <2> QED  BY <2>1, EmptySeq
<1>2. CASE locks[k] # None
  <2>1. KeyLine[k] = line[locks[k]] /\ locks[k] \in Entries /\ ~Free(locks[k])
    BY <1>2 DEF KeyLine, IInv, TypeOK, Free
  <2> QED  BY <2>1 DEF IInv, TypeOK, LineExact, SoundLine
<1> QED  BY <1>1, <1>2

(* A counted handle's key has, as its line, the line of the handle's entry.*)
LEMMA KeyLineOfHandle ==
    ASSUME IInv, NEW t \in Tasks, Counted(t)
    PROVE  /\ key[t] \in Keys /\ entry[t] \in Entries /\ entry[t] # None
           /\ locks[key[t]] = entry[t]
           /\ KeyLine[key[t]] = line[entry[t]]
           /\ \A l \in Keys : l # key[t] => locks[l] # entry[t]
  BY NoneIsNew DEF IInv, TypeOK, HasEntry, Counted, LiveHandleIsCurrent, OneKeyPerEntry, KeyLine

(* What a change of one entry's line does to the lines of the keys.        *)
LEMMA KeyLineUpdate ==
    ASSUME IInv, NEW t \in Tasks, Counted(t), NEW s,
           locks' = locks, line' = [line EXCEPT ![entry[t]] = s]
    PROVE  KeyLine' = [KeyLine EXCEPT ![key[t]] = s]
<1>1. /\ key[t] \in Keys /\ entry[t] \in Entries /\ entry[t] # None
      /\ locks[key[t]] = entry[t]
      /\ \A l \in Keys : l # key[t] => locks[l] # entry[t]
  BY KeyLineOfHandle
<1>2. ASSUME NEW l \in Keys
      PROVE  KeyLine'[l] = [KeyLine EXCEPT ![key[t]] = s][l]
  <2>1. CASE l = key[t]
    BY <1>1, <2>1 DEF KeyLine, IInv, TypeOK
  <2>2. CASE l # key[t]
    BY <1>1, <2>2 DEF KeyLine, IInv, TypeOK
  <2> QED  BY <2>1, <2>2
<1> QED  BY <1>2 DEF KeyLine

(* One lemma per action: it maps to a step of KeyLock or to a stutter.     *)
(* lock_for changes no line: a fresh entry's line is empty.                *)
LEMMA LockForStutters ==
    ASSUME IInv, NEW t \in Tasks, NEW k \in Keys, lock_for(t, k)
    PROVE  UNCHANGED <<KeyLine, Holding>>
<1>1. PICK e \in Entries :
          /\ EntryFor(k, e)
          /\ locks' = [locks EXCEPT ![k] = e]
          /\ line' = [line EXCEPT ![e] = IF locks[k] = None THEN <<>> ELSE @]
  BY DEF lock_for
<1>2. ASSUME NEW l \in Keys PROVE KeyLine'[l] = KeyLine[l]
  <2>1. CASE locks[k] = None
    BY <1>1, <2>1, NoneIsNew DEF EntryFor, Free, KeyLine, IInv, TypeOK
  <2>2. CASE locks[k] # None
    <3>1. locks' = locks /\ line' = line
      BY <1>1, <2>2 DEF EntryFor, IInv, TypeOK
    <3> QED  BY <3>1 DEF KeyLine
  <2> QED  BY <2>1, <2>2
<1>3. KeyLine' = KeyLine
  BY <1>2 DEF KeyLine
<1>4. Holding' = Holding
  BY DEF lock_for, Holding, IInv, TypeOK
<1> QED  BY <1>3, <1>4

(* TableLock::lock is KeyLock's Join on the handle's key.                  *)
LEMMA LockJoins ==
    ASSUME IInv, NEW t \in Tasks, lock(t)
    PROVE  KL!Join(t, key[t])
<1>1. pc[t] = "handle" /\ Counted(t) /\ ~InLine(t) /\ locks' = locks
  BY DEF lock, Counted, InLine
<1>2. key[t] \in Keys /\ KeyLine[key[t]] = line[entry[t]]
  BY <1>1, KeyLineOfHandle
<1>3. KeyLine' = [KeyLine EXCEPT ![key[t]] = Append(line[entry[t]], t)]
  BY <1>1, KeyLineUpdate DEF lock
<1>4. ~KL!InLine(t)
  BY <1>1, KeyLineSound DEF KL!InLine
<1>5. CASE line[entry[t]] = <<>>
  <2>1. Holding' = Holding \cup {t}
    BY <1>5 DEF lock, Holding, IInv, TypeOK
  <2> QED  BY <1>2, <1>3, <1>4, <1>5, <2>1 DEF KL!Join
<1>6. CASE line[entry[t]] # <<>>
  <2>1. Holding' = Holding
    BY <1>6 DEF lock, Holding, IInv, TypeOK
  <2> QED  BY <1>2, <1>3, <1>4, <2>1 DEF KL!Join
<1> QED  BY <1>5, <1>6

(* A waiter that gets its guard Enters.                                    *)
LEMMA GrantedEnters ==
    ASSUME IInv, NEW t \in Tasks, Granted(t)
    PROVE  KL!Enter(t, key[t])
<1>1. Counted(t) /\ KeyLine' = KeyLine
  BY DEF Granted, Counted, KeyLine
<1>2. KeyLine[key[t]] = line[entry[t]]
  BY <1>1, KeyLineOfHandle
<1>3. Holding' = Holding \cup {t}
  BY DEF Granted, Holding, IInv, TypeOK
<1> QED  BY <1>1, <1>2, <1>3 DEF Granted, KL!Enter

(* Dropping the guard is Leave.                                            *)
LEMMA UnlockLeaves ==
    ASSUME IInv, NEW t \in Tasks, Unlock(t)
    PROVE  KL!Leave(t, key[t])
<1>1. Counted(t) /\ InLine(t) /\ locks' = locks
  BY DEF Unlock, Counted, InLine
<1>2. /\ key[t] \in Keys /\ entry[t] \in Entries
      /\ KeyLine[key[t]] = line[entry[t]]
  BY <1>1, KeyLineOfHandle
<1>3. line[entry[t]] \in Seq(Tasks) /\ line[entry[t]][1] = t /\ 1 \in 1 .. Len(line[entry[t]])
  BY <1>1, <1>2 DEF Unlock, IInv, TypeOK, LineExact, HasPlace
<1>4. Tail(line[entry[t]]) = RemoveAt(line[entry[t]], 1)
  <2>1. line[entry[t]] # <<>>
    BY <1>3
  <2> QED  BY <1>3, <2>1, TailIsRemoveAt
<1>5. KeyLine' = [KeyLine EXCEPT ![key[t]] = RemoveAt(line[entry[t]], 1)]
  BY <1>1, <1>4, KeyLineUpdate DEF Unlock
<1>6. Holding' = Holding \ {t}
  BY DEF Unlock, Holding, IInv, TypeOK
<1> QED  BY <1>2, <1>3, <1>5, <1>6 DEF KL!Leave, KL!RemoveAt, RemoveAt

(* A call dropped while it waits Leaves as well.                           *)
LEMMA CancelLeaves ==
    ASSUME IInv, NEW t \in Tasks, Cancel(t)
    PROVE  KL!Leave(t, key[t])
<1>1. Counted(t) /\ locks' = locks
  BY DEF Cancel, Counted
<1>2. key[t] \in Keys /\ KeyLine[key[t]] = line[entry[t]]
  BY <1>1, KeyLineOfHandle
<1>3. PICK i \in 1 .. Len(line[entry[t]]) :
          /\ line[entry[t]][i] = t
          /\ line' = [line EXCEPT ![entry[t]] = RemoveAt(@, i)]
  BY DEF Cancel
<1>4. KeyLine' = [KeyLine EXCEPT ![key[t]] = RemoveAt(line[entry[t]], i)]
  BY <1>1, <1>3, KeyLineUpdate
<1>5. Holding' = Holding \ {t}
  BY DEF Cancel, Holding, IInv, TypeOK
<1> QED  BY <1>2, <1>3, <1>4, <1>5 DEF KL!Leave, KL!RemoveAt, RemoveAt

(* TableLock::drop changes no line.                                        *)
LEMMA DropStutters ==
    ASSUME IInv, NEW t \in Tasks, drop(t)
    PROVE  UNCHANGED <<KeyLine, Holding>>
<1>1. KeyLine' = KeyLine
  BY DEF drop, KeyLine
<1>2. Holding' = Holding
  BY DEF drop, Holding, IInv, TypeOK
<1> QED  BY <1>1, <1>2

(* Evicting an entry loses no waiter: its line is empty.                   *)
LEMMA RemoveStutters ==
    ASSUME IInv, NEW t \in Tasks, remove_if_unused(t)
    PROVE  UNCHANGED <<KeyLine, Holding>>
<1>1. Holding' = Holding
  BY DEF remove_if_unused, Holding, IInv, TypeOK
<1>2. CASE ~Evicts(t)
  BY <1>1, <1>2 DEF remove_if_unused, KeyLine
<1>3. CASE Evicts(t)
  <2>1. /\ pc[t] = "remove" /\ key[t] \in Keys /\ locks[key[t]] = entry[t]
        /\ line' = line /\ locks' = [locks EXCEPT ![key[t]] = None]
    BY <1>3 DEF remove_if_unused, Evicts, IInv, TypeOK
  <2>2. KeyLine[key[t]] \in Seq(Tasks) /\ Len(KeyLine[key[t]]) \in Nat
    BY <2>1, KeyLineSound, LenProperties
  <2>3. ~(1 \in 1 .. Len(KeyLine[key[t]]))
    <3> SUFFICES ASSUME 1 \in 1 .. Len(KeyLine[key[t]]) PROVE FALSE
      OBVIOUS
    <3> DEFINE u == KeyLine[key[t]][1]
    <3>1. u \in Tasks /\ InLine(u) /\ entry[u] = entry[t]
      BY <2>1, <2>2, KeyLineSound, ElementOfSeq
    <3>2. Counted(u)
      BY <3>1 DEF InLine, Counted
    <3> QED  BY <3>1, <3>2, <2>1, <1>3, EvictsUnused
  <2>4. KeyLine[key[t]] = <<>>
    BY <2>2, <2>3, EmptySeq
  <2>5. \A l \in Keys : KeyLine'[l] = KeyLine[l]
    BY <2>1, <2>4 DEF KeyLine, IInv, TypeOK
  <2>6. KeyLine' = KeyLine
    BY <2>5 DEF KeyLine
  <2> QED  BY <1>1, <2>6
<1> QED  BY <1>2, <1>3

(* The lock manager implements the per-key line: no task jumps the queue,  *)
(* none but the first is let in, and no eviction loses a waiter or lets a  *)
(* second mutex appear for a key.                                          *)
THEOREM LockManagerImplementsKeyLock == Spec => ImplementsKeyLock
<1>1. Init => KL!KLInit
  <2> SUFFICES ASSUME Init PROVE KL!KLInit
    OBVIOUS
  <2>1. KeyLine = [k \in Keys |-> <<>>]
    BY DEF Init, KeyLine
  <2>2. Holding = {}
    BY DEF Init, Holding
  <2> QED  BY <2>1, <2>2 DEF KL!KLInit
<1>2. IInv /\ [Next]_vars => [KL!KLNext]_(KL!absVars)
  <2> SUFFICES ASSUME IInv, [Next]_vars PROVE [KL!KLNext]_(KL!absVars)
    OBVIOUS
  <2> USE DEF KL!absVars
  <2>1. ASSUME NEW t \in Tasks, NEW k \in Keys, lock_for(t, k) PROVE [KL!KLNext]_(KL!absVars)
    BY <2>1, LockForStutters
  <2>2. ASSUME NEW t \in Tasks, lock(t) PROVE [KL!KLNext]_(KL!absVars)
    BY <2>2, LockJoins DEF KL!KLNext, IInv, TypeOK
  <2>3. ASSUME NEW t \in Tasks, Granted(t) PROVE [KL!KLNext]_(KL!absVars)
    BY <2>3, GrantedEnters DEF KL!KLNext, IInv, TypeOK
  <2>4. ASSUME NEW t \in Tasks, Unlock(t) PROVE [KL!KLNext]_(KL!absVars)
    BY <2>4, UnlockLeaves DEF KL!KLNext, IInv, TypeOK
  <2>5. ASSUME NEW t \in Tasks, Cancel(t) PROVE [KL!KLNext]_(KL!absVars)
    BY <2>5, CancelLeaves DEF KL!KLNext, IInv, TypeOK
  <2>6. ASSUME NEW t \in Tasks, drop(t) PROVE [KL!KLNext]_(KL!absVars)
    BY <2>6, DropStutters
  <2>7. ASSUME NEW t \in Tasks, remove_if_unused(t) PROVE [KL!KLNext]_(KL!absVars)
    BY <2>7, RemoveStutters
  <2>8. CASE UNCHANGED vars
    BY <2>8 DEF vars, KeyLine, Holding
  <2> QED  BY <2>1, <2>2, <2>3, <2>4, <2>5, <2>6, <2>7, <2>8 DEF Next
<1> QED  BY <1>1, <1>2, InitIInv, NextIInv, PTL DEF Spec, ImplementsKeyLock, KL!KLSpec
=============================================================================
