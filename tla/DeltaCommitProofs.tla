------------------------- MODULE DeltaCommitProofs -------------------------
(***************************************************************************)
(* Proofs about the Commit RPC, for any number of calls and replicas, any  *)
(* requests, any limit on attempts and any of the faults: the inductive    *)
(* invariant of DeltaCommit and what follows from it.                      *)
(***************************************************************************)
EXTENDS DeltaCommit, SequenceLemmas, TLAPS, SequenceTheorems

(* Nothing of call u changes.                                              *)
Untouched(u) ==
    /\ pc'[u] = pc[u] /\ target'[u] = target[u] /\ creating'[u] = creating[u]
    /\ attempts'[u] = attempts[u] /\ answer'[u] = answer[u] /\ orphan'[u] = orphan[u]

(* The types of what the invariant says of a call.                         *)
LEMMA CallTypes ==
    ASSUME TypeOK
    PROVE  /\ Len(log) \in Nat
           /\ \A i \in 1 .. Len(log) : log[i] \in Requests
           /\ \A t \in Requests : call[t].expected \in Int \cup {None}
           /\ None \notin Int
<1>1. log \in Seq(Requests) /\ Len(log) \in Nat
  BY LenProperties DEF TypeOK
<1>2. \A i \in 1 .. Len(log) : log[i] \in Requests
  BY <1>1, ElementOfSeq
<1>3. \A t \in Requests : call[t].expected \in Int \cup {None}
  BY CallKindsAssumption DEF TypeOK, CallType
<1> QED  BY <1>1, <1>2, <1>3, NoneIsNoVersion

(* A put that lands adds its request at the end of the log.                *)
LEMMA LogAppended ==
    ASSUME TypeOK, NEW t \in Requests, log' = Append(log, t)
    PROVE  /\ log' \in Seq(Requests)
           /\ Len(log') = Len(log) + 1
           /\ \A i \in 1 .. Len(log) : log'[i] = log[i]
           /\ log'[Len(log) + 1] = t
           /\ \A u \in Requests : Landed(u)' <=> (Landed(u) \/ u = t)
<1>1. log \in Seq(Requests) /\ Len(log) \in Nat
  BY LenProperties DEF TypeOK
<1>2. /\ log' \in Seq(Requests)
      /\ Len(log') = Len(log) + 1
      /\ \A i \in 1 .. Len(log) : log'[i] = log[i]
      /\ log'[Len(log) + 1] = t
  BY <1>1, AppendProperties
<1>n. PICK n \in Nat : n = Len(log)
  BY <1>1
<1>3. \A u \in Requests : Landed(u)' <=> (Landed(u) \/ u = t)
  <2> SUFFICES ASSUME NEW u \in Requests PROVE Landed(u)' <=> (Landed(u) \/ u = t)
    OBVIOUS
  <2>1. Landed(u)' <=> \E i \in 1 .. n + 1 : log'[i] = u
    BY <1>2, <1>n DEF Landed
  <2>2. Landed(u) <=> \E i \in 1 .. n : log[i] = u
    BY <1>n DEF Landed
  <2>3. \A i \in 1 .. n : log'[i] = log[i]
    BY <1>2, <1>n
  <2>4. log'[n + 1] = t /\ n + 1 \in 1 .. n + 1
    BY <1>2, <1>n
  <2>5. \A i \in 1 .. n + 1 : i \in 1 .. n \/ i = n + 1
    OBVIOUS
  <2>6. \A i \in 1 .. n : i \in 1 .. n + 1
    OBVIOUS
  <2>7. ASSUME Landed(u)' PROVE Landed(u) \/ u = t
    BY <2>1, <2>2, <2>3, <2>4, <2>5, <2>7
  <2>8. ASSUME Landed(u) \/ u = t PROVE Landed(u)'
    BY <2>1, <2>2, <2>3, <2>4, <2>6, <2>8
  <2> QED  BY <2>7, <2>8
<1> QED  BY <1>2, <1>3

(* A step that neither answers a call a second time nor takes one back to  *)
(* the start cannot make the run undisturbed again.                        *)
LEMMA OneWriterBackwards ==
    ASSUME home' = home,
           \A u \in Requests : pc'[u] = "new" => pc[u] = "new",
           \A u \in Requests : answer'[u] = answer[u] \/ answer[u] = Pending,
           OneWriter'
    PROVE  OneWriter
<1>1. \A u \in Requests : answer[u].code \notin {"INTERNAL", "LOST"}
  BY DEF OneWriter, Pending
<1>2. \A t, u \in Requests : "new" \notin {pc[t], pc[u]} => home[t] = home[u]
  BY DEF OneWriter
<1> QED  BY <1>1, <1>2 DEF OneWriter

(* A step of one call that does not touch the log preserves the invariant  *)
(* if it does so for that call and for the lock.                           *)
LEMMA OwnStep ==
    ASSUME IInv, NEW t \in Requests,
           UNCHANGED <<log, home, call>>,
           \A u \in Requests \ {t} : Untouched(u),
           pc'[t] # "new",
           answer'[t] = answer[t] \/ pc[t] # "done",
           TypeOK', LineSound', CallSound(t)',
           OneWriter /\ OneWriter' => UpToDate(t)'
    PROVE  IInv'
<1>1. AtMostOnce' /\ StartsWithCreate' /\ ExpectedHonoured'
  BY DEF IInv, AtMostOnce, StartsWithCreate, ExpectedHonoured
<1>2. ASSUME NEW u \in Requests \ {t} PROVE CallSound(u)' /\ (UpToDate(u) => UpToDate(u)')
  <2>1. Untouched(u) /\ CallSound(u)
    BY DEF IInv
  <2>2. Landed(u)' <=> Landed(u)
    BY DEF Landed
  <2>3. PlaceSound(u)'
    BY <2>1, <2>2 DEF CallSound, PlaceSound, Untouched
  <2>4. AnswerSound(u)'
    BY <2>1 DEF CallSound, AnswerSound, Untouched
  <2>5. PutSound(u)'
    BY <2>1 DEF CallSound, PutSound, Untouched
  <2>6. PathSound(u)'
    BY <2>1 DEF CallSound, PathSound, Untouched, MayCreate
  <2>7. UpToDate(u) => UpToDate(u)'
    BY <2>1 DEF UpToDate, Untouched, Current
  <2> QED  BY <2>3, <2>4, <2>5, <2>6, <2>7 DEF CallSound
<1>3. \A u \in Requests : CallSound(u)'
  BY <1>2
<1>4. OneWriter' => OneWriter
  <2>1. \A u \in Requests : pc'[u] = "new" => pc[u] = "new"
    BY DEF Untouched
  <2>2. \A u \in Requests : answer'[u] = answer[u] \/ answer[u] = Pending
    BY DEF Untouched, IInv, CallSound, AnswerSound
  <2> QED  BY <2>1, <2>2, OneWriterBackwards
<1>5. Uncontended'
  BY <1>2, <1>4 DEF IInv, Uncontended
<1>6. ExpectedExact'
  BY <1>4 DEF IInv, ExpectedExact
<1> QED  BY <1>1, <1>3, <1>5, <1>6 DEF IInv

(***************************************************************************)
(* The lock's part of the invariant.                                       *)
(***************************************************************************)
(* A step inside the locked section leaves the lines as they are.          *)
LEMMA LineKept ==
    ASSUME LineSound, UNCHANGED <<line, holding, home>>,
           line \in [Replicas -> Seq(Requests)],
           \A u \in Requests : (pc'[u] \in InCall <=> pc[u] \in InCall) /\ (pc'[u] \in Locked <=> pc[u] \in Locked)
    PROVE  LineSound'
<1>1. \A r \in Replicas : \A i \in 1 .. Len(line[r]) : line[r][i] \in Requests
  BY ElementOfSeq
<1>2. \A r \in Replicas : \A i \in 1 .. Len(line[r]) : pc'[line[r][i]] \in InCall
  BY <1>1 DEF LineSound
<1>3. holding = {u \in Requests : pc'[u] \in Locked}
  BY DEF LineSound
<1> QED  BY <1>2, <1>3 DEF LineSound

(* Of the calls of one replica, at most one is in the locked section.      *)
LEMMA OneLocked ==
    ASSUME LineSound, NEW t \in Requests, NEW u \in Requests,
           pc[t] \in Locked, pc[u] \in Locked, home[t] = home[u]
    PROVE  t = u
  BY DEF LineSound

(* An answered call leaves its place in line, the others keep theirs.      *)
LEMMA LineLeft ==
    ASSUME TypeOK, LineSound, NEW t \in Requests, pc[t] \in InCall,
           Lock!Leave(t, home[t]), pc' = [pc EXCEPT ![t] = "done"], home' = home
    PROVE  /\ LineSound'
           /\ line' \in [Replicas -> Seq(Requests)]
           /\ holding' \subseteq Requests
<1> DEFINE r == home[t]
           s == line[r]
<1>0. r \in Replicas /\ s \in Seq(Requests) /\ Len(s) \in Nat
  BY LenProperties DEF TypeOK
<1>1. PICK i \in 1 .. Len(s) : s[i] = t /\ line' = [line EXCEPT ![r] = RemoveAt(s, i)]
  BY DEF Lock!Leave, Lock!RemoveAt, RemoveAt
<1>2. holding' = holding \ {t}
  BY DEF Lock!Leave
<1>3. \A j, l \in 1 .. Len(s) : s[j] = s[l] => j = l
  BY <1>0 DEF LineSound
<1> DEFINE q == RemoveAt(s, i)
<1>4. q \in Seq(Requests) /\ Len(q) = Len(s) - 1 /\ (\A j \in 1 .. Len(s) - 1 : q[j] = IF j < i THEN s[j] ELSE s[j + 1])
  BY <1>0, RemoveAtProperties
<1>5. /\ \A j \in 1 .. Len(q) : \E l \in 1 .. Len(s) : l # i /\ q[j] = s[l]
      /\ \A l \in 1 .. Len(s) : l # i => \E j \in 1 .. Len(q) : q[j] = s[l]
      /\ \A j, l \in 1 .. Len(q) : q[j] = q[l] => j = l
  BY <1>0, <1>3, RemoveAtInjective
<1>6. line'[r] = q /\ \A x \in Replicas : x # r => line'[x] = line[x]
  BY <1>0, <1>1 DEF TypeOK
<1>7. pc'[t] = "done" /\ \A u \in Requests : u # t => pc'[u] = pc[u]
  BY DEF TypeOK
<1> HIDE DEF q
<1>8. line' \in [Replicas -> Seq(Requests)]
  BY <1>1, <1>4 DEF TypeOK, q
<1>9. ASSUME NEW x \in Replicas
      PROVE  /\ \A j, l \in 1 .. Len(line'[x]) : line'[x][j] = line'[x][l] => j = l
             /\ \A j \in 1 .. Len(line'[x]) : home[line'[x][j]] = x /\ pc'[line'[x][j]] \in InCall
  <2>1. CASE x = r
    <3>1. ASSUME NEW j \in 1 .. Len(q) PROVE home[q[j]] = r /\ pc'[q[j]] \in InCall
      <4>1. PICK l \in 1 .. Len(s) : l # i /\ q[j] = s[l]
        BY <1>5
      <4>2. s[l] \in Requests /\ s[l] # t
        BY <4>1, <1>0, <1>1, <1>3, ElementOfSeq
      <4> QED  BY <4>1, <4>2, <1>0, <1>7 DEF LineSound
    <3> QED  BY <2>1, <3>1, <1>5, <1>6
  <2>2. CASE x # r
    <3>1. line'[x] = line[x] /\ line[x] \in Seq(Requests)
      BY <2>2, <1>6 DEF TypeOK
    <3>2. \A j \in 1 .. Len(line[x]) : line[x][j] \in Requests /\ home[line[x][j]] = x /\ pc[line[x][j]] \in InCall
      BY <3>1, ElementOfSeq DEF LineSound
    <3>3. \A j \in 1 .. Len(line[x]) : line[x][j] # t
      BY <2>2, <3>2
    <3> QED  BY <3>1, <3>2, <3>3, <1>7 DEF LineSound
  <2> QED  BY <2>1, <2>2
<1>10. ASSUME NEW u \in Requests, pc'[u] \in InCall
       PROVE  \E j \in 1 .. Len(line'[home[u]]) : line'[home[u]][j] = u
  <2>0. u # t /\ pc[u] \in InCall /\ home[u] \in Replicas
    BY <1>7, <1>10 DEF InCall, Locked, TypeOK
  <2>1. PICK l \in 1 .. Len(line[home[u]]) : line[home[u]][l] = u
    BY <2>0 DEF LineSound
  <2>2. CASE home[u] = r
    <3>1. l # i
      BY <2>0, <2>1, <2>2, <1>1
    <3>2. l \in 1 .. Len(s) /\ s[l] = u
      BY <2>1, <2>2
    <3>3. PICK j \in 1 .. Len(q) : q[j] = s[l]
      BY <3>1, <3>2, <1>5
    <3> QED  BY <2>2, <3>2, <3>3, <1>6
  <2>3. CASE home[u] # r
    BY <2>0, <2>1, <2>3, <1>6
  <2> QED  BY <2>2, <2>3
<1>11. ASSUME NEW u \in Requests, pc'[u] \in Locked
       PROVE  line'[home[u]][1] = u
  <2>0. u # t /\ pc[u] \in Locked /\ home[u] \in Replicas /\ line[home[u]][1] = u
    BY <1>7, <1>11 DEF Locked, TypeOK, LineSound
  <2>1. CASE home[u] = r
    <3>1. i # 1
      BY <2>0, <2>1, <1>1
    <3>2. 1 \in 1 .. Len(s) - 1 /\ 1 < i
      BY <3>1, <1>0
    <3>3. q[1] = s[1]
      BY <3>2, <1>4
    <3> QED  BY <2>0, <2>1, <3>3, <1>6
  <2>2. CASE home[u] # r
    BY <2>0, <2>2, <1>6
  <2> QED  BY <2>1, <2>2
<1>12. holding' = {u \in Requests : pc'[u] \in Locked}
  BY <1>2, <1>7 DEF LineSound, Locked
<1> QED  BY <1>8, <1>9, <1>10, <1>11, <1>12 DEF LineSound

(* A call that is answered or dropped in the lock's line or section: the   *)
(* invariant is kept, if a put is left behind only when no verdict is      *)
(* given.                                                                  *)
LEMMA FinishIInv ==
    ASSUME IInv, NEW t \in Requests, pc[t] \in InCall,
           NEW code \in Codes, NEW v \in Nat, Finish(t, code, v),
           UNCHANGED <<log, home, call, target, creating, attempts>>,
           orphan' \in [Requests -> BOOLEAN],
           \A u \in Requests \ {t} : orphan'[u] = orphan[u],
           orphan'[t] => pc[t] = "put" /\ code \in {"INTERNAL", "LOST"}
    PROVE  IInv'
<1>0. TypeOK /\ LineSound /\ CallSound(t)
  BY DEF IInv
<1>1. /\ pc' = [pc EXCEPT ![t] = "done"]
      /\ answer' = [answer EXCEPT ![t] = [code |-> code, version |-> v]]
      /\ Lock!Leave(t, home[t])
  BY DEF Finish, Goto
<1>2. LineSound' /\ line' \in [Replicas -> Seq(Requests)] /\ holding' \subseteq Requests
  BY <1>0, <1>1, LineLeft
<1>3. TypeOK'
  BY <1>0, <1>1, <1>2 DEF TypeOK
<1>4. \A u \in Requests \ {t} : Untouched(u)
  BY <1>0, <1>1 DEF TypeOK, Untouched
<1>5. pc'[t] = "done" /\ answer'[t].code = code /\ pc[t] # "done" /\ pc[t] # "new"
  BY <1>0, <1>1 DEF TypeOK, InCall, Locked
<1>6. CallSound(t)'
  <2>1. PlaceSound(t)'
    <3>1. Landed(t)' <=> Landed(t)
      BY DEF Landed
    <3> QED  BY <1>0, <1>5, <3>1 DEF CallSound, PlaceSound
  <2>2. AnswerSound(t)'
    BY <1>5 DEF AnswerSound
  <2>3. PutSound(t)'
    BY <1>0, <1>5 DEF CallSound, PutSound
  <2>4. PathSound(t)'
    BY <1>0, <1>5 DEF CallSound, PathSound, MayCreate
  <2> QED  BY <2>1, <2>2, <2>3, <2>4 DEF CallSound
<1>7. UpToDate(t)'
  BY <1>5 DEF UpToDate
<1> QED  BY <1>2, <1>3, <1>4, <1>5, <1>6, <1>7, OwnStep

(***************************************************************************)
(* The initial states, and one lemma per action.                           *)
(***************************************************************************)
LEMMA InitIInv == Init => IInv
<1> SUFFICES ASSUME Init PROVE IInv
  OBVIOUS
<1> USE DEF Init
<1>0. Len(log) = 0 /\ \A r \in Replicas : Len(line[r]) = 0
  BY EmptySeq
<1>1. TypeOK
  <2>1. \A t \in Requests : attempts[t] \in 0 .. MaxAttempts
    BY MaxAttemptsAssumption
  <2> QED  BY <2>1, EmptySeq DEF TypeOK, Codes, Pending
<1>2. AtMostOnce /\ StartsWithCreate /\ ExpectedHonoured /\ ExpectedExact
  BY <1>0 DEF AtMostOnce, StartsWithCreate, ExpectedHonoured, ExpectedExact
<1>3. ASSUME NEW t \in Requests PROVE CallSound(t)
  BY <1>0 DEF CallSound, PlaceSound, AnswerSound, PutSound, PathSound, Landed
<1>4. LineSound
  BY <1>0 DEF LineSound, InCall, Locked
<1>5. Uncontended
  BY DEF Uncontended, UpToDate
<1> QED  BY <1>1, <1>2, <1>3, <1>4, <1>5 DEF IInv

(* commit's early returns.                                                 *)
LEMMA RejectInvalidIInv ==
    ASSUME IInv, NEW t \in Requests, RejectInvalid(t)
    PROVE  IInv'
<1> USE DEF RejectInvalid, Goto
<1>0. TypeOK /\ LineSound /\ CallSound(t)
  BY DEF IInv
<1>1. Verdict(call[t]) \in Codes
  BY DEF Verdict, Codes
<1>2. TypeOK'
  BY <1>0, <1>1 DEF TypeOK
<1>3. \A u \in Requests \ {t} : Untouched(u)
  BY <1>0 DEF TypeOK, Untouched
<1>4. pc[t] = "new" /\ pc'[t] = "done"
  BY <1>0 DEF TypeOK
<1>5. LineSound'
  <2>1. \A u \in Requests : (pc'[u] \in InCall <=> pc[u] \in InCall) /\ (pc'[u] \in Locked <=> pc[u] \in Locked)
    BY <1>3, <1>4 DEF InCall, Locked, Untouched
  <2> QED  BY <1>0, <2>1, LineKept DEF TypeOK
<1>6. CallSound(t)'
  BY <1>0, <1>4 DEF CallSound, PlaceSound, AnswerSound, PutSound, PathSound, MayCreate, Landed
<1>7. UpToDate(t)'
  BY <1>4 DEF UpToDate
<1> QED  BY <1>2, <1>3, <1>4, <1>5, <1>6, <1>7, OwnStep

(* lock_for(..).lock(): the call joins its replica's line.                 *)
LEMMA BeginIInv ==
    ASSUME IInv, NEW t \in Requests, Begin(t)
    PROVE  IInv'
<1> DEFINE r == home[t]
           s == line[r]
           p == IF t \in holding' THEN "exists" ELSE "waiting"
<1>0. TypeOK /\ LineSound /\ CallSound(t)
  BY DEF IInv
<1>1. /\ pc[t] = "new" /\ pc' = [pc EXCEPT ![t] = p]
      /\ UNCHANGED <<log, home, call, target, creating, attempts, answer, orphan>>
      /\ line' = [line EXCEPT ![r] = Append(s, t)]
      /\ \/ holding' = holding
         \/ s = <<>> /\ holding' = holding \cup {t}
  BY DEF Begin, Goto, Lock!Join
<1>2. r \in Replicas /\ s \in Seq(Requests) /\ Len(s) \in Nat
  BY <1>0, LenProperties DEF TypeOK
<1>n. PICK n \in Nat : n = Len(s)
  BY <1>2
<1>3. /\ Append(s, t) \in Seq(Requests) /\ Len(Append(s, t)) = n + 1
      /\ \A i \in 1 .. n : Append(s, t)[i] = s[i]
      /\ Append(s, t)[n + 1] = t
  BY <1>2, <1>n, AppendProperties
<1> DEFINE q == Append(s, t)
<1>4. line'[r] = q /\ \A x \in Replicas : x # r => line'[x] = line[x]
  BY <1>0, <1>1, <1>2 DEF TypeOK
<1> HIDE DEF q
<1>5. pc'[t] = p /\ p \in InCall /\ p # "new" /\ \A u \in Requests : u # t => pc'[u] = pc[u]
  BY <1>0, <1>1 DEF TypeOK, InCall, Locked
<1>6. \A i \in 1 .. n : s[i] \in Requests /\ s[i] # t /\ home[s[i]] = r /\ pc[s[i]] \in InCall
  BY <1>0, <1>1, <1>2, <1>n, ElementOfSeq DEF LineSound, InCall, Locked
<1>7. t \notin holding
  BY <1>0, <1>1 DEF LineSound, Locked
<1>8. TypeOK'
  <2>1. line' \in [Replicas -> Seq(Requests)]
    BY <1>0, <1>1, <1>3 DEF TypeOK
  <2>2. holding' \subseteq Requests
    BY <1>0, <1>1 DEF TypeOK
  <2> QED  BY <1>0, <1>1, <1>5, <2>1, <2>2 DEF TypeOK
<1>9. LineSound'
  <2>1. ASSUME NEW x \in Replicas
        PROVE  /\ \A i, j \in 1 .. Len(line'[x]) : line'[x][i] = line'[x][j] => i = j
               /\ \A i \in 1 .. Len(line'[x]) : home[line'[x][i]] = x /\ pc'[line'[x][i]] \in InCall
    <3>1. CASE x = r
      <4>1. \A i, j \in 1 .. n : s[i] = s[j] => i = j
        BY <1>0, <1>2, <1>n DEF LineSound
      <4>2. Len(q) = n + 1 /\ q[n + 1] = t /\ \A i \in 1 .. n : q[i] = s[i]
        BY <1>3 DEF q
      <4>3. \A i \in 1 .. n + 1 : i \in 1 .. n \/ i = n + 1
        OBVIOUS
      <4>4. \A i, j \in 1 .. n + 1 : q[i] = q[j] => i = j
        BY <4>1, <4>2, <4>3, <1>6
      <4>5. \A i \in 1 .. n + 1 : home[q[i]] = r /\ pc'[q[i]] \in InCall
        BY <4>2, <4>3, <1>5, <1>6
      <4> QED  BY <3>1, <4>2, <4>4, <4>5, <1>4
    <3>2. CASE x # r
      <4>1. line'[x] = line[x] /\ line[x] \in Seq(Requests)
        BY <3>2, <1>0, <1>4 DEF TypeOK
      <4>2. \A i \in 1 .. Len(line[x]) : line[x][i] \in Requests /\ home[line[x][i]] = x /\ pc[line[x][i]] \in InCall
        BY <4>1, <1>0, ElementOfSeq DEF LineSound
      <4>3. \A i \in 1 .. Len(line[x]) : line[x][i] # t
        BY <4>2, <3>2
      <4> QED  BY <4>1, <4>2, <4>3, <1>0, <1>5 DEF LineSound
    <3> QED  BY <3>1, <3>2
  <2>2. ASSUME NEW u \in Requests, pc'[u] \in InCall
        PROVE  \E i \in 1 .. Len(line'[home[u]]) : line'[home[u]][i] = u
    <3>0. home[u] \in Replicas
      BY <1>0 DEF TypeOK
    <3>1. CASE u = t
      <4>1. n + 1 \in 1 .. Len(q) /\ q[n + 1] = t
        BY <1>3 DEF q
      <4> QED  BY <3>1, <4>1, <1>4
    <3>2. CASE u # t
      <4>1. PICK l \in 1 .. Len(line[home[u]]) : line[home[u]][l] = u
        BY <3>2, <2>2, <1>0, <1>5 DEF LineSound
      <4>2. CASE home[u] = r
        <5>1. l \in 1 .. n /\ s[l] = u
          BY <4>1, <4>2, <1>n
        <5>2. l \in 1 .. Len(q) /\ q[l] = u
          BY <5>1, <1>3 DEF q
        <5> QED  BY <5>2, <4>2, <1>4
      <4>3. CASE home[u] # r
        BY <3>0, <4>1, <4>3, <1>4
      <4> QED  BY <4>2, <4>3
    <3> QED  BY <3>1, <3>2
  <2>3. ASSUME NEW u \in Requests, pc'[u] \in Locked
        PROVE  line'[home[u]][1] = u
    <3>0. home[u] \in Replicas
      BY <1>0 DEF TypeOK
    <3>1. CASE u = t
      <4>1. t \in holding'
        BY <2>3, <3>1, <1>5 DEF Locked
      <4>2. n = 0
        BY <4>1, <1>1, <1>2, <1>7, <1>n, EmptySeq
      <4>3. q[1] = t
        BY <4>2, <1>3 DEF q
      <4> QED  BY <3>1, <4>3, <1>4
    <3>2. CASE u # t
      <4>1. pc[u] \in Locked /\ pc[u] \in InCall /\ line[home[u]][1] = u
        BY <2>3, <3>2, <1>0, <1>5 DEF LineSound, InCall
      <4>2. CASE home[u] = r
        <5>1. PICK l \in 1 .. n : s[l] = u
          BY <4>1, <4>2, <1>0, <1>n DEF LineSound
        <5>2. 1 \in 1 .. n
          BY <5>1
        <5>3. q[1] = s[1]
          BY <5>2, <1>3 DEF q
        <5> QED  BY <4>1, <4>2, <5>3, <1>4
      <4>3. CASE home[u] # r
        BY <3>0, <4>1, <4>3, <1>4
      <4> QED  BY <4>2, <4>3
    <3> QED  BY <3>1, <3>2
  <2>4. holding' = {u \in Requests : pc'[u] \in Locked}
    <3>1. pc'[t] \in Locked <=> t \in holding'
      BY <1>5 DEF Locked
    <3>2. \A u \in Requests : u # t => (pc'[u] \in Locked <=> u \in holding)
      BY <1>0, <1>5 DEF LineSound
    <3>3. \A u \in Requests : u \in holding' <=> pc'[u] \in Locked
      BY <3>1, <3>2, <1>1
    <3>4. holding' \subseteq Requests
      BY <1>8 DEF TypeOK
    <3> QED  BY <3>3, <3>4
  <2> QED  BY <2>1, <2>2, <2>3, <2>4, <1>1 DEF LineSound
<1>10. \A u \in Requests \ {t} : Untouched(u)
  BY <1>1, <1>5 DEF Untouched
<1>11. CallSound(t)'
  <2>1. pc'[t] \in {"exists", "waiting"}
    BY <1>5
  <2>2. Landed(t)' <=> Landed(t)
    BY <1>1 DEF Landed
  <2> QED  BY <1>0, <1>1, <2>1, <2>2 DEF CallSound, PlaceSound, AnswerSound, PutSound, PathSound, MayCreate
<1>12. UpToDate(t)'
  BY <1>5 DEF UpToDate
<1> QED  BY <1>1, <1>5, <1>8, <1>9, <1>10, <1>11, <1>12, OwnStep

(* A waiter is let in: it is the first of its line.                        *)
LEMMA EnterSectionIInv ==
    ASSUME IInv, NEW t \in Requests, EnterSection(t)
    PROVE  IInv'
<1>0. TypeOK /\ LineSound /\ CallSound(t)
  BY DEF IInv
<1>1. /\ pc[t] = "waiting" /\ pc' = [pc EXCEPT ![t] = "exists"]
      /\ UNCHANGED <<log, line, home, call, target, creating, attempts, answer, orphan>>
      /\ line[home[t]][1] = t /\ holding' = holding \cup {t}
  BY DEF EnterSection, Goto, Lock!Enter
<1>2. pc'[t] = "exists" /\ \A u \in Requests : u # t => pc'[u] = pc[u]
  BY <1>0, <1>1 DEF TypeOK
<1>3. TypeOK'
  BY <1>0, <1>1 DEF TypeOK, InCall, Locked
<1>4. LineSound'
  <2>1. \A u \in Requests : (pc'[u] \in InCall <=> pc[u] \in InCall)
    BY <1>1, <1>2 DEF InCall, Locked
  <2>2. \A r \in Replicas : \A i \in 1 .. Len(line[r]) : pc'[line[r][i]] \in InCall
    BY <2>1, <1>0, ElementOfSeq DEF TypeOK, LineSound
  <2>3. \A u \in Requests : pc'[u] \in Locked <=> pc[u] \in Locked \/ u = t
    BY <1>2 DEF Locked
  <2>4. holding' = {u \in Requests : pc'[u] \in Locked}
    BY <2>3, <1>0, <1>1 DEF LineSound
  <2>5. \A u \in Requests : pc'[u] \in Locked => line[home[u]][1] = u
    BY <2>3, <1>0, <1>1 DEF LineSound
  <2> QED  BY <2>1, <2>2, <2>4, <2>5, <1>0, <1>1 DEF LineSound
<1>5. \A u \in Requests \ {t} : Untouched(u)
  BY <1>1, <1>2 DEF Untouched
<1>6. CallSound(t)'
  <2>1. Landed(t)' <=> Landed(t)
    BY <1>1 DEF Landed
  <2> QED  BY <1>0, <1>1, <1>2, <2>1 DEF CallSound, PlaceSound, AnswerSound, PutSound, PathSound, MayCreate
<1>7. UpToDate(t)'
  BY <1>2 DEF UpToDate
<1> QED  BY <1>1, <1>2, <1>3, <1>4, <1>5, <1>6, <1>7, OwnStep

(* A step from one await to the next inside the locked section, before     *)
(* anything landed.                                                        *)
LEMMA SectionStep ==
    ASSUME IInv, NEW t \in Requests, NEW p \in Locked \ {"landed"},
           pc[t] \in Locked \ {"landed"}, pc' = [pc EXCEPT ![t] = p],
           UNCHANGED <<log, line, holding, home, call, answer, orphan>>,
           target' \in [Requests -> Nat],
           creating' \in [Requests -> BOOLEAN],
           attempts' \in [Requests -> 0 .. MaxAttempts],
           \A u \in Requests \ {t} : target'[u] = target[u] /\ creating'[u] = creating[u] /\ attempts'[u] = attempts[u],
           PutSound(t)', PathSound(t)', OneWriter => UpToDate(t)'
    PROVE  IInv'
<1>0. TypeOK /\ LineSound /\ CallSound(t)
  BY DEF IInv
<1>1. pc'[t] = p /\ \A u \in Requests : u # t => pc'[u] = pc[u]
  BY <1>0 DEF TypeOK
<1>2. TypeOK'
  BY <1>0 DEF TypeOK, InCall
<1>3. LineSound'
  <2>1. \A u \in Requests : (pc'[u] \in InCall <=> pc[u] \in InCall) /\ (pc'[u] \in Locked <=> pc[u] \in Locked)
    BY <1>1 DEF InCall, Locked
  <2> QED  BY <2>1, <1>0, LineKept DEF TypeOK
<1>4. \A u \in Requests \ {t} : Untouched(u)
  BY <1>1 DEF Untouched
<1>5. PlaceSound(t)' /\ AnswerSound(t)'
  <2>1. Landed(t)' <=> Landed(t)
    BY DEF Landed
  <2> QED  BY <2>1, <1>0, <1>1 DEF CallSound, PlaceSound, AnswerSound, Locked
<1>6. p # "new"
  BY DEF Locked
<1> QED  BY <1>1, <1>2, <1>3, <1>4, <1>5, <1>6, OwnStep DEF CallSound

(* A call that is still at work is no orphan.                              *)
LEMMA AtWork ==
    ASSUME IInv, NEW t \in Requests, pc[t] # "done"
    PROVE  ~orphan[t] /\ answer[t] = Pending /\ (pc[t] # "landed" => ~Landed(t))
  BY DEF IInv, CallSound, AnswerSound, PlaceSound

(* table_exists and the checks behind it.                                  *)
LEMMA TableExistsIInv ==
    ASSUME IInv, NEW t \in Requests, table_exists(t)
    PROVE  IInv'
<1>0. TypeOK /\ CallSound(t) /\ pc[t] = "exists" /\ pc[t] \in InCall /\ ~orphan[t]
  BY AtWork DEF IInv, table_exists, InCall, Locked
<1>1. UNCHANGED <<log, home, call, attempts, orphan>>
  BY DEF table_exists
<1>2. CASE /\ log # <<>>
           /\ Goto(t, "open")
           /\ UNCHANGED <<line, holding, creating, target, answer>>
  <2>1. pc'[t] = "open"
    BY <1>0, <1>2 DEF Goto, TypeOK
  <2>2. PutSound(t)' /\ PathSound(t)' /\ UpToDate(t)'
    BY <1>0, <1>1, <1>2, <2>1 DEF PutSound, PathSound, UpToDate, CallSound, MayCreate
  <2> QED  BY <1>0, <1>1, <1>2, <2>2, SectionStep DEF Goto, TypeOK, Locked
<1>3. CASE /\ Finish(t, "FAILED_PRECONDITION", 0)
           /\ UNCHANGED <<creating, target>>
  BY <1>0, <1>1, <1>3, FinishIInv DEF TypeOK, Codes
<1>4. CASE /\ log = <<>>
           /\ MayCreate(call[t])
           /\ creating' = [creating EXCEPT ![t] = TRUE]
           /\ target' = [target EXCEPT ![t] = NextVersion(-1)]
           /\ Goto(t, "put")
           /\ UNCHANGED <<line, holding, answer>>
  <2>1. pc'[t] = "put" /\ creating'[t] = TRUE /\ target'[t] = 0 /\ Len(log) = 0
    BY <1>0, <1>4, EmptySeq DEF Goto, TypeOK, NextVersion
  <2>2. PutSound(t)' /\ PathSound(t)' /\ UpToDate(t)'
    BY <1>0, <1>1, <1>4, <2>1 DEF PutSound, PathSound, UpToDate, CallSound, MayCreate
  <2>3. target' \in [Requests -> Nat] /\ creating' \in [Requests -> BOOLEAN]
    BY <1>0, <1>4 DEF TypeOK, NextVersion
  <2> QED  BY <1>0, <1>1, <1>4, <2>2, <2>3, SectionStep DEF Goto, TypeOK, Locked
<1> QED  BY <1>2, <1>3, <1>4 DEF table_exists

(* open_table and the version check: the snapshot is the latest version.   *)
LEMMA OpenTableIInv ==
    ASSUME IInv, NEW t \in Requests, open_table(t)
    PROVE  IInv'
<1>0. TypeOK /\ CallSound(t) /\ pc[t] = "open" /\ pc[t] \in InCall /\ ~orphan[t]
  BY AtWork DEF IInv, open_table, InCall, Locked
<1>1. UNCHANGED <<log, home, call, creating, attempts, orphan>>
  BY DEF open_table
<1>2. CASE /\ PassesCheck(call[t], Current)
           /\ target' = [target EXCEPT ![t] = NextVersion(Current)]
           /\ Goto(t, "attempt")
           /\ UNCHANGED <<line, holding, answer>>
  <2>0. Len(log) \in Nat \ {0} /\ call[t].expected \in Int \cup {None} /\ None \notin Int
    <3>1. log # <<>>
      BY <1>0 DEF CallSound, PutSound
    <3> QED  BY <3>1, <1>0, CallTypes, EmptySeq DEF TypeOK
  <2>1. NextVersion(Current) = Len(log)
    BY <2>0 DEF NextVersion, Current
  <2>2. pc'[t] = "attempt" /\ target'[t] = Len(log)
    BY <1>0, <1>2, <2>1 DEF Goto, TypeOK
  <2>3. call[t].expected \in {None, Len(log) - 1}
    BY <1>2 DEF PassesCheck, Current
  <2>4. PutSound(t)'
    <3>1. call[t].expected # None => call[t].expected < Len(log)
      BY <2>0, <2>3
    <3> QED  BY <3>1, <1>0, <1>1, <2>0, <2>2 DEF PutSound, CallSound
  <2>5. PathSound(t)'
    BY <1>0, <1>1, <2>2, MaxAttemptsAssumption DEF PathSound, CallSound, MayCreate
  <2>6. UpToDate(t)'
    BY <1>1, <2>2, <2>3 DEF UpToDate, Current
  <2>7. target' \in [Requests -> Nat]
    BY <1>0, <1>2, <2>0, <2>1 DEF TypeOK
  <2> QED  BY <1>0, <1>1, <1>2, <2>4, <2>5, <2>6, <2>7, SectionStep DEF Goto, TypeOK, Locked
<1>3. CASE Finish(t, StatusOf("VersionConflict"), 0) /\ UNCHANGED target
  BY <1>0, <1>1, <1>3, FinishIInv DEF TypeOK, Codes, StatusOf
<1> QED  BY <1>2, <1>3 DEF open_table

(* CommitBuilder's attempt is for the version after the latest one.        *)
LEMMA StartAttemptIInv ==
    ASSUME IInv, NEW t \in Requests, StartAttempt(t)
    PROVE  IInv'
<1>0. TypeOK /\ CallSound(t) /\ pc[t] = "attempt" /\ ~orphan[t] /\ attempts[t] \in 0 .. MaxAttempts
  BY AtWork DEF IInv, StartAttempt, TypeOK
<1>1. /\ UNCHANGED <<log, line, holding, home, call, creating, answer, orphan>>
      /\ target' = [target EXCEPT ![t] = NextVersion(Current)]
      /\ attempts' = [attempts EXCEPT ![t] = @ + 1]
      /\ pc' = [pc EXCEPT ![t] = "put"]
  BY DEF StartAttempt, Goto
<1>2. Len(log) \in Nat \ {0} /\ call[t].expected \in Int \cup {None} /\ None \notin Int
  <2>1. log # <<>>
    BY <1>0 DEF CallSound, PutSound
  <2> QED  BY <2>1, <1>0, CallTypes, EmptySeq DEF TypeOK
<1>3. NextVersion(Current) = Len(log)
  BY <1>2 DEF NextVersion, Current
<1>4. attempts[t] + 1 \in 1 .. MaxAttempts
  BY <1>0, MaxAttemptsAssumption DEF CallSound, PathSound
<1>5. pc'[t] = "put" /\ target'[t] = Len(log) /\ attempts'[t] = attempts[t] + 1
  BY <1>0, <1>1, <1>3 DEF TypeOK
<1>6. PutSound(t)'
  <2>1. target[t] <= Len(log) /\ (call[t].expected # None => call[t].expected < target[t]) /\ target[t] \in Nat
    BY <1>0 DEF CallSound, PutSound, TypeOK
  <2>2. call[t].expected # None => call[t].expected < Len(log)
    BY <2>1, <1>2
  <2> QED  BY <2>2, <1>0, <1>1, <1>2, <1>5 DEF PutSound
<1>7. PathSound(t)'
  BY <1>0, <1>1, <1>4, <1>5 DEF PathSound, CallSound, MayCreate
<1>8. OneWriter => UpToDate(t)'
  BY <1>0, <1>1, <1>5 DEF IInv, Uncontended, UpToDate, Current
<1>9. target' \in [Requests -> Nat] /\ attempts' \in [Requests -> 0 .. MaxAttempts]
  <2>1. attempts[t] + 1 \in 0 .. MaxAttempts
    BY <1>4, MaxAttemptsAssumption
  <2> QED  BY <2>1, <1>0, <1>1, <1>2, <1>3 DEF TypeOK
<1> QED  BY <1>0, <1>1, <1>6, <1>7, <1>8, <1>9, SectionStep DEF TypeOK, Locked

(* A conflict with a commit that landed since ends the call.               *)
LEMMA ConflictFoundIInv ==
    ASSUME IInv, NEW t \in Requests, ConflictFound(t)
    PROVE  IInv'
<1>0. TypeOK /\ pc[t] = "attempt" /\ pc[t] \in InCall /\ ~orphan[t]
  BY AtWork DEF IInv, ConflictFound, InCall, Locked
<1> QED  BY <1>0, FinishIInv DEF ConflictFound, TypeOK, Codes, StatusOf

(* The version was taken: no call meets this while one replica writes.     *)
LEMMA PutExistsIInv ==
    ASSUME IInv, NEW t \in Requests, PutExists(t)
    PROVE  IInv'
<1>0. TypeOK /\ CallSound(t) /\ pc[t] = "put" /\ pc[t] \in InCall /\ ~orphan[t]
  BY AtWork DEF IInv, PutExists, InCall, Locked
<1>1. UNCHANGED <<log, home, call, target, creating, attempts, orphan>> /\ target[t] < Len(log)
  BY DEF PutExists
<1>2. ~OneWriter
  <2>1. target[t] # Len(log)
    BY <1>0, <1>1, CallTypes DEF TypeOK
  <2> QED  BY <2>1, <1>0 DEF IInv, Uncontended, UpToDate
<1>3. CASE attempts[t] = 0 /\ Goto(t, "reload") /\ UNCHANGED <<line, holding, answer>>
  <2>1. pc'[t] = "reload"
    BY <1>0, <1>3 DEF Goto, TypeOK
  <2>2. log # <<>>
    BY <1>0, <1>1, EmptySeq DEF TypeOK
  <2>3. PutSound(t)' /\ PathSound(t)'
    BY <1>0, <1>1, <1>3, <2>1, <2>2 DEF PutSound, PathSound, CallSound, MayCreate
  <2> QED  BY <1>0, <1>1, <1>2, <1>3, <2>3, SectionStep DEF Goto, TypeOK, Locked
<1>4. CASE attempts[t] \in 1 .. MaxAttempts - 1 /\ Goto(t, "attempt") /\ UNCHANGED <<line, holding, answer>>
  <2>1. pc'[t] = "attempt" /\ attempts[t] < MaxAttempts
    BY <1>0, <1>4, MaxAttemptsAssumption DEF Goto, TypeOK
  <2>2. log # <<>>
    BY <1>0, <1>1, EmptySeq DEF TypeOK
  <2>3. PutSound(t)' /\ PathSound(t)'
    BY <1>0, <1>1, <1>4, <2>1, <2>2 DEF PutSound, PathSound, CallSound, MayCreate
  <2> QED  BY <1>0, <1>1, <1>2, <1>4, <2>3, SectionStep DEF Goto, TypeOK, Locked
<1>5. CASE Finish(t, StatusOf("CommitFailed"), 0)
  BY <1>0, <1>1, <1>5, FinishIInv DEF TypeOK, Codes, StatusOf
<1> QED  BY <1>3, <1>4, <1>5 DEF PutExists

(* A creating call that lost the race goes on against the table.           *)
LEMMA ReloadIInv ==
    ASSUME IInv, NEW t \in Requests, Reload(t)
    PROVE  IInv'
<1>0. TypeOK /\ CallSound(t) /\ pc[t] = "reload" /\ ~orphan[t]
  BY AtWork DEF IInv, Reload
<1>1. /\ UNCHANGED <<log, line, holding, home, call, creating, attempts, answer, orphan>>
      /\ target' = [target EXCEPT ![t] = NextVersion(Current)]
      /\ pc' = [pc EXCEPT ![t] = "attempt"]
  BY DEF Reload, Goto
<1>2. Len(log) \in Nat \ {0} /\ NextVersion(Current) = Len(log)
  <2>1. log # <<>>
    BY <1>0 DEF CallSound, PutSound
  <2>2. Len(log) \in Nat \ {0}
    BY <2>1, <1>0, CallTypes, EmptySeq DEF TypeOK
  <2> QED  BY <2>2 DEF NextVersion, Current
<1>3. pc'[t] = "attempt" /\ target'[t] = Len(log)
  BY <1>0, <1>1, <1>2 DEF TypeOK
<1>4. creating[t] /\ call[t].expected = None
  BY <1>0 DEF CallSound, PathSound, MayCreate
<1>5. PutSound(t)'
  BY <1>0, <1>1, <1>2, <1>3, <1>4 DEF PutSound, CallSound
<1>6. PathSound(t)'
  BY <1>0, <1>1, <1>3, MaxAttemptsAssumption DEF PathSound, CallSound, MayCreate
<1>7. ~OneWriter
  BY <1>0 DEF IInv, Uncontended, UpToDate
<1>8. target' \in [Requests -> Nat]
  BY <1>0, <1>1, <1>2 DEF TypeOK
<1> QED  BY <1>0, <1>1, <1>5, <1>6, <1>7, <1>8, SectionStep DEF TypeOK, Locked

(* The answer of commit_actions and of create_table.                       *)
LEMMA RespondIInv ==
    ASSUME IInv, NEW t \in Requests, Respond(t)
    PROVE  IInv'
<1>0. TypeOK /\ pc[t] = "landed" /\ pc[t] \in InCall /\ ~orphan[t] /\ target[t] \in Nat
  BY AtWork DEF IInv, Respond, InCall, Locked, TypeOK
<1>1. UNCHANGED <<log, home, call, target, creating, attempts, orphan>>
  BY DEF Respond
<1>2. CASE Finish(t, StatusOf("VersionConflict"), 0)
  BY <1>0, <1>1, <1>2, FinishIInv DEF TypeOK, Codes, StatusOf
<1>3. CASE Finish(t, "OK", target[t])
  BY <1>0, <1>1, <1>3, FinishIInv DEF TypeOK, Codes
<1> QED  BY <1>2, <1>3 DEF Respond

(* A storage call that fails: only a put is left behind.                   *)
LEMMA StorageFailsIInv ==
    ASSUME IInv, NEW t \in Requests, StorageFails(t)
    PROVE  IInv'
<1>0. TypeOK /\ pc[t] \in InCall
  BY DEF IInv, StorageFails, InCall
<1>1. /\ Finish(t, "INTERNAL", 0)
      /\ orphan' = [orphan EXCEPT ![t] = (pc[t] = "put")]
      /\ UNCHANGED <<log, home, call, target, creating, attempts>>
  BY DEF StorageFails, StatusOf
<1>2. orphan' \in [Requests -> BOOLEAN] /\ orphan'[t] = (pc[t] = "put") /\ \A u \in Requests \ {t} : orphan'[u] = orphan[u]
  BY <1>0, <1>1 DEF TypeOK
<1> QED  BY <1>0, <1>1, <1>2, FinishIInv DEF Codes

(* A dropped call: only a put is left behind.                              *)
LEMMA CancelIInv ==
    ASSUME IInv, NEW t \in Requests, Cancel(t)
    PROVE  IInv'
<1>0. TypeOK /\ pc[t] \in InCall
  BY DEF IInv, Cancel
<1>1. /\ Finish(t, "LOST", 0)
      /\ orphan' = [orphan EXCEPT ![t] = (pc[t] = "put")]
      /\ UNCHANGED <<log, home, call, target, creating, attempts>>
  BY DEF Cancel
<1>2. orphan' \in [Requests -> BOOLEAN] /\ orphan'[t] = (pc[t] = "put") /\ \A u \in Requests \ {t} : orphan'[u] = orphan[u]
  BY <1>0, <1>1 DEF TypeOK
<1> QED  BY <1>0, <1>1, <1>2, FinishIInv DEF Codes

(* A put that reaches storage as the next version, with its sender waiting *)
(* or gone, preserves the invariant.                                       *)
LEMMA LandIInv ==
    ASSUME IInv, NEW t \in Requests, pc[t] = "put" \/ orphan[t],
           target[t] = Len(log), log' = Append(log, t),
           UNCHANGED <<home, call, target, creating, attempts, answer>>,
           \A u \in Requests \ {t} : pc'[u] = pc[u] /\ orphan'[u] = orphan[u],
           pc'[t] = IF pc[t] = "put" THEN "landed" ELSE pc[t],
           ~orphan'[t],
           TypeOK', LineSound'
    PROVE  IInv'
<1>0. TypeOK /\ CallSound(t) /\ Len(log) \in Nat /\ (\A i \in 1 .. Len(log) : log[i] \in Requests)
  BY CallTypes DEF IInv
<1>n. PICK n \in Nat : n = Len(log)
  BY <1>0
<1>1. /\ Len(log') = n + 1
      /\ \A i \in 1 .. n : log'[i] = log[i]
      /\ log'[n + 1] = t
      /\ \A u \in Requests : Landed(u)' <=> (Landed(u) \/ u = t)
  BY <1>0, <1>n, LogAppended
<1>2. ~Landed(t) /\ pc'[t] \in {"landed", "done"}
  BY <1>0 DEF CallSound, PlaceSound, AnswerSound
<1>3. \A i \in 1 .. n + 1 : i \in 1 .. n \/ i = n + 1
  OBVIOUS
<1>4. call[t].expected \in Int \cup {None} /\ None \notin Int
  BY <1>0, CallTypes
<1>5. AtMostOnce'
  <2>1. \A i, j \in 1 .. n : log[i] = log[j] => i = j
    BY <1>n DEF IInv, AtMostOnce
  <2>2. \A i \in 1 .. n : log[i] # t
    BY <1>2, <1>n DEF Landed
  <2>3. \A i, j \in 1 .. n + 1 : log'[i] = log'[j] => i = j
    BY <2>1, <2>2, <1>1, <1>3
  <2> QED  BY <2>3, <1>1 DEF AtMostOnce
<1>6. StartsWithCreate'
  <2>1. CASE n = 0
    <3>1. log'[1] = t
      BY <2>1, <1>1
    <3>2. creating[t] /\ MayCreate(call[t])
      BY <2>1, <1>0, <1>n DEF CallSound, PutSound, PathSound
    <3> QED  BY <3>1, <3>2 DEF StartsWithCreate, MayCreate
  <2>2. CASE n # 0
    <3>1. 1 \in 1 .. n /\ log # <<>>
      BY <2>2, <1>n, EmptySeq
    <3>2. log'[1] = log[1]
      BY <3>1, <1>1
    <3> QED  BY <3>1, <3>2 DEF IInv, StartsWithCreate
  <2> QED  BY <2>1, <2>2
<1>7. ExpectedHonoured'
  <2>1. ASSUME NEW i \in 1 .. n + 1, call[log'[i]].expected # None PROVE call[log'[i]].expected < i - 1
    <3>1. CASE i \in 1 .. n
      BY <2>1, <3>1, <1>1, <1>n DEF IInv, ExpectedHonoured
    <3>2. CASE i = n + 1
      <4>1. call[t].expected < n
        BY <2>1, <3>2, <1>0, <1>1, <1>n DEF CallSound, PutSound
      <4>2. n = i - 1
        BY <3>2
      <4> QED  BY <3>2, <4>1, <4>2, <1>1
    <3> QED  BY <3>1, <3>2, <1>3
  <2> QED  BY <2>1, <1>1 DEF ExpectedHonoured
<1>8. ASSUME NEW u \in Requests PROVE CallSound(u)'
  <2>1. CASE u = t
    <3>1. AnswerSound(t)'
      BY <1>0 DEF CallSound, AnswerSound
    <3>2. PlaceSound(t)'
      BY <1>1, <1>2, <1>n DEF PlaceSound
    <3>3. PutSound(t)'
      BY <1>2 DEF PutSound
    <3>4. PathSound(t)'
      BY <1>0, <1>2 DEF PathSound, CallSound, MayCreate
    <3> QED  BY <2>1, <3>1, <3>2, <3>3, <3>4 DEF CallSound
  <2>2. CASE u # t
    <3>0. CallSound(u) /\ pc'[u] = pc[u] /\ orphan'[u] = orphan[u] /\ target[u] \in Nat
      BY <2>2, <1>0 DEF IInv, TypeOK
    <3>1. AnswerSound(u)'
      BY <3>0 DEF CallSound, AnswerSound
    <3>2. PlaceSound(u)'
      <4>1. CASE pc[u] = "landed"
        <5>1. target[u] + 1 \in 1 .. n /\ log[target[u] + 1] = u
          BY <3>0, <4>1, <1>n DEF CallSound, PlaceSound
        <5>2. log'[target[u] + 1] = u /\ target[u] < n + 1
          BY <5>1, <1>1, <3>0
        <5> QED  BY <2>2, <3>0, <4>1, <5>2, <1>1 DEF CallSound, PlaceSound
      <4>2. CASE pc[u] # "landed"
        BY <2>2, <3>0, <4>2, <1>1 DEF CallSound, PlaceSound
      <4> QED  BY <4>1, <4>2
    <3>3. PutSound(u)'
      <4>1. log' # <<>>
        BY <1>1, EmptySeq
      <4>2. target[u] <= n => target[u] <= n + 1
        BY <3>0
      <4> QED  BY <3>0, <4>1, <4>2, <1>1, <1>n DEF CallSound, PutSound
    <3>4. PathSound(u)'
      BY <3>0 DEF PathSound, CallSound, MayCreate
    <3> QED  BY <3>1, <3>2, <3>3, <3>4 DEF CallSound
  <2> QED  BY <2>1, <2>2
<1>9. ASSUME OneWriter'
      PROVE  OneWriter /\ pc[t] = "put" /\ \A u \in Requests : u # t => pc[u] \notin Locked
  <2>1. \A u \in Requests : pc'[u] = "new" => pc[u] = "new"
    BY <1>2
  <2>2. OneWriter
    BY <2>1, <1>9, OneWriterBackwards
  <2>3. pc[t] = "put"
    BY <2>2, <1>0 DEF OneWriter, CallSound, AnswerSound
  <2>4. ASSUME NEW u \in Requests, pc[u] \in Locked PROVE u = t
    <3>1. home[t] = home[u] /\ pc[t] \in Locked
      BY <2>2, <2>3, <2>4 DEF OneWriter, Locked
    <3> QED  BY <3>1, <2>4, OneLocked DEF IInv
  <2> QED  BY <2>2, <2>3, <2>4
<1>10. Uncontended'
  <2> SUFFICES ASSUME OneWriter', NEW u \in Requests PROVE UpToDate(u)'
    BY DEF Uncontended
  <2>1. pc'[u] \notin {"reload", "attempt", "put"}
    BY <1>2, <1>9 DEF Locked
  <2> QED  BY <2>1 DEF UpToDate
<1>11. ExpectedExact'
  <2> SUFFICES ASSUME OneWriter', NEW i \in 1 .. n + 1, call[log'[i]].expected # None
               PROVE  call[log'[i]].expected = i - 2
    BY <1>1 DEF ExpectedExact
  <2>1. CASE i \in 1 .. n
    BY <2>1, <1>1, <1>9, <1>n DEF IInv, ExpectedExact
  <2>2. CASE i = n + 1
    <3>1. call[t].expected = n - 1
      BY <2>2, <1>1, <1>9, <1>n DEF IInv, Uncontended, UpToDate, Current
    <3>2. n - 1 = i - 2
      BY <2>2
    <3> QED  BY <2>2, <3>1, <3>2, <1>1
  <2> QED  BY <2>1, <2>2, <1>3
<1> QED  BY <1>5, <1>6, <1>7, <1>8, <1>10, <1>11 DEF IInv

(* The conditional put of a waiting call.                                  *)
LEMMA PutLandsIInv ==
    ASSUME IInv, NEW t \in Requests, PutLands(t)
    PROVE  IInv'
<1>0. TypeOK /\ LineSound /\ pc[t] = "put" /\ ~orphan[t]
  BY AtWork DEF IInv, PutLands
<1>1. /\ target[t] = Len(log) /\ log' = Append(log, t) /\ pc' = [pc EXCEPT ![t] = "landed"]
      /\ UNCHANGED <<line, holding, home, call, target, creating, attempts, answer, orphan>>
  BY DEF PutLands, Goto
<1>2. pc'[t] = "landed" /\ \A u \in Requests : u # t => pc'[u] = pc[u]
  BY <1>0, <1>1 DEF TypeOK
<1>3. TypeOK'
  <2>1. log' \in Seq(Requests)
    BY <1>0, <1>1, LogAppended
  <2> QED  BY <1>0, <1>1, <2>1 DEF TypeOK, InCall, Locked
<1>4. LineSound'
  <2>1. \A u \in Requests : (pc'[u] \in InCall <=> pc[u] \in InCall) /\ (pc'[u] \in Locked <=> pc[u] \in Locked)
    BY <1>0, <1>2 DEF InCall, Locked
  <2> QED  BY <2>1, <1>0, <1>1, LineKept DEF TypeOK
<1> QED  BY <1>0, <1>1, <1>2, <1>3, <1>4, LandIInv

(* The put of a call that is gone.                                         *)
LEMMA OrphanLandsIInv ==
    ASSUME IInv, NEW t \in Requests, OrphanLands(t)
    PROVE  IInv'
<1>0. TypeOK /\ LineSound /\ orphan[t] /\ pc[t] = "done"
  BY DEF IInv, OrphanLands, CallSound, AnswerSound
<1>1. /\ target[t] = Len(log) /\ log' = Append(log, t) /\ orphan' = [orphan EXCEPT ![t] = FALSE]
      /\ UNCHANGED <<line, holding, home, call, pc, target, creating, attempts, answer>>
  BY DEF OrphanLands
<1>2. ~orphan'[t] /\ \A u \in Requests : u # t => orphan'[u] = orphan[u]
  BY <1>0, <1>1 DEF TypeOK
<1>3. TypeOK'
  <2>1. log' \in Seq(Requests)
    BY <1>0, <1>1, LogAppended
  <2> QED  BY <1>0, <1>1, <2>1 DEF TypeOK
<1>4. LineSound'
  BY <1>0, <1>1, LineKept DEF TypeOK
<1> QED  BY <1>0, <1>1, <1>2, <1>3, <1>4, LandIInv

(* The put of a call that is gone comes to nothing.                        *)
LEMMA OrphanLostIInv ==
    ASSUME IInv, NEW t \in Requests, OrphanLost(t)
    PROVE  IInv'
<1>0. TypeOK /\ LineSound /\ CallSound(t) /\ orphan[t] /\ pc[t] = "done"
  BY DEF IInv, OrphanLost, CallSound, AnswerSound
<1>1. /\ orphan' = [orphan EXCEPT ![t] = FALSE]
      /\ UNCHANGED <<log, line, holding, home, call, pc, target, creating, attempts, answer>>
  BY DEF OrphanLost
<1>2. ~orphan'[t] /\ \A u \in Requests \ {t} : Untouched(u)
  BY <1>0, <1>1 DEF TypeOK, Untouched
<1>3. TypeOK'
  BY <1>0, <1>1 DEF TypeOK
<1>4. LineSound'
  BY <1>0, <1>1, LineKept DEF TypeOK
<1>5. CallSound(t)'
  BY <1>0, <1>1, <1>2 DEF CallSound, PlaceSound, AnswerSound, PutSound, PathSound, MayCreate
<1>6. UpToDate(t)'
  BY <1>0, <1>1 DEF UpToDate
<1> QED  BY <1>0, <1>1, <1>2, <1>3, <1>4, <1>5, <1>6, OwnStep

(* A crash: the replica's calls are gone, its line is empty, and the puts  *)
(* they had sent are left behind.                                          *)
LEMMA CrashIInv ==
    ASSUME IInv, NEW r \in Replicas, Crash(r)
    PROVE  IInv'
<1> DEFINE killed == {t \in Requests : home[t] = r /\ pc[t] \in InCall}
<1>0. TypeOK /\ LineSound
  BY DEF IInv
<1>1. /\ pc' = [t \in Requests |-> IF t \in killed THEN "done" ELSE pc[t]]
      /\ answer' = [t \in Requests |-> IF t \in killed THEN [code |-> "LOST", version |-> 0] ELSE answer[t]]
      /\ orphan' = [t \in Requests |-> orphan[t] \/ (t \in killed /\ pc[t] = "put")]
      /\ holding' = holding \ killed
      /\ line' = [line EXCEPT ![r] = <<>>]
      /\ UNCHANGED <<log, home, call, target, creating, attempts>>
  BY DEF Crash
<1>2. ASSUME NEW t \in Requests, t \in killed
      PROVE  /\ home[t] = r /\ pc[t] \in InCall /\ pc'[t] = "done"
             /\ answer'[t] = [code |-> "LOST", version |-> 0]
             /\ orphan'[t] => pc[t] = "put"
  <2>1. ~orphan[t]
    BY <1>2, AtWork DEF InCall, Locked
  <2> QED  BY <2>1, <1>1, <1>2
<1>3. ASSUME NEW t \in Requests, t \notin killed
      PROVE  Untouched(t) /\ (pc[t] \in InCall => home[t] # r)
  <2>1. pc[t] \in InCall => home[t] # r
    BY <1>3
  <2>2. orphan'[t] = orphan[t]
    BY <1>0, <1>1, <1>3 DEF TypeOK
  <2> QED  BY <2>1, <2>2, <1>1, <1>3 DEF Untouched
<1> HIDE DEF killed
<1>4. TypeOK'
  <2>1. pc' \in [Requests -> InCall \cup {"new", "done"}]
    BY <1>0, <1>1 DEF TypeOK
  <2>2. answer' \in [Requests -> [code : Codes, version : Nat]]
    BY <1>0, <1>1 DEF TypeOK, Codes
  <2>3. orphan' \in [Requests -> BOOLEAN]
    BY <1>1
  <2>4. line' \in [Replicas -> Seq(Requests)]
    BY <1>0, <1>1, EmptySeq DEF TypeOK
  <2> QED  BY <2>1, <2>2, <2>3, <2>4, <1>0, <1>1 DEF TypeOK
<1>5. AtMostOnce' /\ StartsWithCreate' /\ ExpectedHonoured'
  BY <1>1 DEF IInv, AtMostOnce, StartsWithCreate, ExpectedHonoured
<1>6. ASSUME NEW t \in Requests PROVE CallSound(t)'
  <2>0. CallSound(t) /\ (Landed(t)' <=> Landed(t))
    BY <1>1 DEF IInv, Landed
  <2>1. CASE t \in killed
    <3>1. PlaceSound(t)'
      <4>1. Landed(t) => pc[t] # "put"
        BY <2>0 DEF CallSound, PlaceSound
      <4> QED  BY <2>0, <2>1, <1>2, <4>1 DEF PlaceSound
    <3>2. AnswerSound(t)'
      BY <2>1, <1>2 DEF AnswerSound
    <3>3. PutSound(t)'
      BY <2>0, <2>1, <1>1, <1>2 DEF CallSound, PutSound
    <3>4. PathSound(t)'
      BY <2>0, <2>1, <1>1, <1>2 DEF CallSound, PathSound, MayCreate
    <3> QED  BY <3>1, <3>2, <3>3, <3>4 DEF CallSound
  <2>2. CASE t \notin killed
    <3>0. Untouched(t)
      BY <2>2, <1>3
    <3>1. PlaceSound(t)'
      BY <2>0, <3>0, <1>1 DEF CallSound, PlaceSound, Untouched
    <3>2. AnswerSound(t)'
      BY <2>0, <3>0 DEF CallSound, AnswerSound, Untouched
    <3>3. PutSound(t)'
      BY <2>0, <3>0, <1>1 DEF CallSound, PutSound, Untouched
    <3>4. PathSound(t)'
      BY <2>0, <3>0, <1>1 DEF CallSound, PathSound, MayCreate, Untouched
    <3> QED  BY <3>1, <3>2, <3>3, <3>4 DEF CallSound
  <2> QED  BY <2>1, <2>2
<1>7. \A t \in Requests : pc'[t] \in InCall => t \notin killed /\ pc'[t] = pc[t] /\ home[t] # r
  BY <1>2, <1>3 DEF Untouched, InCall, Locked
<1>8. LineSound'
  <2>0. line'[r] = <<>> /\ Len(line'[r]) = 0 /\ \A x \in Replicas : x # r => line'[x] = line[x]
    BY <1>0, <1>1, EmptySeq DEF TypeOK
  <2>1. ASSUME NEW x \in Replicas
        PROVE  /\ \A i, j \in 1 .. Len(line'[x]) : line'[x][i] = line'[x][j] => i = j
               /\ \A i \in 1 .. Len(line'[x]) : home[line'[x][i]] = x /\ pc'[line'[x][i]] \in InCall
    <3>1. CASE x = r
      BY <3>1, <2>0
    <3>2. CASE x # r
      <4>1. line'[x] = line[x] /\ line[x] \in Seq(Requests)
        BY <3>2, <2>0, <1>0 DEF TypeOK
      <4>2. \A i \in 1 .. Len(line[x]) : line[x][i] \in Requests /\ home[line[x][i]] = x /\ pc[line[x][i]] \in InCall
        BY <4>1, <1>0, ElementOfSeq DEF LineSound
      <4>3. \A i \in 1 .. Len(line[x]) : pc'[line[x][i]] = pc[line[x][i]]
        BY <4>2, <3>2, <1>2, <1>3 DEF Untouched
      <4> QED  BY <4>1, <4>2, <4>3, <1>0 DEF LineSound
    <3> QED  BY <3>1, <3>2
  <2>2. \A u \in Requests : pc'[u] \in InCall => line'[home[u]] = line[home[u]] /\ pc'[u] = pc[u]
    BY <1>7, <2>0, <1>0 DEF TypeOK
  <2>3. \A u \in Requests : pc'[u] \in InCall => \E i \in 1 .. Len(line'[home[u]]) : line'[home[u]][i] = u
    BY <2>2, <1>0 DEF LineSound
  <2>4. \A u \in Requests : pc'[u] \in Locked => line'[home[u]][1] = u
    BY <2>2, <1>0 DEF LineSound, InCall
  <2>5. \A u \in Requests : u \in holding' <=> pc'[u] \in Locked
    <3> SUFFICES ASSUME NEW u \in Requests PROVE u \in holding' <=> pc'[u] \in Locked
      OBVIOUS
    <3>1. u \in holding' <=> pc[u] \in Locked /\ u \notin killed
      BY <1>0, <1>1 DEF LineSound
    <3>2. CASE u \in killed
      BY <3>1, <3>2, <1>2 DEF Locked
    <3>3. CASE u \notin killed
      BY <3>1, <3>3, <1>3 DEF Untouched
    <3> QED  BY <3>2, <3>3
  <2>6. holding' = {u \in Requests : pc'[u] \in Locked}
    <3>1. holding' \subseteq Requests
      BY <1>4 DEF TypeOK
    <3> QED  BY <3>1, <2>5
  <2> QED  BY <2>1, <2>3, <2>4, <2>6, <1>1 DEF LineSound
<1>9. ~OneWriter'
  <2>1. PICK t \in Requests : t \in killed
    BY DEF Crash, killed
  <2> QED  BY <2>1, <1>2 DEF OneWriter
<1>10. Uncontended' /\ ExpectedExact'
  BY <1>9 DEF Uncontended, ExpectedExact
<1> QED  BY <1>4, <1>5, <1>6, <1>8, <1>10 DEF IInv

(* Every step preserves the invariant.                                     *)
LEMMA NextIInv == IInv /\ [Next]_vars => IInv'
<1> SUFFICES ASSUME IInv, [Next]_vars PROVE IInv'
  OBVIOUS
<1>1. ASSUME NEW t \in Requests, RejectInvalid(t) \/ Begin(t) PROVE IInv'
  BY <1>1, RejectInvalidIInv, BeginIInv
<1>2. ASSUME NEW t \in Requests, Progress(t) PROVE IInv'
  BY <1>2, EnterSectionIInv, TableExistsIInv, OpenTableIInv, StartAttemptIInv, ConflictFoundIInv,
     PutLandsIInv, PutExistsIInv, ReloadIInv, RespondIInv DEF Progress
<1>3. ASSUME NEW t \in Requests, StorageFails(t) \/ Cancel(t) \/ OrphanLands(t) \/ OrphanLost(t) PROVE IInv'
  BY <1>3, StorageFailsIInv, CancelIInv, OrphanLandsIInv, OrphanLostIInv
<1>4. ASSUME NEW r \in Replicas, Crash(r) PROVE IInv'
  BY <1>4, CrashIInv
<1>5. CASE UNCHANGED vars
  <2> USE <1>5 DEF vars
  <2>1. TypeOK' /\ AtMostOnce' /\ StartsWithCreate' /\ ExpectedHonoured'
    BY DEF IInv, TypeOK, AtMostOnce, StartsWithCreate, ExpectedHonoured
  <2>2. \A t \in Requests : CallSound(t)'
    BY DEF IInv, CallSound, PlaceSound, AnswerSound, PutSound, PathSound, Landed, MayCreate
  <2>3. LineSound'
    BY DEF IInv, LineSound
  <2>4. OneWriter' <=> OneWriter
    BY DEF OneWriter
  <2>5. Uncontended' /\ ExpectedExact'
    BY <2>4 DEF IInv, Uncontended, UpToDate, Current, ExpectedExact
  <2> QED  BY <2>1, <2>2, <2>3, <2>5 DEF IInv
<1> QED  BY <1>1, <1>2, <1>3, <1>4, <1>5 DEF Next

(***************************************************************************)
(* What the invariant gives.                                               *)
(***************************************************************************)
(* The inductive invariant holds in every state of the Commit RPC: where   *)
(* each request's commit is, which put may still arrive, who is in the     *)
(* lock's line, and the types (server.rs:341-512, commit.rs:138-199).      *)
THEOREM InvariantCorrect == Spec => []IInv
  BY InitIInv, NextIInv, PTL DEF Spec

(* No request enters the table twice, whatever was retried, dropped or     *)
(* crashed, and however late a put arrives.                                *)
THEOREM AtMostOnceCorrect == Spec => []AtMostOnce
<1>1. IInv => AtMostOnce
  BY DEF IInv
<1> QED  BY <1>1, InvariantCorrect, PTL

(* Whoever wins the race to create the table had the right to create it.   *)
THEOREM StartsWithCreateCorrect == Spec => []StartsWithCreate
<1>1. IInv => StartsWithCreate
  BY DEF IInv
<1> QED  BY <1>1, InvariantCorrect, PTL

(* A request never lands at or below the version it expects.               *)
THEOREM ExpectedHonouredCorrect == Spec => []ExpectedHonoured
<1>1. IInv => ExpectedHonoured
  BY DEF IInv
<1> QED  BY <1>1, InvariantCorrect, PTL

(* With one undisturbed replica no put loses a race: the lock serialises   *)
(* the writers, whoever waits for it and in whatever order they came.      *)
THEOREM NoLostRaceCorrect == Spec => []NoLostRace
<1>1. IInv => NoLostRace
  BY DEF IInv, NoLostRace, Uncontended, UpToDate
<1> QED  BY <1>1, InvariantCorrect, PTL

(* With one undisturbed replica expected_version is a compare-and-swap.    *)
THEOREM ExpectedExactCorrect == Spec => []ExpectedExact
<1>1. IInv => ExpectedExact
  BY DEF IInv
<1> QED  BY <1>1, InvariantCorrect, PTL

(***************************************************************************)
(* The Commit RPC implements CommitLog.                                    *)
(***************************************************************************)
Outcomes == [t \in Requests |-> Outcome(t)]
Versions == [t \in Requests |-> answer[t].version]

(* An unanswered call's client knows nothing yet.                          *)
LEMMA PendingOutcome ==
    ASSUME IInv, NEW t \in Requests, pc[t] # "done"
    PROVE  Outcome(t) = "pending" /\ answer[t].version = 0
<1>1. answer[t] = Pending
  BY AtWork
<1> QED  BY <1>1 DEF Outcome, Pending

(* What no answer depends on changes no outcome.                           *)
LEMMA OutcomesKept ==
    ASSUME answer' = answer,
           \A u \in Requests : creating'[u] = creating[u] \/ answer[u] = Pending
    PROVE  Outcomes' = Outcomes /\ Versions' = Versions
<1>1. \A u \in Requests : Outcome(u)' = Outcome(u)
  BY DEF Outcome, Pending
<1> QED  BY <1>1 DEF Outcomes, Versions

(* A commit that lands is CommitLog's Land.                                *)
LEMMA LandMaps ==
    ASSUME IInv, NEW t \in Requests, pc[t] = "put" \/ orphan[t],
           log' = Append(log, t), UNCHANGED <<answer, creating>>
    PROVE  CL!CLNext
<1>1. Outcomes' = Outcomes /\ Versions' = Versions
  BY OutcomesKept
<1>2. ~CL!Landed(t)
  BY DEF IInv, CallSound, PlaceSound, AnswerSound, Landed, CL!Landed
<1>3. Outcome(t) \in {"pending", "unknown"}
  <2>1. CASE pc[t] = "put"
    BY <2>1, PendingOutcome
  <2>2. CASE orphan[t]
    BY <2>2 DEF IInv, CallSound, AnswerSound, Outcome
  <2> QED  BY <2>1, <2>2
<1>4. CL!Land(t)
  BY <1>1, <1>2, <1>3 DEF CL!Land, Outcomes, Versions
<1> QED  BY <1>4 DEF CL!CLNext

(* An answer that is not OK says rejected or nothing: a rejected request   *)
(* is not in the log.                                                      *)
LEMMA FailureMaps ==
    ASSUME IInv, NEW t \in Requests, pc[t] # "done", NEW code \in Codes \ {"NONE", "OK"},
           answer' = [answer EXCEPT ![t] = [code |-> code, version |-> 0]],
           UNCHANGED <<log, creating>>,
           \/ code \in {"INTERNAL", "LOST"}
           \/ code = "ABORTED" /\ creating[t]
           \/ pc[t] # "landed"
    PROVE  CL!CLNext
<1>0. TypeOK /\ Outcome(t) = "pending" /\ answer[t].version = 0
  BY PendingOutcome DEF IInv
<1>1. \A u \in Requests : u # t => answer'[u] = answer[u] /\ Outcome(u)' = Outcome(u)
  BY <1>0 DEF TypeOK, Outcome
<1>2. answer'[t] = [code |-> code, version |-> 0]
  BY <1>0 DEF TypeOK
<1>3. Versions' = Versions
  BY <1>0, <1>1, <1>2 DEF Versions
<1>4. CASE code \in {"INTERNAL", "LOST"} \/ (code = "ABORTED" /\ creating[t])
  <2>1. Outcome(t)' = "unknown"
    BY <1>2, <1>4 DEF Outcome
  <2>2. Outcomes' = [u \in Requests |-> IF u \in {t} THEN "unknown" ELSE Outcomes[u]]
    BY <1>1, <2>1 DEF Outcomes
  <2>3. CL!Forget({t})
    BY <1>0, <1>3, <2>2 DEF CL!Forget, Outcomes, Versions
  <2> QED  BY <2>3 DEF CL!CLNext
<1>5. CASE ~(code \in {"INTERNAL", "LOST"} \/ (code = "ABORTED" /\ creating[t]))
  <2>1. Outcome(t)' = "rejected"
    BY <1>2, <1>5 DEF Outcome
  <2>2. Outcomes' = [Outcomes EXCEPT ![t] = "rejected"]
    BY <1>1, <2>1 DEF Outcomes
  <2>3. ~CL!Landed(t)
    BY <1>5, AtWork DEF Landed, CL!Landed
  <2>4. CL!Reject(t)
    BY <1>0, <1>3, <2>2, <2>3 DEF CL!Reject, Outcomes, Versions
  <2> QED  BY <2>4 DEF CL!CLNext
<1> QED  BY <1>4, <1>5

(* An OK names the version the request has in the log.                     *)
LEMMA SuccessMaps ==
    ASSUME IInv, NEW t \in Requests, pc[t] = "landed",
           answer' = [answer EXCEPT ![t] = [code |-> "OK", version |-> target[t]]],
           UNCHANGED <<log, creating>>
    PROVE  CL!CLNext
<1>0. TypeOK /\ Outcome(t) = "pending" /\ target[t] \in Nat /\ Len(log) \in Nat
  BY PendingOutcome, CallTypes DEF IInv, TypeOK
<1>1. \A u \in Requests : u # t => answer'[u] = answer[u] /\ Outcome(u)' = Outcome(u)
  BY <1>0 DEF TypeOK, Outcome
<1>2. answer'[t].version = target[t] /\ Outcome(t)' = "committed"
  BY <1>0 DEF TypeOK, Outcome
<1>3. Versions' = [Versions EXCEPT ![t] = target[t]]
  <2>1. \A u \in Requests : answer'[u].version = IF u = t THEN target[t] ELSE answer[u].version
    BY <1>1, <1>2
  <2> QED  BY <2>1 DEF Versions
<1>4. Outcomes' = [Outcomes EXCEPT ![t] = "committed"]
  BY <1>1, <1>2 DEF Outcomes
<1>5. target[t] + 1 \in 1 .. Len(log) /\ log[target[t] + 1] = t /\ (target[t] + 1) - 1 = target[t]
  BY <1>0 DEF IInv, CallSound, PlaceSound
<1>6. \E i \in 1 .. Len(log) : log[i] = t /\ Versions' = [Versions EXCEPT ![t] = i - 1]
  BY <1>3, <1>5
<1>7. CL!Acknowledge(t)
  BY <1>0, <1>4, <1>6 DEF CL!Acknowledge, Outcomes, Versions
<1> QED  BY <1>7 DEF CL!CLNext

(* A crash takes the verdict from all calls of the replica.                *)
LEMMA CrashMaps ==
    ASSUME IInv, NEW r \in Replicas, Crash(r)
    PROVE  CL!CLNext
<1> DEFINE killed == {t \in Requests : home[t] = r /\ pc[t] \in InCall}
<1>1. /\ answer' = [t \in Requests |-> IF t \in killed THEN [code |-> "LOST", version |-> 0] ELSE answer[t]]
      /\ UNCHANGED <<log, creating>>
  BY DEF Crash
<1>2. \A t \in killed : Outcome(t) = "pending" /\ answer[t].version = 0
  BY PendingOutcome DEF InCall, Locked
<1>3. killed \subseteq Requests
  OBVIOUS
<1> HIDE DEF killed
<1>4. \A t \in Requests : t \in killed => answer'[t] = [code |-> "LOST", version |-> 0] /\ Outcome(t)' = "unknown"
  BY <1>1 DEF Outcome
<1>5. \A t \in Requests : t \notin killed => answer'[t] = answer[t] /\ Outcome(t)' = Outcome(t)
  BY <1>1 DEF Outcome
<1>6. Versions' = Versions
  <2>1. \A t \in Requests : answer'[t].version = answer[t].version
    BY <1>2, <1>4, <1>5
  <2> QED  BY <2>1 DEF Versions
<1>7. Outcomes' = [t \in Requests |-> IF t \in killed THEN "unknown" ELSE Outcomes[t]]
  BY <1>4, <1>5 DEF Outcomes
<1>8. CL!Forget(killed)
  <2>1. \A t \in killed : Outcomes[t] = "pending"
    BY <1>2, <1>3 DEF Outcomes
  <2> QED  BY <2>1, <1>1, <1>6, <1>7 DEF CL!Forget, Outcomes, Versions
<1> QED  BY <1>3, <1>8 DEF CL!CLNext

(* What leaves the log and the answers alone is a stutter.                 *)
LEMMA Stutters ==
    ASSUME UNCHANGED <<log, answer>>,
           \A u \in Requests : creating'[u] = creating[u] \/ answer[u] = Pending
    PROVE  UNCHANGED CL!clVars
  BY OutcomesKept DEF CL!clVars, Outcomes, Versions

(* The steps of a call.                                                    *)
LEMMA CallMaps ==
    ASSUME IInv, NEW t \in Requests,
           RejectInvalid(t) \/ Begin(t) \/ Progress(t) \/ StorageFails(t) \/ Cancel(t)
    PROVE  CL!CLNext \/ UNCHANGED CL!clVars
<1> USE DEF Finish
<1>1. CASE RejectInvalid(t)
  <2>1. Verdict(call[t]) \in Codes \ {"NONE", "OK"}
    BY <1>1 DEF RejectInvalid, Verdict, Codes
  <2> QED  BY <1>1, <2>1, FailureMaps DEF RejectInvalid
<1>2. CASE Begin(t) \/ EnterSection(t) \/ StartAttempt(t) \/ Reload(t)
  BY <1>2, Stutters DEF Begin, EnterSection, StartAttempt, Reload
<1>3. CASE table_exists(t)
  <2>0. TypeOK /\ pc[t] = "exists" /\ answer[t] = Pending /\ log' = log
    BY <1>3, AtWork DEF IInv, table_exists
  <2>1. CASE UNCHANGED answer
    <3>1. \A u \in Requests : u # t => creating'[u] = creating[u]
      BY <1>3, <2>0 DEF table_exists, TypeOK
    <3> QED  BY <2>0, <2>1, <3>1, Stutters
  <2>2. CASE Finish(t, "FAILED_PRECONDITION", 0) /\ UNCHANGED creating
    BY <2>0, <2>2, FailureMaps DEF Codes
  <2> QED  BY <1>3, <2>1, <2>2 DEF table_exists
<1>4. CASE open_table(t)
  <2>1. CASE UNCHANGED answer
    BY <1>4, <2>1, Stutters DEF open_table
  <2>2. CASE Finish(t, StatusOf("VersionConflict"), 0)
    BY <1>4, <2>2, FailureMaps DEF open_table, StatusOf, Codes
  <2> QED  BY <1>4, <2>1, <2>2 DEF open_table
<1>5. CASE ConflictFound(t)
  <2>1. /\ pc[t] = "attempt" /\ UNCHANGED <<log, creating>>
        /\ answer' = [answer EXCEPT ![t] = [code |-> "INTERNAL", version |-> 0]]
    BY <1>5 DEF ConflictFound, StatusOf
  <2> QED  BY <2>1, FailureMaps DEF Codes
<1>6. CASE PutLands(t)
  BY <1>6, LandMaps DEF PutLands
<1>7. CASE PutExists(t)
  <2>1. CASE UNCHANGED answer
    BY <1>7, <2>1, Stutters DEF PutExists
  <2>2. CASE Finish(t, StatusOf("CommitFailed"), 0)
    BY <1>7, <2>2, FailureMaps DEF PutExists, StatusOf, Codes
  <2> QED  BY <1>7, <2>1, <2>2 DEF PutExists
<1>8. CASE Respond(t)
  <2>1. CASE creating[t] /\ target[t] # 0
    BY <1>8, <2>1, FailureMaps DEF Respond, StatusOf, Codes
  <2>2. CASE ~(creating[t] /\ target[t] # 0)
    BY <1>8, <2>2, SuccessMaps DEF Respond
  <2> QED  BY <2>1, <2>2
<1>9. CASE StorageFails(t)
  BY <1>9, FailureMaps DEF StorageFails, StatusOf, Codes, Locked
<1>10. CASE Cancel(t)
  BY <1>10, FailureMaps DEF Cancel, Codes, InCall, Locked
<1> QED  BY <1>1, <1>2, <1>3, <1>4, <1>5, <1>6, <1>7, <1>8, <1>9, <1>10 DEF Progress

(* The Commit RPC of all replicas together implements CommitLog: OK is     *)
(* durable and names the right version, what was rejected never lands, and *)
(* the log is never rewritten.                                             *)
THEOREM CommitRpcImplementsCommitLog == Spec => ImplementsCommitLog
<1>1. Init => CL!CLInit
  BY DEF Init, CL!CLInit, Outcome, Pending
<1>2. IInv /\ [Next]_vars => [CL!CLNext]_(CL!clVars)
  <2> SUFFICES ASSUME IInv, [Next]_vars PROVE CL!CLNext \/ UNCHANGED CL!clVars
    OBVIOUS
  <2>1. ASSUME NEW t \in Requests,
               RejectInvalid(t) \/ Begin(t) \/ Progress(t) \/ StorageFails(t) \/ Cancel(t)
        PROVE  CL!CLNext \/ UNCHANGED CL!clVars
    BY <2>1, CallMaps
  <2>2. ASSUME NEW t \in Requests, OrphanLands(t) PROVE CL!CLNext
    BY <2>2, LandMaps DEF OrphanLands
  <2>3. ASSUME NEW t \in Requests, OrphanLost(t) PROVE UNCHANGED CL!clVars
    BY <2>3, Stutters DEF OrphanLost
  <2>4. ASSUME NEW r \in Replicas, Crash(r) PROVE CL!CLNext
    BY <2>4, CrashMaps
  <2>5. CASE UNCHANGED vars
    BY <2>5, Stutters DEF vars
  <2> QED  BY <2>1, <2>2, <2>3, <2>4, <2>5 DEF Next
<1> QED  BY <1>1, <1>2, InitIInv, NextIInv, PTL DEF Spec, ImplementsCommitLog, CL!CLSpec
=============================================================================
