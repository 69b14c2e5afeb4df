--------------------------- MODULE SequenceLemmas ---------------------------
(***************************************************************************)
(* Facts about sequences, and inductions over them, that the proofs share.  *)
(***************************************************************************)
EXTENDS SequencesExt, TLAPS, SequenceTheorems, WellFoundedInduction

(* What a task leaving line s from place i does to it: the rest keeps its  *)
(* order.                                                                  *)
LEMMA RemoveAtProperties ==
    ASSUME NEW S, NEW s \in Seq(S), NEW i \in 1 .. Len(s)
    PROVE  /\ RemoveAt(s, i) \in Seq(S)
           /\ Len(RemoveAt(s, i)) = Len(s) - 1
           /\ \A j \in 1 .. Len(s) - 1 :
                 RemoveAt(s, i)[j] = IF j < i THEN s[j] ELSE s[j + 1]
<1> DEFINE a == SubSeq(s, 1, i - 1)
           b == SubSeq(s, i + 1, Len(s))
<1>0. Len(s) \in Nat /\ i \in Nat /\ \A j \in 1 .. Len(s) : s[j] \in S
  BY ElementOfSeq, LenProperties
<1>1. /\ a \in Seq(S) /\ Len(a) = i - 1
      /\ \A j \in 1 .. i - 1 : a[j] = s[j]
  <2>1. \A j \in 1 .. i - 1 : s[j] \in S
    BY <1>0
  <2>2. /\ a \in Seq(S)
        /\ Len(a) = IF 1 <= i - 1 THEN i - 1 - 1 + 1 ELSE 0
        /\ \A j \in 1 .. i - 1 - 1 + 1 : a[j] = s[1 + j - 1]
    BY <1>0, <2>1, SubSeqProperties
  <2> HIDE DEF a
  <2> QED  BY <1>0, <2>2
<1>2. /\ b \in Seq(S) /\ Len(b) = Len(s) - i
      /\ \A j \in 1 .. Len(s) - i : b[j] = s[i + j]
  <2>1. \A j \in i + 1 .. Len(s) : s[j] \in S
    BY <1>0
  <2>2. /\ b \in Seq(S)
        /\ Len(b) = IF i + 1 <= Len(s) THEN Len(s) - (i + 1) + 1 ELSE 0
        /\ \A j \in 1 .. Len(s) - (i + 1) + 1 : b[j] = s[(i + 1) + j - 1]
    BY <1>0, <2>1, SubSeqProperties
  <2> HIDE DEF b
  <2> QED  BY <1>0, <2>2
<1> HIDE DEF a, b
<1>3. /\ a \o b \in Seq(S)
      /\ Len(a \o b) = Len(a) + Len(b)
      /\ \A j \in 1 .. Len(a) + Len(b) : (a \o b)[j] = IF j <= Len(a) THEN a[j] ELSE b[j - Len(a)]
  BY <1>1, <1>2, ConcatProperties
<1>4. RemoveAt(s, i) = a \o b
  BY DEF RemoveAt, a, b
<1>5. Len(a \o b) = Len(s) - 1
  BY <1>0, <1>1, <1>2, <1>3
<1>6. ASSUME NEW j \in 1 .. Len(s) - 1
      PROVE  (a \o b)[j] = IF j < i THEN s[j] ELSE s[j + 1]
  <2>0. (a \o b)[j] = IF j <= Len(a) THEN a[j] ELSE b[j - Len(a)]
    BY <1>0, <1>3, <1>5
  <2>1. CASE j < i
    BY <2>0, <2>1, <1>0, <1>1
  <2>2. CASE ~(j < i)
    <3>1. j - Len(a) \in 1 .. Len(s) - i /\ i + (j - Len(a)) = j + 1
      BY <2>2, <1>0, <1>1
    <3>2. b[j - Len(a)] = s[i + (j - Len(a))]
      BY <3>1, <1>2
    <3> QED  BY <2>0, <2>2, <3>1, <3>2, <1>0, <1>1
  <2> QED  BY <2>1, <2>2
<1> QED  BY <1>3, <1>4, <1>5, <1>6

(* Without its i-th element, an injective sequence keeps every other one,  *)
(* gains none and stays injective.                                         *)
LEMMA RemoveAtInjective ==
    ASSUME NEW S, NEW s \in Seq(S), NEW i \in 1 .. Len(s),
           \A j, l \in 1 .. Len(s) : s[j] = s[l] => j = l
    PROVE  /\ \A j \in 1 .. Len(RemoveAt(s, i)) : \E l \in 1 .. Len(s) : l # i /\ RemoveAt(s, i)[j] = s[l]
           /\ \A l \in 1 .. Len(s) : l # i => \E j \in 1 .. Len(RemoveAt(s, i)) : RemoveAt(s, i)[j] = s[l]
           /\ \A j, l \in 1 .. Len(RemoveAt(s, i)) : RemoveAt(s, i)[j] = RemoveAt(s, i)[l] => j = l
<1>r. PICK r : r = RemoveAt(s, i)
  OBVIOUS
<1>1. /\ Len(s) \in Nat /\ Len(r) = Len(s) - 1
      /\ \A j \in 1 .. Len(r) : r[j] = IF j < i THEN s[j] ELSE s[j + 1]
  BY <1>r, RemoveAtProperties, LenProperties
<1>n. PICK n \in Nat : n = Len(s)
  BY <1>1
<1>2. ASSUME NEW j \in 1 .. Len(r)
      PROVE  /\ j < i => j \in 1 .. n /\ r[j] = s[j]
             /\ ~(j < i) => j + 1 \in 1 .. n /\ j + 1 # i /\ r[j] = s[j + 1]
  BY <1>1, <1>n
<1>3. \A j \in 1 .. Len(r) : \E l \in 1 .. n : l # i /\ r[j] = s[l]
  <2> TAKE j \in 1 .. Len(r)
  <2>1. CASE j < i
    <3>1. j \in 1 .. n /\ j # i
      BY <1>2, <2>1, <1>n
    <3> QED  BY <1>2, <2>1, <3>1
  <2>2. CASE ~(j < i)
    BY <1>2, <2>2
  <2> QED  BY <2>1, <2>2
<1>4. \A l \in 1 .. n : l # i => \E j \in 1 .. Len(r) : r[j] = s[l]
  <2> SUFFICES ASSUME NEW l \in 1 .. n, l # i PROVE \E j \in 1 .. Len(r) : r[j] = s[l]
    OBVIOUS
  <2>1. CASE l < i
    <3>1. l \in 1 .. Len(r)
      BY <1>1, <1>n, <2>1
    <3> QED  BY <1>2, <2>1, <3>1
  <2>2. CASE l > i
    <3>1. l - 1 \in 1 .. Len(r) /\ ~(l - 1 < i) /\ (l - 1) + 1 = l
      BY <1>1, <1>n, <2>2
    <3> QED  BY <1>1, <3>1
  <2> QED  BY <1>n, <2>1, <2>2
<1>5. \A j, l \in 1 .. Len(r) : r[j] = r[l] => j = l
  <2> SUFFICES ASSUME NEW j \in 1 .. Len(r), NEW l \in 1 .. Len(r), r[j] = r[l] PROVE j = l
    OBVIOUS
  <2>1. CASE j < i /\ l < i
    BY <1>2, <1>n, <2>1
  <2>2. CASE j < i /\ ~(l < i)
    <3>1. j = l + 1
      BY <1>2, <1>n, <2>2
    <3> QED  BY <3>1, <2>2, <1>1, <1>n
  <2>3. CASE ~(j < i) /\ l < i
    <3>1. j + 1 = l
      BY <1>2, <1>n, <2>3
    <3> QED  BY <3>1, <2>3, <1>1, <1>n
  <2>4. CASE ~(j < i) /\ ~(l < i)
    <3>1. j + 1 = l + 1
      BY <1>2, <1>n, <2>4
    <3> QED  BY <3>1, <1>1, <1>n
  <2> QED  BY <2>1, <2>2, <2>3, <2>4
<1> QED  BY <1>r, <1>n, <1>3, <1>4, <1>5

(* Releasing the mutex is the case of the first place.                     *)
LEMMA TailIsRemoveAt ==
    ASSUME NEW S, NEW s \in Seq(S), s # <<>>
    PROVE  Tail(s) = RemoveAt(s, 1)
<1>1. Len(s) \in Nat \ {0} /\ 1 \in 1 .. Len(s)
  BY EmptySeq, LenProperties
<1>2. /\ Tail(s) \in Seq(S) /\ Len(Tail(s)) = Len(s) - 1
      /\ \A j \in 1 .. Len(s) - 1 : Tail(s)[j] = s[j + 1]
  BY HeadTailProperties
<1>3. /\ RemoveAt(s, 1) \in Seq(S) /\ Len(RemoveAt(s, 1)) = Len(s) - 1
      /\ \A j \in 1 .. Len(s) - 1 : RemoveAt(s, 1)[j] = s[j + 1]
  BY <1>1, RemoveAtProperties
<1> QED  BY <1>2, <1>3, SeqEqual

(* What holds at 0, and at k + 1 whenever it holds at k below n, holds at  *)
(* all numbers up to n.                                                    *)
LEMMA UpTo ==
    ASSUME NEW n \in Nat, NEW T, 0 \in T, \A k \in 0 .. n - 1 : k \in T => k + 1 \in T
    PROVE  \A k \in 0 .. n : k \in T
<1> DEFINE U == {k \in Nat : k <= n /\ k \notin T}
<1> SUFFICES ASSUME U # {} PROVE FALSE
  OBVIOUS
<1>1. PICK x \in U : \A y \in U : ~ (<<y, x>> \in OpToRel(<, Nat))
  BY WFMin, NatLessThanWellFounded
<1>2. \A y \in U : ~(y < x)
  BY <1>1 DEF OpToRel
<1>3. x \in Nat /\ x <= n /\ x \notin T /\ x # 0
  OBVIOUS
<1>4. x - 1 \in Nat /\ x - 1 \in 0 .. n - 1 /\ x - 1 < x /\ x - 1 + 1 = x
  BY <1>3
<1>5. x - 1 \notin U
  BY <1>2, <1>4
<1>6. x - 1 \in T
  BY <1>4, <1>5
<1> QED  BY <1>3, <1>4, <1>6

(* Induction over sequences, for a set of them.                            *)
LEMMA SeqInduction ==
    ASSUME NEW S, NEW T, <<>> \in T,
           \A s \in Seq(S), e \in S : s \in T => Append(s, e) \in T
    PROVE  \A s \in Seq(S) : s \in T
<1> SUFFICES ASSUME NEW z \in Seq(S) PROVE z \in T
  OBVIOUS
<1> DEFINE L == {k \in Nat : \A s \in Seq(S) : Len(s) = k => s \in T}
<1>n. PICK n \in Nat : n = Len(z)
  BY LenProperties
<1>1. 0 \in L
  BY EmptySeq
<1>2. ASSUME NEW k \in 0 .. n - 1, k \in L PROVE k + 1 \in L
  <2> SUFFICES ASSUME NEW s \in Seq(S), Len(s) = k + 1 PROVE s \in T
    OBVIOUS
  <2>1. s # <<>>
    BY EmptySeq
  <2>2. PICK q \in Seq(S) : \E e \in S : s = Append(q, e)
    BY <2>1, SequenceEmptyOrAppend
  <2>3. PICK e \in S : s = Append(q, e)
    BY <2>2
  <2>4. Len(q) \in Nat /\ Len(s) = Len(q) + 1
    BY <2>3, AppendProperties, LenProperties
  <2>5. q \in T
    BY <1>2, <2>4
  <2> QED  BY <2>3, <2>5
<1> HIDE DEF L
<1>3. n \in L
  <2>1. \A k \in 0 .. n : k \in L
    BY <1>1, <1>2, UpTo
  <2> QED  BY <2>1
<1> QED  BY <1>3, <1>n DEF L

(* A sequence starts with another if something follows the other.          *)
LEMMA PrefixConcat ==
    ASSUME NEW S, NEW s \in Seq(S), NEW t \in Seq(S)
    PROVE  IsPrefix(s, t) <=> \E r \in Seq(S) : t = s \o r
<1>n. PICK n \in Nat : n = Len(s) /\ \A i \in 1 .. n : s[i] \in S
  BY LenProperties, ElementOfSeq
<1>m. PICK m \in Nat : m = Len(t) /\ \A i \in 1 .. m : t[i] \in S
  BY LenProperties, ElementOfSeq
<1>1. ASSUME IsPrefix(s, t) PROVE \E r \in Seq(S) : t = s \o r
  <2>1. n <= m /\ SubSeq(s, 1, n) = SubSeq(t, 1, n)
    BY <1>1, <1>n, <1>m DEF IsPrefix
  <2>2. SubSeq(s, 1, n) = s /\ SubSeq(t, 1, m) = t
    BY <1>n, <1>m, SubSeqFull
  <2>3. SubSeq(t, 1, n) \o SubSeq(t, n + 1, m) = SubSeq(t, 1, m)
    <3>1. 1 \in 1 .. Len(t) + 1 /\ n \in 1 - 1 .. Len(t) /\ m \in n .. Len(t)
      BY <1>m, <2>1
    <3> QED  BY <3>1, ConcatAdjacentSubSeq
  <2>4. SubSeq(t, n + 1, m) \in Seq(S)
    <3>1. \A i \in n + 1 .. m : t[i] \in S
      BY <1>m
    <3> QED  BY <3>1, SubSeqProperties
  <2> QED  BY <2>1, <2>2, <2>3, <2>4
<1>2. ASSUME NEW r \in Seq(S), t = s \o r PROVE IsPrefix(s, t)
  <2>1. PICK k \in Nat : k = Len(r)
    BY LenProperties
  <2>2. m = n + k /\ \A i \in 1 .. n : t[i] = s[i]
    BY <1>2, <1>n, <1>m, <2>1, ConcatProperties
  <2>3. /\ SubSeq(t, 1, n) \in Seq(S) /\ Len(SubSeq(t, 1, n)) = n
        /\ \A i \in 1 .. n : SubSeq(t, 1, n)[i] = t[i]
    <3>1. \A i \in 1 .. n : t[i] \in S
      BY <1>m, <2>2
    <3>2. /\ SubSeq(t, 1, n) \in Seq(S)
          /\ Len(SubSeq(t, 1, n)) = IF 1 <= n THEN n - 1 + 1 ELSE 0
          /\ \A i \in 1 .. n - 1 + 1 : SubSeq(t, 1, n)[i] = t[1 + i - 1]
      BY <3>1, SubSeqProperties
    <3> QED  BY <3>2
  <2>4. SubSeq(t, 1, n) = s
    BY <1>n, <2>2, <2>3, SeqEqual
  <2>5. SubSeq(s, 1, n) = s
    BY <1>n, SubSeqFull
  <2> QED  BY <2>2, <2>4, <2>5, <1>n, <1>m DEF IsPrefix
<1> QED  BY <1>1, <1>2

(* Appending to a concatenation appends to its second part.                *)
LEMMA AppendConcat ==
    ASSUME NEW S, NEW s \in Seq(S), NEW t \in Seq(S), NEW e \in S
    PROVE  s \o Append(t, e) = Append(s \o t, e)
<1>1. Append(t, e) = t \o <<e>> /\ s \o t \in Seq(S) /\ <<e>> \in Seq(S)
  BY AppendIsConcat, ConcatProperties
<1>2. Append(s \o t, e) = (s \o t) \o <<e>>
  BY <1>1, AppendIsConcat
<1> QED  BY <1>1, <1>2, ConcatAssociative

(* A run of n steps in X: step[i] takes what is there after i - 1 steps to *)
(* what is there after i.                                                  *)
IsRun(g, n, X, first, step) ==
    /\ g \in [0 .. n -> X] /\ g[0] = first
    /\ \A i \in 1 .. n : g[i] = step[i][g[i - 1]]

(* A first value and one step for each number up to n give a run of n      *)
(* steps.                                                                  *)
LEMMA RunExists ==
    ASSUME NEW n \in Nat, NEW X, NEW first \in X, NEW step,
           \A i \in 1 .. n : \A x \in X : step[i][x] \in X
    PROVE  \E g : IsRun(g, n, X, first, step)
<1> DEFINE Run(g, k) == IsRun(g, k, X, first, step)
           T == {k \in Nat : \E g : Run(g, k)}
<1>1. 0 \in T
  <2>1. Run([i \in 0 .. 0 |-> first], 0)
    BY DEF IsRun
  <2> QED  BY <2>1
<1>2. ASSUME NEW k \in 0 .. n - 1, k \in T PROVE k + 1 \in T
  <2>1. PICK g : Run(g, k)
    BY <1>2
  <2>2. k \in Nat /\ k \in 0 .. k /\ k + 1 \in 1 .. n
    OBVIOUS
  <2> DEFINE h == [i \in 0 .. k + 1 |-> IF i = k + 1 THEN step[k + 1][g[k]] ELSE g[i]]
  <2>3. step[k + 1][g[k]] \in X
    BY <2>1, <2>2 DEF IsRun
  <2>4. h \in [0 .. k + 1 -> X]
    <3>1. \A i \in 0 .. k + 1 : i # k + 1 => i \in 0 .. k
      BY <2>2
    <3> QED  BY <2>1, <2>3, <3>1 DEF IsRun
  <2>5. h[0] = first
    BY <2>1, <2>2 DEF IsRun
  <2>6. ASSUME NEW i \in 1 .. k + 1 PROVE h[i] = step[i][h[i - 1]]
    <3>1. i - 1 \in 0 .. k /\ i - 1 # k + 1 /\ i \in 0 .. k + 1 /\ i - 1 \in 0 .. k + 1
      BY <2>2
    <3>2. h[i - 1] = g[i - 1]
      BY <3>1
    <3>3. CASE i = k + 1
      <4>1. i - 1 = k
        BY <2>2, <3>3
      <4> QED  BY <3>1, <3>2, <3>3, <4>1
    <3>4. CASE i # k + 1
      <4>1. i \in 1 .. k
        BY <2>2, <3>4
      <4>2. h[i] = g[i] /\ g[i] = step[i][g[i - 1]]
        BY <2>1, <3>1, <3>4, <4>1 DEF IsRun
      <4> QED  BY <3>2, <4>2
    <3> QED  BY <3>3, <3>4
  <2> HIDE DEF h
  <2>7. Run(h, k + 1)
    BY <2>4, <2>5, <2>6 DEF IsRun
  <2>8. k + 1 \in Nat
    BY <2>2
  <2> QED  BY <2>7, <2>8
<1>3. n \in T
  <2> HIDE DEF T
  <2>1. \A k \in 0 .. n : k \in T
    BY <1>1, <1>2, UpTo
  <2> QED  BY <2>1
<1> QED  BY <1>3

(* The places of a sequence with one more element.                         *)
LEMMA AppendPlaces ==
    ASSUME NEW S, NEW n \in Nat, NEW t \in Seq(S), Len(t) = n, NEW c \in S,
           NEW u, u = Append(t, c)
    PROVE  u \in Seq(S) /\ Len(u) = n + 1 /\ u[n + 1] = c /\ \A i \in 1 .. n : u[i] = t[i]
<1>1. Append(t, c) \in Seq(S) /\ Len(Append(t, c)) = Len(t) + 1
  BY AppendProperties
<1>2. \A i \in 1 .. Len(t) : Append(t, c)[i] = t[i]
  BY AppendProperties
<1>3. Append(t, c)[Len(t) + 1] = c
  BY AppendProperties
<1> QED  BY <1>1, <1>2, <1>3

(* The last element of a concatenation.                                    *)
LEMMA LastConcat ==
    ASSUME NEW S, NEW a \in Seq(S), NEW b \in Seq(S), b # <<>>
    PROVE  a \o b # <<>> /\ Last(a \o b) = Last(b)
<1>1. PICK k \in Nat : k = Len(a)
  BY LenProperties
<1>2. PICK m \in Nat : m = Len(b) /\ m # 0
  BY EmptySeq
<1>3. /\ Len(a \o b) = Len(a) + Len(b)
      /\ \A i \in 1 .. Len(a) + Len(b) : (a \o b)[i] = IF i <= Len(a) THEN a[i] ELSE b[i - Len(a)]
  BY ConcatProperties
<1>4. k + m \in 1 .. k + m /\ ~(k + m <= k) /\ k + m - k = m
  BY <1>2
<1>5. Len(a \o b) = k + m /\ (a \o b)[k + m] = b[m]
  BY <1>1, <1>2, <1>3, <1>4
<1> QED  BY <1>2, <1>5, EmptySeq DEF Last
=============================================================================
