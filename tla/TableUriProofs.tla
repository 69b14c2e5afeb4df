--------------------------- MODULE TableUriProofs ---------------------------
(***************************************************************************)
(* Proofs about the URI check and the table lock taken after it, for any   *)
(* requests, spellings of table URIs, allowlist and working directory:     *)
(* matching texts is the same as comparing paths segment by segment, so    *)
(* the allowlist is exact; and of the Commits to one location at most one  *)
(* is in its locked section.                                               *)
(***************************************************************************)
EXTENDS TableUri, SequenceLemmas, TLAPS, SequenceTheorems

----------------------------------------------------------------------------
(* Texts and paths.                                                        *)
Seen == [words : Seq(Names), word : Seq(Tokens)]
Nothing == [words |-> <<>>, word |-> <<>>]

(* A name has no slash in it, a text may have.                             *)
LEMMA TokensAreChars ==
    /\ Tokens \subseteq Chars /\ Names = Seq(Tokens) \ {<<>>}
    /\ "/" \in Chars /\ <<"/">> \in Seq(Chars)
<1>1. Tokens \subseteq Chars /\ Names = Seq(Tokens) \ {<<>>} /\ "/" \in Chars
  BY DEF Names, Chars
<1>2. \A x \in Chars : <<x>> \in Seq(Chars)
  OBVIOUS
<1> QED  BY <1>1, <1>2

(* The parts of what is seen.                                              *)
LEMMA SeenFacts ==
    /\ Nothing \in Seen /\ Nothing.words = <<>> /\ Nothing.word = <<>>
    /\ \A s \in Seen : s.words \in Seq(Names) /\ s.word \in Seq(Tokens)
    /\ \A a \in Seq(Names), b \in Seq(Tokens) :
          /\ [words |-> a, word |-> b] \in Seen
          /\ [words |-> a, word |-> b].words = a /\ [words |-> a, word |-> b].word = b
<1>1. <<>> \in Seq(Names) /\ <<>> \in Seq(Tokens)
  BY EmptySeq
<1> QED  BY <1>1 DEF Nothing, Seen

(* Complete words are names.                                               *)
LEMMA WordsType ==
    ASSUME NEW s \in Seen PROVE Words(s) \in Seq(Names)
<1>1. s.words \in Seq(Names) /\ s.word \in Seq(Tokens)
  BY SeenFacts
<1>2. s.word # <<>> => s.word \in Names
  BY <1>1, TokensAreChars
<1> QED  BY <1>1, <1>2, AppendProperties DEF Words

(* Reading a token leaves names seen.                                      *)
LEMMA ReadType ==
    ASSUME NEW s \in Seen, NEW c \in Chars PROVE Read(s, c) \in Seen
<1>1. s.words \in Seq(Names) /\ s.word \in Seq(Tokens) /\ Words(s) \in Seq(Names) /\ <<>> \in Seq(Tokens)
  BY SeenFacts, WordsType, EmptySeq
<1>2. c # "/" => c \in Tokens
  BY DEF Chars
<1>3. c # "/" => Append(s.word, c) \in Seq(Tokens)
  BY <1>1, <1>2, AppendProperties
<1> QED  BY <1>1, <1>3, SeenFacts DEF Read

(* A text read token by token: what is seen up to a token follows from     *)
(* what was seen up to the one before it.                                  *)
LEMMA ScanSteps ==
    ASSUME NEW t \in Seq(Chars)
    PROVE  /\ Scan(t)[0] = Nothing
           /\ \A i \in 1 .. Len(t) : Scan(t)[i] = Read(Scan(t)[i - 1], t[i])
<1>n. PICK n \in Nat : n = Len(t) /\ \A i \in 1 .. n : t[i] \in Chars
  BY LenProperties, ElementOfSeq
<1>1. PICK step : \A i \in 1 .. n : \A s \in Seen : step[i][s] = Read(s, t[i])
  <2> DEFINE f == [i \in 1 .. n |-> [s \in Seen |-> Read(s, t[i])]]
  <2>1. \A i \in 1 .. n : \A s \in Seen : f[i][s] = Read(s, t[i])
    OBVIOUS
  <2> HIDE DEF f
  <2> QED  BY <2>1
<1>2. PICK g : IsRun(g, n, Seen, Nothing, step)
  <2>1. \A i \in 1 .. n : \A s \in Seen : step[i][s] \in Seen
    BY <1>1, <1>n, ReadType
  <2>2. Nothing \in Seen
    BY SeenFacts
  <2> QED  BY <2>1, <2>2, RunExists, Zenon
<1>3. \A i \in 1 .. n : g[i] = Read(g[i - 1], t[i])
  <2>1. \A i \in 1 .. n : i - 1 \in 0 .. n
    OBVIOUS
  <2> QED  BY <1>1, <1>2, <2>1 DEF IsRun
<1>4. g = [i \in 0 .. n |-> IF i = 0 THEN Nothing ELSE Read(g[i - 1], t[i])]
  BY <1>2, <1>3 DEF IsRun
<1>5. Scan(t) = [i \in 0 .. n |-> IF i = 0 THEN Nothing ELSE Read(Scan(t)[i - 1], t[i])]
  BY <1>4, <1>n DEF Scan, Nothing
<1> QED  BY <1>5, <1>n

(* What is seen of a text when it has been read.                           *)
End(t) == Scan(t)[Len(t)]

(* Reading a text with one more token is one more step.                    *)
LEMMA EndSteps ==
    /\ End(<<>>) = Nothing
    /\ \A t \in Seq(Chars), c \in Chars : End(Append(t, c)) = Read(End(t), c)
<1>1. End(<<>>) = Nothing
  BY ScanSteps, EmptySeq DEF End
<1>2. ASSUME NEW t \in Seq(Chars), NEW c \in Chars
      PROVE  End(Append(t, c)) = Read(End(t), c)
  <2>n. PICK n \in Nat : n = Len(t)
    BY LenProperties
  <2>u. PICK u : u = Append(t, c)
    OBVIOUS
  <2> DEFINE T == {i \in Nat : Scan(u)[i] = Scan(t)[i]}
  <2>1. u \in Seq(Chars) /\ Len(u) = n + 1 /\ u[n + 1] = c /\ \A i \in 1 .. n : u[i] = t[i]
    BY <2>n, <2>u, AppendPlaces
  <2>2. /\ Scan(u)[0] = Nothing /\ Scan(t)[0] = Nothing
        /\ \A i \in 1 .. n + 1 : Scan(u)[i] = Read(Scan(u)[i - 1], u[i])
        /\ \A i \in 1 .. n : Scan(t)[i] = Read(Scan(t)[i - 1], t[i])
    BY <2>1, <2>n, ScanSteps
  <2>3. 0 \in T
    BY <2>2
  <2>4. ASSUME NEW k \in 0 .. n - 1, k \in T PROVE k + 1 \in T
    <3>1. k + 1 \in 1 .. n /\ k + 1 \in 1 .. n + 1 /\ k + 1 - 1 = k /\ k + 1 \in Nat
      OBVIOUS
    <3>2. Scan(u)[k + 1] = Read(Scan(u)[k], u[k + 1]) /\ Scan(t)[k + 1] = Read(Scan(t)[k], t[k + 1])
      BY <2>2, <3>1
    <3>3. Scan(u)[k] = Scan(t)[k] /\ u[k + 1] = t[k + 1]
      BY <2>1, <2>4, <3>1
    <3> QED  BY <3>1, <3>2, <3>3
  <2>5. Scan(u)[n] = Scan(t)[n]
    <3> HIDE DEF T
    <3>1. \A k \in 0 .. n : k \in T
      BY <2>3, <2>4, UpTo
    <3> QED  BY <3>1 DEF T
  <2>6. Scan(u)[n + 1] = Read(Scan(u)[n], c)
    <3>1. n + 1 \in 1 .. n + 1 /\ n + 1 - 1 = n
      OBVIOUS
    <3>2. Scan(u)[n + 1] = Read(Scan(u)[n + 1 - 1], u[n + 1])
      BY <2>2, <3>1
    <3> QED  BY <2>1, <3>1, <3>2
  <2> QED  BY <2>1, <2>5, <2>6, <2>n, <2>u DEF End
<1> QED  BY <1>1, <1>2

(* What is seen of a text: names, and the beginning of one.                *)
LEMMA EndType == \A t \in Seq(Chars) : End(t) \in Seen
<1> DEFINE T == {t \in Seq(Chars) : End(t) \in Seen}
<1>1. <<>> \in T
  BY EndSteps, SeenFacts, EmptySeq
<1>2. \A t \in Seq(Chars), c \in Chars : t \in T => Append(t, c) \in T
  BY EndSteps, ReadType, AppendProperties
<1> HIDE DEF T
<1>3. \A t \in Seq(Chars) : t \in T
  BY <1>1, <1>2, SeqInduction
<1> QED  BY <1>3 DEF T

(* The segments of a text are names.                                       *)
LEMMA SegmentsType ==
    ASSUME NEW t \in Seq(Chars)
    PROVE  Segments(t) = Words(End(t)) /\ Segments(t) \in Seq(Names)
  BY EndType, WordsType DEF Segments, End

(* A name is a text, and not the empty one.                                *)
LEMMA NamesAreTexts ==
    ASSUME NEW s \in Names
    PROVE  s \in Seq(Chars) /\ s \in Seq(Tokens) /\ s # <<>>
  BY TokensAreChars, SeqMonotonic

(* A segment leads from a path of names to another.                        *)
LEMMA EnterType ==
    ASSUME NEW dir \in Seq(Names), NEW s \in Names PROVE Enter(dir, s) \in Seq(Names)
<1>1. Append(dir, s) \in Seq(Names)
  BY AppendProperties
<1>2. Front(dir) \in Seq(Names)
  <2>1. Len(dir) \in Nat /\ \A i \in 1 .. Len(dir) : dir[i] \in Names
    BY LenProperties, ElementOfSeq
  <2>2. \A i \in 1 .. Len(dir) - 1 : dir[i] \in Names
    BY <2>1
  <2> QED  BY <2>1, <2>2, SubSeqProperties DEF Front
<1> QED  BY <1>1, <1>2 DEF Enter

(* A name added to a text gives a text.                                    *)
LEMMA GlueType ==
    ASSUME NEW t \in Seq(Chars), NEW s \in Names PROVE Glue(t, s) \in Seq(Chars)
<1>1. s \in Seq(Chars) /\ <<"/">> \in Seq(Chars)
  BY NamesAreTexts, TokensAreChars
<1>2. (t \o <<"/">>) \o s \in Seq(Chars)
  BY <1>1, ConcatProperties
<1> QED  BY <1>1, <1>2 DEF Glue

(* Segments followed one by one.                                           *)
LEMMA WalkSteps ==
    ASSUME NEW base \in Seq(Names), NEW l \in Seq(Names)
    PROVE  /\ Walk(base, l)[0] = base
           /\ \A i \in 1 .. Len(l) : Walk(base, l)[i] = Enter(Walk(base, l)[i - 1], l[i])
<1>n. PICK n \in Nat : n = Len(l) /\ \A i \in 1 .. n : l[i] \in Names
  BY LenProperties, ElementOfSeq
<1>1. PICK step : \A i \in 1 .. n : \A x \in Seq(Names) : step[i][x] = Enter(x, l[i])
  <2> DEFINE f == [i \in 1 .. n |-> [x \in Seq(Names) |-> Enter(x, l[i])]]
  <2>1. \A i \in 1 .. n : \A x \in Seq(Names) : f[i][x] = Enter(x, l[i])
    OBVIOUS
  <2> HIDE DEF f
  <2> QED  BY <2>1
<1>2. PICK g : IsRun(g, n, Seq(Names), base, step)
  <2>1. \A i \in 1 .. n : \A x \in Seq(Names) : step[i][x] \in Seq(Names)
    BY <1>1, <1>n, EnterType
  <2>2. base \in Seq(Names)
    BY EmptySeq
  <2> QED  BY <2>1, <2>2, RunExists
<1>3. \A i \in 1 .. n : g[i] = Enter(g[i - 1], l[i])
  <2>1. \A i \in 1 .. n : i - 1 \in 0 .. n
    OBVIOUS
  <2> QED  BY <1>1, <1>2, <2>1 DEF IsRun
<1>4. g = [i \in 0 .. n |-> IF i = 0 THEN base ELSE Enter(g[i - 1], l[i])]
  BY <1>2, <1>3 DEF IsRun
<1>5. Walk(base, l) = [i \in 0 .. n |-> IF i = 0 THEN base ELSE Enter(Walk(base, l)[i - 1], l[i])]
  BY <1>4, <1>n DEF Walk
<1>6. PICK p : p = Walk(base, l)
  OBVIOUS
<1>7. p = [i \in 0 .. n |-> IF i = 0 THEN base ELSE Enter(p[i - 1], l[i])]
  BY <1>5, <1>6
<1>8. p[0] = base /\ \A i \in 1 .. n : p[i] = Enter(p[i - 1], l[i])
  BY <1>7
<1> QED  BY <1>6, <1>8, <1>n

(* Following one more segment is one more step.                            *)
LEMMA ResolveSteps ==
    ASSUME NEW base \in Seq(Names)
    PROVE  /\ Resolve(base, <<>>) = base
           /\ \A l \in Seq(Names), s \in Names : Resolve(base, Append(l, s)) = Enter(Resolve(base, l), s)
<1>1. Resolve(base, <<>>) = base
  <2>1. <<>> \in Seq(Names) /\ Len(<<>>) = 0
    BY EmptySeq
  <2> QED  BY <2>1, WalkSteps DEF Resolve
<1>2. ASSUME NEW l \in Seq(Names), NEW s \in Names
      PROVE  Resolve(base, Append(l, s)) = Enter(Resolve(base, l), s)
  <2>n. PICK n \in Nat : n = Len(l)
    BY LenProperties
  <2>u. PICK u : u = Append(l, s)
    OBVIOUS
  <2>1. u \in Seq(Names) /\ Len(u) = n + 1 /\ u[n + 1] = s /\ \A i \in 1 .. n : u[i] = l[i]
    BY <2>n, <2>u, AppendPlaces
  <2>p. PICK p : p = Walk(base, u)
    OBVIOUS
  <2>q. PICK q : q = Walk(base, l)
    OBVIOUS
  <2>2. /\ p[0] = base /\ q[0] = base
        /\ \A i \in 1 .. n + 1 : p[i] = Enter(p[i - 1], u[i])
        /\ \A i \in 1 .. n : q[i] = Enter(q[i - 1], l[i])
    <3>1. p[0] = base /\ \A i \in 1 .. Len(u) : p[i] = Enter(p[i - 1], u[i])
      BY <2>1, <2>p, WalkSteps
    <3>2. q[0] = base /\ \A i \in 1 .. Len(l) : q[i] = Enter(q[i - 1], l[i])
      BY <2>q, WalkSteps
    <3> QED  BY <2>1, <2>n, <3>1, <3>2
  <2> DEFINE T == {i \in Nat : p[i] = q[i]}
  <2>3. 0 \in T
    BY <2>2
  <2>4. ASSUME NEW k \in 0 .. n - 1, k \in T PROVE k + 1 \in T
    <3>1. k + 1 \in 1 .. n /\ k + 1 \in 1 .. n + 1 /\ k + 1 - 1 = k /\ k + 1 \in Nat
      OBVIOUS
    <3>2. p[k + 1] = Enter(p[k], u[k + 1]) /\ q[k + 1] = Enter(q[k], l[k + 1])
      BY <2>2, <3>1
    <3>3. p[k] = q[k] /\ u[k + 1] = l[k + 1]
      BY <2>1, <2>4, <3>1
    <3> QED  BY <3>1, <3>2, <3>3
  <2>5. p[n] = q[n]
    <3> HIDE DEF T
    <3>1. \A k \in 0 .. n : k \in T
      BY <2>3, <2>4, UpTo
    <3> QED  BY <3>1 DEF T
  <2>6. p[n + 1] = Enter(p[n], s)
    <3>1. n + 1 \in 1 .. n + 1 /\ n + 1 - 1 = n
      OBVIOUS
    <3> QED  BY <2>1, <2>2, <3>1
  <2> QED  BY <2>1, <2>5, <2>6, <2>n, <2>u, <2>p, <2>q DEF Resolve
<1> QED  BY <1>1, <1>2

(* Segments written one by one.                                            *)
LEMMA WriteSteps ==
    ASSUME NEW l \in Seq(Names)
    PROVE  /\ Write(l)[0] = <<>>
           /\ \A i \in 1 .. Len(l) : Write(l)[i] = Glue(Write(l)[i - 1], l[i])
<1>n. PICK n \in Nat : n = Len(l) /\ \A i \in 1 .. n : l[i] \in Names
  BY LenProperties, ElementOfSeq
<1>1. PICK step : \A i \in 1 .. n : \A x \in Seq(Chars) : step[i][x] = Glue(x, l[i])
  <2> DEFINE f == [i \in 1 .. n |-> [x \in Seq(Chars) |-> Glue(x, l[i])]]
  <2>1. \A i \in 1 .. n : \A x \in Seq(Chars) : f[i][x] = Glue(x, l[i])
    OBVIOUS
  <2> HIDE DEF f
  <2> QED  BY <2>1
<1>2. PICK g : IsRun(g, n, Seq(Chars), <<>>, step)
  <2>1. \A i \in 1 .. n : \A x \in Seq(Chars) : step[i][x] \in Seq(Chars)
    BY <1>1, <1>n, GlueType
  <2>2. <<>> \in Seq(Chars)
    BY EmptySeq
  <2> QED  BY <2>1, <2>2, RunExists
<1>3. \A i \in 1 .. n : g[i] = Glue(g[i - 1], l[i])
  <2>1. \A i \in 1 .. n : i - 1 \in 0 .. n
    OBVIOUS
  <2> QED  BY <1>1, <1>2, <2>1 DEF IsRun
<1>4. g = [i \in 0 .. n |-> IF i = 0 THEN <<>> ELSE Glue(g[i - 1], l[i])]
  BY <1>2, <1>3 DEF IsRun
<1>5. Write(l) = [i \in 0 .. n |-> IF i = 0 THEN <<>> ELSE Glue(Write(l)[i - 1], l[i])]
  BY <1>4, <1>n DEF Write
<1>6. PICK p : p = Write(l)
  OBVIOUS
<1>7. p = [i \in 0 .. n |-> IF i = 0 THEN <<>> ELSE Glue(p[i - 1], l[i])]
  BY <1>5, <1>6
<1>8. p[0] = <<>> /\ \A i \in 1 .. n : p[i] = Glue(p[i - 1], l[i])
  BY <1>7
<1> QED  BY <1>6, <1>8, <1>n

(* Writing one more segment is one more step.                              *)
LEMMA JoinedSteps ==
    /\ Joined(<<>>) = <<>>
    /\ \A l \in Seq(Names), s \in Names : Joined(Append(l, s)) = Glue(Joined(l), s)
<1>1. Joined(<<>>) = <<>>
  <2>1. <<>> \in Seq(Names) /\ Len(<<>>) = 0
    BY EmptySeq
  <2> QED  BY <2>1, WriteSteps DEF Joined
<1>2. ASSUME NEW l \in Seq(Names), NEW s \in Names
      PROVE  Joined(Append(l, s)) = Glue(Joined(l), s)
  <2>n. PICK n \in Nat : n = Len(l)
    BY LenProperties
  <2>u. PICK u : u = Append(l, s)
    OBVIOUS
  <2>1. u \in Seq(Names) /\ Len(u) = n + 1 /\ u[n + 1] = s /\ \A i \in 1 .. n : u[i] = l[i]
    BY <2>n, <2>u, AppendPlaces
  <2>p. PICK p : p = Write(u)
    OBVIOUS
  <2>q. PICK q : q = Write(l)
    OBVIOUS
  <2>2. /\ p[0] = <<>> /\ q[0] = <<>>
        /\ \A i \in 1 .. n + 1 : p[i] = Glue(p[i - 1], u[i])
        /\ \A i \in 1 .. n : q[i] = Glue(q[i - 1], l[i])
    <3>1. p[0] = <<>> /\ \A i \in 1 .. Len(u) : p[i] = Glue(p[i - 1], u[i])
      BY <2>1, <2>p, WriteSteps
    <3>2. q[0] = <<>> /\ \A i \in 1 .. Len(l) : q[i] = Glue(q[i - 1], l[i])
      BY <2>q, WriteSteps
    <3> QED  BY <2>1, <2>n, <3>1, <3>2
  <2> DEFINE T == {i \in Nat : p[i] = q[i]}
  <2>3. 0 \in T
    BY <2>2
  <2>4. ASSUME NEW k \in 0 .. n - 1, k \in T PROVE k + 1 \in T
    <3>1. k + 1 \in 1 .. n /\ k + 1 \in 1 .. n + 1 /\ k + 1 - 1 = k /\ k + 1 \in Nat
      OBVIOUS
    <3>2. p[k + 1] = Glue(p[k], u[k + 1]) /\ q[k + 1] = Glue(q[k], l[k + 1])
      BY <2>2, <3>1
    <3>3. p[k] = q[k] /\ u[k + 1] = l[k + 1]
      BY <2>1, <2>4, <3>1
    <3> QED  BY <3>1, <3>2, <3>3
  <2>5. p[n] = q[n]
    <3> HIDE DEF T
    <3>1. \A k \in 0 .. n : k \in T
      BY <2>3, <2>4, UpTo
    <3> QED  BY <3>1 DEF T
  <2>6. p[n + 1] = Glue(p[n], s)
    <3>1. n + 1 \in 1 .. n + 1 /\ n + 1 - 1 = n
      OBVIOUS
    <3> QED  BY <2>1, <2>2, <3>1
  <2> QED  BY <2>1, <2>5, <2>6, <2>n, <2>u, <2>p, <2>q DEF Joined
<1> QED  BY <1>1, <1>2

(* Words already seen stay in front of those read later.                   *)
LEMMA ReadAfter ==
    ASSUME NEW w \in Seq(Names), NEW s \in Seen, NEW r \in Seen,
           r.words = w \o s.words, r.word = s.word
    PROVE  /\ Words(r) = w \o Words(s)
           /\ \A c \in Chars : /\ Read(r, c).words = w \o Read(s, c).words
                               /\ Read(r, c).word = Read(s, c).word
<1>1. s.words \in Seq(Names) /\ s.word \in Seq(Tokens) /\ r.words \in Seq(Names)
  BY SeenFacts
<1>2. Words(r) = w \o Words(s)
  <2>1. CASE s.word = <<>>
    BY <2>1 DEF Words
  <2>2. CASE s.word # <<>>
    <3>1. s.word \in Names
      BY <1>1, <2>2, TokensAreChars
    <3>2. w \o Append(s.words, s.word) = Append(w \o s.words, s.word)
      BY <1>1, <3>1, AppendConcat
    <3> QED  BY <2>2, <3>2 DEF Words
  <2> QED  BY <2>1, <2>2
<1>3. ASSUME NEW c \in Chars
      PROVE  Read(r, c).words = w \o Read(s, c).words /\ Read(r, c).word = Read(s, c).word
  <2>1. CASE c = "/"
    BY <1>2, <2>1 DEF Read
  <2>2. CASE c # "/"
    BY <2>2 DEF Read
  <2> QED  BY <2>1, <2>2
<1> QED  BY <1>2, <1>3

(* A slash ends a segment: the segments before it, then those after it.    *)
LEMMA SegmentsSplit ==
    ASSUME NEW a \in Seq(Chars), NEW b \in Seq(Chars)
    PROVE  /\ (a \o <<"/">>) \o b \in Seq(Chars)
           /\ Segments((a \o <<"/">>) \o b) = Segments(a) \o Segments(b)
<1>0. "/" \in Chars /\ <<"/">> \in Seq(Chars)
  BY TokensAreChars
<1>w. PICK w \in Seq(Names) : w = Segments(a)
  BY SegmentsType
<1>p. PICK p \in Seq(Chars) : p = a \o <<"/">>
  BY <1>0, ConcatProperties
<1>1. End(p).words = w /\ End(p).word = <<>>
  <2>1. p = Append(a, "/")
    BY <1>0, <1>p, AppendIsConcat
  <2>2. End(p) = Read(End(a), "/")
    BY <1>0, <2>1, EndSteps
  <2>3. Segments(a) = Words(End(a))
    BY SegmentsType
  <2> QED  BY <2>2, <2>3, <1>w DEF Read
<1> DEFINE T == {t \in Seq(Chars) : End(p \o t).words = w \o End(t).words /\ End(p \o t).word = End(t).word}
<1>2. <<>> \in T
  <2>1. p \o <<>> = p /\ w \o <<>> = w /\ <<>> \in Seq(Chars)
    BY ConcatEmptySeq, EmptySeq
  <2>2. End(<<>>).words = <<>> /\ End(<<>>).word = <<>>
    BY EndSteps, SeenFacts
  <2> QED  BY <1>1, <2>1, <2>2
<1>3. ASSUME NEW t \in Seq(Chars), NEW c \in Chars, t \in T PROVE Append(t, c) \in T
  <2>1. p \o t \in Seq(Chars) /\ Append(t, c) \in Seq(Chars)
    BY ConcatProperties, AppendProperties
  <2>2. p \o Append(t, c) = Append(p \o t, c)
    BY AppendConcat
  <2>3. End(Append(p \o t, c)) = Read(End(p \o t), c) /\ End(Append(t, c)) = Read(End(t), c)
    BY <2>1, EndSteps
  <2>4. End(t) \in Seen /\ End(p \o t) \in Seen
    BY <2>1, EndType
  <2>5. End(p \o t).words = w \o End(t).words /\ End(p \o t).word = End(t).word
    BY <1>3
  <2>6. /\ Read(End(p \o t), c).words = w \o Read(End(t), c).words
        /\ Read(End(p \o t), c).word = Read(End(t), c).word
    BY <2>4, <2>5, ReadAfter
  <2> QED  BY <2>1, <2>2, <2>3, <2>6
<1>4. b \in T
  <2> HIDE DEF T
  <2> QED  BY <1>2, <1>3, SeqInduction
<1>5. End(p \o b).words = w \o End(b).words /\ End(p \o b).word = End(b).word
  BY <1>4
<1>6. p \o b \in Seq(Chars) /\ End(b) \in Seen /\ End(p \o b) \in Seen
  BY ConcatProperties, EndType
<1>7. Words(End(p \o b)) = w \o Words(End(b))
  BY <1>5, <1>6, ReadAfter
<1> QED  BY <1>6, <1>7, <1>p, <1>w, SegmentsType

(* No text has no segments; a name is its only one.                        *)
LEMMA SegmentsOfName ==
    /\ Segments(<<>>) = <<>>
    /\ \A x \in Names : Segments(x) = <<x>>
<1>0. <<>> \in Seq(Chars) /\ <<>> \in Seq(Tokens) /\ Seq(Tokens) \subseteq Seq(Chars)
  BY EmptySeq, TokensAreChars, SeqMonotonic
<1>1. End(<<>>).words = <<>> /\ End(<<>>).word = <<>>
  BY EndSteps, SeenFacts
<1>2. Segments(<<>>) = <<>>
  BY <1>0, <1>1, SegmentsType DEF Words
<1> DEFINE T == {t \in Seq(Tokens) : End(t).words = <<>> /\ End(t).word = t}
<1>3. <<>> \in T
  BY <1>0, <1>1
<1>4. ASSUME NEW t \in Seq(Tokens), NEW c \in Tokens, t \in T PROVE Append(t, c) \in T
  <2>1. t \in Seq(Chars) /\ c \in Chars /\ c # "/" /\ Append(t, c) \in Seq(Tokens)
    BY <1>0, TokensAreChars, TokensAssumption, AppendProperties
  <2>2. End(Append(t, c)) = Read(End(t), c)
    BY <2>1, EndSteps
  <2> QED  BY <1>4, <2>1, <2>2 DEF Read
<1>5. \A t \in Seq(Tokens) : End(t).words = <<>> /\ End(t).word = t
  <2>1. \A t \in Seq(Tokens) : t \in T
    <3> HIDE DEF T
    <3> QED  BY <1>3, <1>4, SeqInduction
  <2> QED  BY <2>1
<1>6. ASSUME NEW x \in Names PROVE Segments(x) = <<x>>
  <2>1. x \in Seq(Chars) /\ x \in Seq(Tokens) /\ x # <<>>
    BY NamesAreTexts
  <2>2. Segments(x) = Append(<<>>, x)
    BY <2>1, <1>5, SegmentsType DEF Words
  <2> QED  BY <2>2
<1> QED  BY <1>2, <1>6

(* A slash in front changes nothing.                                       *)
LEMMA SegmentsRooted ==
    ASSUME NEW t \in Seq(Chars), NEW scheme
    PROVE  Root(scheme) \in Seq(Chars) /\ Root(scheme) \o t \in Seq(Chars) /\ Segments(Root(scheme) \o t) = Segments(t)
<1>0. <<>> \in Seq(Chars) /\ <<"/">> \in Seq(Chars) /\ Segments(<<>>) = <<>>
  BY EmptySeq, TokensAreChars, SegmentsOfName
<1>1. ASSUME NEW u \in Seq(Chars) PROVE <<"/">> \o u \in Seq(Chars) /\ Segments(<<"/">> \o u) = Segments(u)
  <2>1. (<<>> \o <<"/">>) \o u = <<"/">> \o u
    BY <1>0, ConcatEmptySeq
  <2>2. /\ (<<>> \o <<"/">>) \o u \in Seq(Chars)
        /\ Segments((<<>> \o <<"/">>) \o u) = <<>> \o Segments(u)
    <3>1. PICK e \in Seq(Chars) : e = <<>> /\ Segments(e) = <<>>
      BY <1>0
    <3>2. (e \o <<"/">>) \o u \in Seq(Chars) /\ Segments((e \o <<"/">>) \o u) = Segments(e) \o Segments(u)
      BY SegmentsSplit
    <3> QED  BY <3>1, <3>2
  <2>3. <<>> \o Segments(u) = Segments(u)
    BY SegmentsType, ConcatEmptySeq
  <2> QED  BY <2>1, <2>2, <2>3
<1>2. PICK v \in Seq(Chars) : v = <<"/">> \o t /\ Segments(v) = Segments(t)
  BY <1>1
<1>3. PICK w \in Seq(Chars) : w = <<"/">> \o v /\ Segments(w) = Segments(t)
  BY <1>1, <1>2
<1>4. PICK z \in Seq(Chars) : z = <<"/">> \o w /\ Segments(z) = Segments(t)
  BY <1>1, <1>3
<1>5. <<"/", "/">> = <<"/">> \o <<"/">> /\ <<"/", "/", "/">> = <<"/">> \o (<<"/">> \o <<"/">>)
  OBVIOUS
<1>6. <<"/">> \o <<"/">> \in Seq(Chars) /\ <<"/">> \o (<<"/">> \o <<"/">>) \in Seq(Chars)
  BY <1>0, ConcatProperties
<1>7. <<"/", "/">> \o t = w
  BY <1>0, <1>2, <1>3, <1>5, ConcatAssociative
<1>8. <<"/", "/", "/">> \o t = z
  <2>1. (<<"/">> \o (<<"/">> \o <<"/">>)) \o t = <<"/">> \o ((<<"/">> \o <<"/">>) \o t)
    BY <1>0, <1>6, ConcatAssociative
  <2> QED  BY <1>4, <1>5, <1>7, <2>1
<1> QED  BY <1>3, <1>4, <1>5, <1>6, <1>7, <1>8 DEF Root

(* What was written is read back, and ends in no slash.                    *)
LEMMA JoinedFacts ==
    \A l \in Seq(Names) :
        /\ Joined(l) \in Seq(Chars)
        /\ Segments(Joined(l)) = l
        /\ l # <<>> => Joined(l) # <<>> /\ Last(Joined(l)) # "/"
<1> DEFINE Good(l) == /\ Joined(l) \in Seq(Chars)
                      /\ Segments(Joined(l)) = l
                      /\ l # <<>> => Joined(l) # <<>> /\ Last(Joined(l)) # "/"
           T == {l \in Seq(Names) : Good(l)}
<1>0. /\ <<>> \in Seq(Chars) /\ <<>> \in Seq(Names) /\ <<"/">> \in Seq(Chars)
      /\ Joined(<<>>) = <<>> /\ Segments(<<>>) = <<>>
  BY EmptySeq, TokensAreChars, JoinedSteps, SegmentsOfName
<1>1. <<>> \in T
  BY <1>0
<1>2. ASSUME NEW l \in Seq(Names), NEW s \in Names, l \in T PROVE Append(l, s) \in T
  <2>0. /\ s \in Seq(Chars) /\ s \in Seq(Tokens) /\ s # <<>> /\ Segments(s) = <<s>>
        /\ Append(l, s) \in Seq(Names)
    BY NamesAreTexts, SegmentsOfName, AppendProperties
  <2>1. PICK m \in Nat : Len(s) = m /\ m # 0 /\ s[m] # "/"
    <3>1. Len(s) \in Nat \ {0} /\ \A i \in 1 .. Len(s) : s[i] \in Tokens
      BY <2>0, EmptySeq, ElementOfSeq
    <3>2. Len(s) \in 1 .. Len(s)
      BY <3>1
    <3> QED  BY <3>1, <3>2, TokensAssumption
  <2>2. PICK t \in Seq(Chars) : t = Joined(l) /\ Segments(t) = l /\ (l = <<>> <=> t = <<>>)
    BY <1>0, <1>2
  <2>3. PICK j : j = Joined(Append(l, s)) /\ j = Glue(t, s)
    BY <2>2, JoinedSteps
  <2>4. j \in Seq(Chars) /\ Segments(j) = Append(l, s) /\ j # <<>> /\ Last(j) # "/"
    <3>1. CASE t = <<>>
      <4>1. j = s /\ l = <<>>
        BY <2>2, <2>3, <3>1 DEF Glue
      <4>2. Append(l, s) = <<s>>
        BY <4>1
      <4> QED  BY <2>0, <2>1, <4>1, <4>2 DEF Last
    <3>2. CASE t # <<>>
      <4>1. j = (t \o <<"/">>) \o s
        BY <2>3, <3>2 DEF Glue
      <4>2. j \in Seq(Chars) /\ Segments(j) = l \o <<s>>
        BY <2>0, <2>2, <4>1, SegmentsSplit
      <4>3. Append(l, s) = l \o <<s>>
        BY AppendIsConcat
      <4>4. PICK a \in Seq(Chars) : a = t \o <<"/">>
        BY <1>0, ConcatProperties
      <4>5. j # <<>> /\ Last(j) = Last(s)
        BY <2>0, <4>1, <4>4, LastConcat
      <4> QED  BY <2>1, <4>2, <4>3, <4>5 DEF Last
    <3> QED  BY <3>1, <3>2
  <2> QED  BY <2>0, <2>3, <2>4
<1>3. \A l \in Seq(Names) : l \in T
  <2> HIDE DEF T
  <2> QED  BY <1>1, <1>2, SeqInduction
<1> QED  BY <1>3

(* Segments lead to a path of names.                                       *)
LEMMA ResolveType ==
    ASSUME NEW base \in Seq(Names)
    PROVE  \A l \in Seq(Names) : Resolve(base, l) \in Seq(Names)
<1> DEFINE T == {l \in Seq(Names) : Resolve(base, l) \in Seq(Names)}
<1>1. <<>> \in T
  BY ResolveSteps, EmptySeq
<1>2. ASSUME NEW l \in Seq(Names), NEW s \in Names, l \in T PROVE Append(l, s) \in T
  <2>1. Append(l, s) \in Seq(Names) /\ Resolve(base, Append(l, s)) = Enter(Resolve(base, l), s)
    BY ResolveSteps, AppendProperties
  <2> QED  BY <1>2, <2>1, EnterType
<1>3. \A l \in Seq(Names) : l \in T
  <2> HIDE DEF T
  <2> QED  BY <1>1, <1>2, SeqInduction
<1> QED  BY <1>3

(* Without dot segments, following segments only adds them.                *)
LEMMA ResolveNoDots ==
    ASSUME NEW base \in Seq(Names), NEW m \in Seq(Names), ~Contains(m, <<"..">>)
    PROVE  Resolve(base, m) = base \o m
<1> DEFINE T == {l \in Seq(Names) : ~Contains(l, <<"..">>) => Resolve(base, l) = base \o l}
<1>1. <<>> \in T
  BY ResolveSteps, EmptySeq, ConcatEmptySeq
<1>2. ASSUME NEW l \in Seq(Names), NEW s \in Names, l \in T PROVE Append(l, s) \in T
  <2>n. PICK n \in Nat : n = Len(l)
    BY LenProperties
  <2>u. PICK u : u = Append(l, s)
    OBVIOUS
  <2>1. u \in Seq(Names) /\ Len(u) = n + 1 /\ u[n + 1] = s /\ \A i \in 1 .. n : u[i] = l[i]
    BY <2>n, <2>u, AppendPlaces
  <2>2. ASSUME ~Contains(u, <<"..">>) PROVE Resolve(base, u) = base \o u
    <3>1. \A i \in 1 .. n + 1 : u[i] # <<"..">>
      BY <2>1, <2>2 DEF Contains
    <3>2. n + 1 \in 1 .. n + 1 /\ \A i \in 1 .. n : i \in 1 .. n + 1
      OBVIOUS
    <3>3. s # <<"..">> /\ ~Contains(l, <<"..">>)
      BY <2>1, <2>n, <3>1, <3>2 DEF Contains
    <3>4. Resolve(base, u) = Enter(base \o l, s)
      <4>1. Resolve(base, l) = base \o l
        BY <1>2, <3>3
      <4>2. Resolve(base, Append(l, s)) = Enter(Resolve(base, l), s)
        BY ResolveSteps
      <4> QED  BY <2>u, <4>1, <4>2
    <3>5. Resolve(base, u) = Append(base \o l, s)
      BY <3>3, <3>4 DEF Enter
    <3>6. base \o Append(l, s) = Append(base \o l, s)
      BY AppendConcat
    <3> QED  BY <2>u, <3>5, <3>6
  <2> QED  BY <2>1, <2>2, <2>u
<1>3. m \in T
  <2> HIDE DEF T
  <2> QED  BY <1>1, <1>2, SeqInduction
<1> QED  BY <1>3

(* What is below a part of a text stays below it.                          *)
LEMMA FurtherBelow ==
    ASSUME NEW a \in Seq(Chars), NEW w \in Seq(Chars), NEW s \in Seq(Chars)
    PROVE  \E z \in Seq(Chars) : ((a \o w) \o <<"/">>) \o s = a \o z
<1>1. PICK d : d \in Seq(Chars) /\ d = <<"/">>
  BY TokensAreChars
<1>2. PICK v : v \in Seq(Chars) /\ v = w \o d
  BY <1>1, ConcatProperties
<1>3. (a \o w) \o d = a \o (w \o d)
  BY <1>1, ConcatAssociative
<1>4. (a \o v) \o s = a \o (v \o s)
  BY <1>2, ConcatAssociative
<1>5. v \o s \in Seq(Chars)
  BY <1>2, ConcatProperties
<1>6. ((a \o w) \o d) \o s = a \o (v \o s)
  BY <1>2, <1>3, <1>4
<1> QED  BY <1>1, <1>5, <1>6

(* The text of a path starts with that of a directory above it, then a     *)
(* slash.                                                                  *)
LEMMA JoinedBelow ==
    ASSUME NEW q \in Seq(Names), q # <<>>, NEW m \in Seq(Names)
    PROVE  \/ Joined(q \o m) = Joined(q)
           \/ \E w \in Seq(Chars) : Joined(q \o m) = (Joined(q) \o <<"/">>) \o w
<1>0. PICK j \in Seq(Chars) : j = Joined(q) /\ j # <<>>
  BY JoinedFacts
<1>s. <<"/">> \in Seq(Chars)
  BY TokensAreChars
<1> DEFINE Below(t) == t = j \/ \E w \in Seq(Chars) : t = (j \o <<"/">>) \o w
           T == {l \in Seq(Names) : Below(Joined(q \o l))}
<1>1. <<>> \in T
  <2>1. q \o <<>> = q /\ <<>> \in Seq(Names)
    BY ConcatEmptySeq, EmptySeq
  <2> QED  BY <1>0, <2>1
<1>2. ASSUME NEW l \in Seq(Names), NEW s \in Names, l \in T PROVE Append(l, s) \in T
  <2>1. q \o l \in Seq(Names) /\ q \o l # <<>> /\ Append(l, s) \in Seq(Names) /\ s \in Seq(Chars)
    BY ConcatProperties, ConcatEqualIffEmpty, AppendProperties, NamesAreTexts
  <2>2. PICK t \in Seq(Chars) : t = Joined(q \o l) /\ t # <<>>
    BY <2>1, JoinedFacts
  <2>3. q \o Append(l, s) = Append(q \o l, s)
    BY AppendConcat
  <2>4. Joined(q \o Append(l, s)) = (t \o <<"/">>) \o s
    BY <2>1, <2>2, <2>3, JoinedSteps DEF Glue
  <2>5. Below((t \o <<"/">>) \o s)
    <3>1. CASE t = j
      BY <2>1, <3>1
    <3>2. ASSUME NEW w \in Seq(Chars), t = (j \o <<"/">>) \o w
          PROVE  Below((t \o <<"/">>) \o s)
      <4>1. PICK z \in Seq(Chars) : (((j \o <<"/">>) \o w) \o <<"/">>) \o s = (j \o <<"/">>) \o z
        <5>1. PICK a \in Seq(Chars) : a = j \o <<"/">>
          BY <1>s, ConcatProperties
        <5>2. \E z \in Seq(Chars) : ((a \o w) \o <<"/">>) \o s = a \o z
          BY <2>1, FurtherBelow
        <5> QED  BY <5>1, <5>2
      <4> QED  BY <3>2, <4>1
    <3>3. Below(t)
      BY <1>2, <2>2
    <3> QED  BY <3>1, <3>2, <3>3
  <2> QED  BY <2>1, <2>4, <2>5
<1>3. m \in T
  <2> HIDE DEF T
  <2> QED  BY <1>1, <1>2, SeqInduction
<1> QED  BY <1>0, <1>3

(* The text of an absolute URI has the segments it was made of.            *)
LEMMA AbsoluteFacts ==
    ASSUME NEW l \in Seq(Names), NEW scheme
    PROVE  Absolute(scheme, l) \in Seq(Chars) /\ Segments(Absolute(scheme, l)) = l
  BY JoinedFacts, SegmentsRooted DEF Absolute

(* A final slash is stripped.                                              *)
LEMMA StripSlashAppend ==
    ASSUME NEW a \in Seq(Chars) PROVE StripSlash(a \o <<"/">>) = a
<1>1. PICK t \in Seq(Chars) : t = a \o <<"/">> /\ t = Append(a, "/")
  BY TokensAreChars, AppendIsConcat, AppendProperties
<1>2. PICK n \in Nat : n = Len(a) /\ \A i \in 1 .. n : a[i] \in Chars
  BY LenProperties, ElementOfSeq
<1>3. Len(t) = n + 1 /\ t[n + 1] = "/" /\ \A i \in 1 .. n : t[i] = a[i]
  BY <1>1, <1>2, AppendPlaces, TokensAreChars
<1>4. t # <<>> /\ Last(t) = "/"
  BY <1>3, EmptySeq DEF Last
<1>5. Front(t) = a
  <2>1. Front(t) = SubSeq(t, 1, n)
    BY <1>2, <1>3 DEF Front
  <2>2. \A i \in 1 .. n : t[i] \in Chars
    BY <1>2, <1>3
  <2>3. /\ SubSeq(t, 1, n) \in Seq(Chars)
        /\ Len(SubSeq(t, 1, n)) = IF 1 <= n THEN n - 1 + 1 ELSE 0
        /\ \A i \in 1 .. n - 1 + 1 : SubSeq(t, 1, n)[i] = t[1 + i - 1]
    BY <2>2, SubSeqProperties
  <2>4. Len(SubSeq(t, 1, n)) = n /\ \A i \in 1 .. n : SubSeq(t, 1, n)[i] = a[i]
    BY <1>2, <1>3, <2>3
  <2> QED  BY <1>2, <2>1, <2>3, <2>4, SeqEqual
<1> QED  BY <1>1, <1>4, <1>5 DEF StripSlash

(* A final slash adds no segment.                                          *)
LEMMA StripSlashFacts ==
    ASSUME NEW t \in Seq(Chars)
    PROVE  /\ StripSlash(t) \in Seq(Chars)
           /\ Segments(StripSlash(t)) = Segments(t)
<1>1. CASE t = <<>> \/ Last(t) # "/"
  BY <1>1 DEF StripSlash
<1>2. CASE t # <<>> /\ Last(t) = "/"
  <2>1. PICK a \in Seq(Chars) : \E e \in Chars : t = Append(a, e)
    BY <1>2, SequenceEmptyOrAppend
  <2>2. PICK e \in Chars : t = Append(a, e)
    BY <2>1
  <2>3. e = "/"
    <3>1. PICK n \in Nat : n = Len(a)
      BY LenProperties
    <3>2. Len(t) = n + 1 /\ t[n + 1] = e
      BY <2>2, <3>1, AppendPlaces
    <3> QED  BY <1>2, <3>2 DEF Last
  <2>4. t = a \o <<"/">> /\ <<"/">> \in Seq(Chars) /\ a \o <<"/">> \in Seq(Chars)
    BY <2>2, <2>3, AppendIsConcat, TokensAreChars, ConcatProperties
  <2>5. Segments(t) = Segments(a)
    <3>1. PICK b \in Seq(Chars) : b = <<>> /\ Segments(b) = <<>>
      BY EmptySeq, SegmentsOfName
    <3>2. Segments((a \o <<"/">>) \o b) = Segments(a) \o Segments(b)
      BY SegmentsSplit
    <3>3. (a \o <<"/">>) \o b = a \o <<"/">> /\ Segments(a) \o Segments(b) = Segments(a)
      BY <2>4, <3>1, SegmentsType, ConcatEmptySeq
    <3> QED  BY <2>4, <3>2, <3>3
  <2> QED  BY <2>4, <2>5, StripSlashAppend
<1> QED  BY <1>1, <1>2

(* A location is a path of names; without dot segments it is the one that  *)
(* an absolute URI spells out.                                             *)
LEMMA LocationFacts ==
    ASSUME NEW u, u.text \in Seq(Chars)
    PROVE  /\ Location(u).segments \in Seq(Names)
           /\ u.scheme # "none" => Location(u).scheme = u.scheme
           /\ u.scheme # "none" /\ ~HasDots(u) => Location(u).segments = Segments(u.text)
<1>0. PICK s \in Seq(Names) : s = Segments(u.text)
  BY SegmentsType
<1>1. /\ Location(u).scheme = IF IsLocal(u) THEN "file" ELSE u.scheme
      /\ Location(u).segments = IF IsLocal(u) THEN Resolve(IF IsRelative(u) THEN Cwd ELSE <<>>, s)
                                ELSE IF s = <<>> THEN s ELSE <<Head(s)>> \o Resolve(<<>>, Tail(s))
  BY <1>0 DEF Location
<1>e. <<>> \in Seq(Names) /\ Cwd \in Seq(Names)
  BY EmptySeq, CwdAssumption
<1>2. CASE IsLocal(u)
  <2>1. PICK base \in Seq(Names) : base = IF IsRelative(u) THEN Cwd ELSE <<>>
    BY <1>e
  <2>2. Location(u).segments = Resolve(base, s) /\ Location(u).scheme = "file"
    BY <1>1, <1>2, <2>1
  <2>3. Resolve(base, s) \in Seq(Names)
    BY ResolveType
  <2>4. ASSUME u.scheme # "none" PROVE u.scheme = "file" /\ base = <<>>
    BY <1>2, <2>1, <2>4 DEF IsLocal, IsRelative
  <2>5. ASSUME u.scheme # "none", ~HasDots(u) PROVE Resolve(base, s) = s
    <3>1. Resolve(base, s) = base \o s
      BY <1>0, <2>5, ResolveNoDots DEF HasDots
    <3> QED  BY <2>4, <2>5, <3>1, ConcatEmptySeq
  <2> QED  BY <1>0, <2>2, <2>3, <2>4, <2>5
<1>3. CASE ~IsLocal(u) /\ s = <<>>
  BY <1>0, <1>1, <1>3
<1>4. CASE ~IsLocal(u) /\ s # <<>>
  <2>1. PICK h \in Names : h = Head(s)
    BY <1>4, HeadTailProperties
  <2>2. PICK r \in Seq(Names) : r = Tail(s) /\ Len(r) = Len(s) - 1 /\ \A i \in 1 .. Len(r) : r[i] = s[i + 1]
    BY <1>4, HeadTailProperties
  <2>3. Location(u).segments = <<h>> \o Resolve(<<>>, r) /\ Location(u).scheme = u.scheme
    BY <1>1, <1>4, <2>1, <2>2
  <2>4. <<h>> \in Seq(Names) /\ Resolve(<<>>, r) \in Seq(Names)
    <3>1. \A x \in Names : <<x>> \in Seq(Names)
      OBVIOUS
    <3>2. Resolve(<<>>, r) \in Seq(Names)
      BY <1>e, ResolveType
    <3> QED  BY <3>1, <3>2
  <2>5. <<h>> \o Resolve(<<>>, r) \in Seq(Names)
    BY <2>4, ConcatProperties
  <2>6. ASSUME ~HasDots(u) PROVE <<h>> \o Resolve(<<>>, r) = s
    <3>n. PICK n \in Nat : n = Len(s) /\ n # 0
      BY <1>4, EmptySeq
    <3>1. \A i \in 1 .. n : s[i] # <<"..">>
      BY <1>0, <2>6, <3>n DEF HasDots, Contains
    <3>2. \A i \in 1 .. n - 1 : i + 1 \in 1 .. n
      BY <3>n
    <3>3. ~Contains(r, <<"..">>)
      BY <2>2, <3>n, <3>1, <3>2 DEF Contains
    <3>4. Resolve(<<>>, r) = r
      BY <1>e, <3>3, ResolveNoDots, ConcatEmptySeq
    <3>5. <<h>> \o r = s
      <4>1. n \in 1 .. Len(s) /\ 1 \in 1 .. Len(s) /\ n \in 1 .. Len(s)
        BY <3>n
      <4>2. SubSeq(s, 1, n) = <<s[1]>> \o SubSeq(s, 1 + 1, n)
        BY <4>1, SubSeqRecursiveFirst
      <4>3. SubSeq(s, 1, n) = s /\ Tail(s) = SubSeq(s, 2, n)
        BY <1>4, <3>n, SubSeqFull, TailIsSubSeq
      <4>4. Head(s) = s[1]
        OBVIOUS
      <4>5. SubSeq(s, 1 + 1, n) = r
        <5>1. 1 + 1 = 2
          OBVIOUS
        <5>2. r = SubSeq(s, 2, n)
          BY <2>2, <4>3
        <5> QED  BY <5>1, <5>2, Zenon
      <4> QED  BY <2>1, <4>2, <4>3, <4>4, <4>5, Zenon
    <3> QED  BY <3>4, <3>5
  <2> QED  BY <1>0, <2>3, <2>5, <2>6
<1> QED  BY <1>2, <1>3, <1>4

(* What ensure_table_uri returns spells the location out.                  *)
LEMMA NormalizedFacts ==
    ASSUME NEW u, u.text \in Seq(Chars)
    PROVE  /\ Normalized(u).scheme = Location(u).scheme
           /\ Normalized(u).text = Absolute(Location(u).scheme, Location(u).segments)
           /\ Normalized(u).text \in Seq(Chars)
           /\ Segments(Normalized(u).text) = Location(u).segments
<1>1. /\ Normalized(u).scheme = Location(u).scheme
      /\ Normalized(u).text = Absolute(Location(u).scheme, Location(u).segments)
  BY DEF Normalized
<1> QED  BY <1>1, LocationFacts, AbsoluteFacts

(* A text that matches a prefix as text lies at or below it as a path.     *)
LEMMA MatchCovers ==
    ASSUME NEW p, NEW u, p.text \in Seq(Chars), u.text \in Seq(Chars), MatchesPrefix(p, u)
    PROVE  p.scheme = u.scheme /\ IsPrefix(Segments(p.text), Segments(u.text))
<1>1. PICK a \in Seq(Chars) : a = StripSlash(p.text) /\ Segments(a) = Segments(p.text)
  BY StripSlashFacts
<1>2. p.scheme = u.scheme /\ (u.text = a \/ IsPrefix(a \o <<"/">>, u.text))
  BY <1>1 DEF MatchesPrefix
<1>3. PICK r \in Seq(Names) : Segments(u.text) = Segments(a) \o r
  <2>1. CASE u.text = a
    BY <2>1, SegmentsType, ConcatEmptySeq, EmptySeq
  <2>2. CASE IsPrefix(a \o <<"/">>, u.text)
    <3>1. a \o <<"/">> \in Seq(Chars)
      BY TokensAreChars, ConcatProperties
    <3>2. PICK b \in Seq(Chars) : u.text = (a \o <<"/">>) \o b
      BY <2>2, <3>1, PrefixConcat
    <3>3. Segments((a \o <<"/">>) \o b) = Segments(a) \o Segments(b)
      BY SegmentsSplit
    <3> QED  BY <3>2, <3>3, SegmentsType
  <2> QED  BY <1>2, <2>1, <2>2
<1>4. Segments(p.text) \in Seq(Names) /\ Segments(u.text) \in Seq(Names)
  BY SegmentsType
<1> QED  BY <1>1, <1>2, <1>3, <1>4, PrefixConcat

(* A text in front of a directory and a path below it.                     *)
LEMMA ConcatInFront ==
    ASSUME NEW R \in Seq(Chars), NEW j \in Seq(Chars), NEW w \in Seq(Chars)
    PROVE  R \o ((j \o <<"/">>) \o w) = ((R \o j) \o <<"/">>) \o w
<1>1. PICK d : d \in Seq(Chars) /\ d = <<"/">>
  BY TokensAreChars
<1>2. PICK k : k \in Seq(Chars) /\ k = j \o d
  BY <1>1, ConcatProperties
<1>3. (R \o k) \o w = R \o (k \o w)
  BY <1>2, ConcatAssociative
<1>4. (R \o j) \o d = R \o (j \o d)
  BY <1>1, ConcatAssociative
<1> QED  BY <1>1, <1>2, <1>3, <1>4

(* The same for texts: the one below starts with the one above and a       *)
(* slash.                                                                  *)
LEMMA AbsoluteBelow ==
    ASSUME NEW scheme, NEW q \in Seq(Names), q # <<>>, NEW m \in Seq(Names)
    PROVE  \/ Absolute(scheme, q \o m) = Absolute(scheme, q)
           \/ \E w \in Seq(Chars) :
                 Absolute(scheme, q \o m) = (Absolute(scheme, q) \o <<"/">>) \o w
<1>1. PICK j \in Seq(Chars) : j = Joined(q)
  BY JoinedFacts
<1>2. PICK R : R \in Seq(Chars) /\ R = Root(scheme)
  BY <1>1, SegmentsRooted
<1>3. CASE Joined(q \o m) = j
  BY <1>1, <1>3 DEF Absolute
<1>4. ASSUME NEW w, w \in Seq(Chars), Joined(q \o m) = (j \o <<"/">>) \o w
      PROVE  Absolute(scheme, q \o m) = (Absolute(scheme, q) \o <<"/">>) \o w
  <2>1. R \o ((j \o <<"/">>) \o w) = ((R \o j) \o <<"/">>) \o w
    BY <1>2, <1>4, ConcatInFront
  <2> QED  BY <1>1, <1>2, <1>4, <2>1 DEF Absolute
<1> QED  BY <1>1, <1>3, <1>4, JoinedBelow

(* The text of an absolute URI with segments does not end in a slash.      *)
LEMMA AbsoluteLast ==
    ASSUME NEW scheme, NEW q \in Seq(Names), q # <<>>
    PROVE  Absolute(scheme, q) # <<>> /\ Last(Absolute(scheme, q)) # "/"
<1>1. PICK j \in Seq(Chars) : j = Joined(q) /\ j # <<>> /\ Last(j) # "/"
  BY JoinedFacts
<1>2. PICK R \in Seq(Chars) : R = Root(scheme)
  BY <1>1, SegmentsRooted
<1>3. R \o j # <<>> /\ Last(R \o j) = Last(j)
  BY <1>1, LastConcat
<1> QED  BY <1>1, <1>2, <1>3 DEF Absolute

(* The root of a store, without its last slash and with one again.         *)
LEMMA RootStripped ==
    ASSUME NEW scheme
    PROVE  Root(scheme) \in Seq(Chars) /\ StripSlash(Root(scheme)) \o <<"/">> = Root(scheme)
<1>1. <<"/">> \in Seq(Chars) /\ <<>> \in Seq(Chars)
  BY TokensAreChars, EmptySeq
<1>2. PICK d \in Seq(Chars) : d = <<"/">> \o <<"/">>
  BY <1>1, ConcatProperties
<1>3. <<"/", "/">> = <<"/">> \o <<"/">> /\ <<"/", "/", "/">> = d \o <<"/">>
  BY <1>2
<1>4. StripSlash(<<"/">> \o <<"/">>) = <<"/">> /\ StripSlash(d \o <<"/">>) = d
  BY <1>1, StripSlashAppend
<1>5. Root(scheme) \in Seq(Chars)
  BY <1>1, SegmentsRooted
<1> QED  BY <1>3, <1>4, <1>5 DEF Root

(* A final slash takes nothing out of a directory.                         *)
LEMMA SlashBelow ==
    ASSUME NEW a \in Seq(Chars), NEW b \in Seq(Chars), NEW t, t = b \/ t = b \o <<"/">>,
           b = a \/ \E w \in Seq(Chars) : b = (a \o <<"/">>) \o w
    PROVE  t = a \/ IsPrefix(a \o <<"/">>, t)
<1>1. PICK d : d \in Seq(Chars) /\ d = <<"/">>
  BY TokensAreChars
<1>2. PICK c : c \in Seq(Chars) /\ c = a \o d
  BY <1>1, ConcatProperties
<1>3. ASSUME NEW w, w \in Seq(Chars) PROVE IsPrefix(c, c \o w)
  <2>1. c \o w \in Seq(Chars)
    BY <1>2, <1>3, ConcatProperties
  <2> QED  BY <1>2, <1>3, <2>1, PrefixConcat
<1>4. CASE b = a
  <2>1. IsPrefix(c, c)
    <3>1. <<>> \in Seq(Chars) /\ c \o <<>> = c
      BY <1>2, EmptySeq, ConcatEmptySeq
    <3> QED  BY <1>3, <3>1
  <2> QED  BY <1>1, <1>2, <1>4, <2>1
<1>5. ASSUME NEW w, w \in Seq(Chars), b = (a \o <<"/">>) \o w PROVE IsPrefix(a \o <<"/">>, t)
  <2>1. b = c \o w
    BY <1>1, <1>2, <1>5
  <2>2. PICK z : z \in Seq(Chars) /\ z = w \o d
    BY <1>1, <1>5, ConcatProperties
  <2>3. (c \o w) \o d = c \o z
    BY <1>1, <1>2, <1>5, <2>2, ConcatAssociative
  <2>4. IsPrefix(c, c \o w) /\ IsPrefix(c, c \o z)
    BY <1>3, <1>5, <2>2
  <2> QED  BY <1>1, <1>2, <2>1, <2>3, <2>4
<1> QED  BY <1>4, <1>5

(* All there is in a store lies below its root.                            *)
LEMMA RootBelow ==
    ASSUME NEW R \in Seq(Chars), NEW j \in Seq(Chars), NEW t,
           t = R \o j \/ t = (R \o j) \o <<"/">>
    PROVE  IsPrefix(R, t)
<1>1. PICK d : d \in Seq(Chars) /\ d = <<"/">>
  BY TokensAreChars
<1>2. PICK k : k \in Seq(Chars) /\ k = j \o d
  BY <1>1, ConcatProperties
<1>3. (R \o j) \o d = R \o k
  BY <1>1, <1>2, ConcatAssociative
<1>4. ASSUME NEW w, w \in Seq(Chars) PROVE IsPrefix(R, R \o w)
  <2>1. R \o w \in Seq(Chars)
    BY <1>4, ConcatProperties
  <2> QED  BY <1>4, <2>1, PrefixConcat
<1> QED  BY <1>1, <1>2, <1>3, <1>4

(* What lies at or below a tidily written prefix as a path, and is tidily  *)
(* written itself, matches it as text.                                     *)
LEMMA TidyMatches ==
    ASSUME NEW p, NEW v, p.text \in Seq(Chars), Tidy(p), p.scheme = v.scheme,
           NEW l \in Seq(Names), IsPrefix(Segments(p.text), l),
           \/ v.text = Absolute(v.scheme, l)
           \/ v.text = Absolute(v.scheme, l) \o <<"/">>
    PROVE  MatchesPrefix(p, v)
<1>1. PICK q \in Seq(Names) : q = Segments(p.text)
  BY SegmentsType
<1>2. PICK m \in Seq(Names) : l = q \o m
  <2>1. IsPrefix(q, l)
    BY <1>1
  <2> QED  BY <2>1, PrefixConcat
<1>3. PICK b : b \in Seq(Chars) /\ b = Absolute(p.scheme, l)
  BY AbsoluteFacts
<1>4. v.text = b \/ v.text = b \o <<"/">>
  BY <1>3
<1>5. CASE q # <<>>
  <2>1. PICK a : a \in Seq(Chars) /\ a = Absolute(p.scheme, q)
    BY AbsoluteFacts
  <2>2. p.text = a \/ p.text = a \o <<"/">>
    BY <1>1, <2>1 DEF Tidy
  <2>3. a # <<>> /\ Last(a) # "/"
    BY <1>5, <2>1, AbsoluteLast
  <2>4. StripSlash(p.text) = a
    <3>1. CASE p.text = a
      BY <2>3, <3>1 DEF StripSlash
    <3>2. CASE p.text = a \o <<"/">>
      BY <2>1, <3>2, StripSlashAppend
    <3> QED  BY <2>2, <3>1, <3>2
  <2>5. b = a \/ \E w \in Seq(Chars) : b = (a \o <<"/">>) \o w
    <3>1. \/ Absolute(p.scheme, q \o m) = Absolute(p.scheme, q)
          \/ \E w \in Seq(Chars) :
                Absolute(p.scheme, q \o m) = (Absolute(p.scheme, q) \o <<"/">>) \o w
      BY <1>5, AbsoluteBelow
    <3> QED  BY <1>2, <1>3, <2>1, <3>1
  <2>6. v.text = a \/ IsPrefix(a \o <<"/">>, v.text)
    <3>1. PICK t : t = v.text
      OBVIOUS
    <3>2. t = b \/ t = b \o <<"/">>
      BY <1>4, <3>1
    <3>3. t = a \/ IsPrefix(a \o <<"/">>, t)
      BY <1>3, <2>1, <2>5, <3>2, SlashBelow
    <3> QED  BY <3>1, <3>3
  <2> QED  BY <2>4, <2>6 DEF MatchesPrefix
<1>6. CASE q = <<>>
  <2>1. PICK R : R \in Seq(Chars) /\ R = Root(p.scheme) /\ StripSlash(R) \o <<"/">> = R
    BY RootStripped
  <2>2. p.text = R
    <3>1. p.text = Root(p.scheme) \o Joined(<<>>)
      BY <1>1, <1>6 DEF Tidy, Absolute
    <3> QED  BY <2>1, <3>1, JoinedSteps, ConcatEmptySeq
  <2>3. PICK j : j \in Seq(Chars) /\ b = R \o j
    BY <1>3, <2>1, JoinedFacts DEF Absolute
  <2>4. IsPrefix(R, v.text)
    BY <1>4, <2>1, <2>3, RootBelow
  <2> QED  BY <2>1, <2>2, <2>4 DEF MatchesPrefix
<1> QED  BY <1>5, <1>6

----------------------------------------------------------------------------
(* Spellings of one location are normalised to one text.                   *)
LEMMA OneKeyPerLocation ==
    ASSUME NEW u, NEW w, Location(u) = Location(w)
    PROVE  LockKey(u) = LockKey(w)
  BY DEF LockKey, Normalized

(* The key of a Commit is one of the keys that there are locks for.        *)
LEMMA KeyTypes ==
    /\ \A u \in Uris : u \in Keys /\ LockKey(u) \in Keys
  BY DEF Keys, LockKey

(* The members of a line are requests.                                     *)
LEMMA LineTypes ==
    ASSUME TypeOK, NEW k \in Keys
    PROVE  /\ line[k] \in Seq(Requests) /\ Len(line[k]) \in Nat
           /\ \A i \in 1 .. Len(line[k]) : line[k][i] \in Requests
           /\ line[k] # <<>> => 1 \in 1 .. Len(line[k])
<1>1. line[k] \in Seq(Requests)
  BY DEF TypeOK
<1> QED  BY <1>1, LenProperties, ElementOfSeq, EmptySeq

(* Who holds a lock is in its line.                                        *)
LEMMA HolderInLine ==
    ASSUME IInv, NEW r \in holding
    PROVE  /\ r \in Requests /\ key[r] \in Keys
           /\ 1 \in 1 .. Len(line[key[r]]) /\ line[key[r]][1] = r
           /\ key[r] = LockKey(uri[r])
           /\ Lock!InLine(r)
<1>1. r \in Requests /\ key[r] \in Keys
  BY DEF IInv, TypeOK
<1>2. 1 \in 1 .. Len(line[key[r]]) /\ line[key[r]][1] = r
  BY <1>1, LineTypes DEF IInv, LineSound
<1>3. key[r] = LockKey(uri[r])
  BY <1>1, <1>2 DEF IInv, LineSound
<1>4. Lock!InLine(r)
  BY <1>1, <1>2 DEF Lock!InLine
<1> QED  BY <1>1, <1>2, <1>3, <1>4

----------------------------------------------------------------------------
LEMMA InitIInv == Init => IInv
<1> SUFFICES ASSUME Init PROVE IInv
  OBVIOUS
<1>1. \A prefixes \in allowlist : \A p \in prefixes : IsUri(p)
  <2>1. CASE setting = Unset \/ ToSet(setting) \subseteq {Blank}
    BY <2>1 DEF Init, load_allowed_table_prefixes
  <2>2. CASE ~(setting = Unset \/ ToSet(setting) \subseteq {Blank})
    <3>1. allowlist = {ToSet(setting) \ {Blank}} /\ setting \in Settings \ {Unset}
      BY <2>2 DEF Init, load_allowed_table_prefixes
    <3>2. \A i \in DOMAIN setting : setting[i] = Blank \/ IsUri(setting[i])
      BY <3>1, SettingsAssumption
    <3> QED  BY <3>1, <3>2 DEF ToSet
  <2> QED  BY <2>1, <2>2
<1>2. key \in [Requests -> Keys]
  BY KeyTypes DEF Init
<1>3. line \in [Keys -> Seq(Requests)] /\ \A k \in Keys : line[k] = <<>> /\ Len(line[k]) = 0
  BY EmptySeq DEF Init
<1>4. TypeOK
  BY <1>1, <1>2, <1>3 DEF Init, TypeOK
<1>5. LineSound
  BY <1>3 DEF Init, LineSound
<1>6. VerdictSound
  BY DEF Init, VerdictSound
<1> QED  BY <1>4, <1>5, <1>6 DEF IInv

(* The verdict of one check, and when it leaves a directory.               *)
LEMMA CheckVerdict ==
    ASSUME IInv, NEW r \in Requests, normalize_and_check_table_uri(r)
    PROVE  /\ status'[r] = "OK" => ~Refused(uri[r])
           /\ status'[r] = "PERMISSION_DENIED" => RawRefused(uri[r]) \/ Refused(uri[r])
           /\ dirs' = dirs \/ (dirs' = dirs \cup {Location(uri[r])} /\ ~RawRefused(uri[r]))
<1>1. \A code : Answer(r, code) => status'[r] = code
  BY DEF Answer, IInv, TypeOK
<1>2. CASE RawRefused(uri[r]) /\ Answer(r, "PERMISSION_DENIED") /\ UNCHANGED dirs
  BY <1>1, <1>2
<1>3. CASE /\ ~RawRefused(uri[r]) /\ Answer(r, "INVALID_ARGUMENT")
           /\ dirs' \in {dirs, dirs \cup Made(uri[r])}
  BY <1>1, <1>3 DEF Made
<1>4. CASE /\ ~RawRefused(uri[r])
           /\ dirs' = dirs \cup Made(uri[r])
           /\ Answer(r, IF Refused(uri[r]) THEN "PERMISSION_DENIED" ELSE "OK")
  BY <1>1, <1>4 DEF Made
<1> QED  BY <1>2, <1>3, <1>4 DEF normalize_and_check_table_uri

(* The lock changes no verdict.                                            *)
LEMMA VerdictKept ==
    ASSUME VerdictSound, UNCHANGED <<setting, allowlist, uri, status, dirs>>
    PROVE  VerdictSound'
<1>1. \A u : (RawRefused(u)' <=> RawRefused(u)) /\ (Refused(u)' <=> Refused(u))
  BY DEF RawRefused, Refused, is_table_uri_allowed
<1> QED  BY <1>1 DEF VerdictSound

(* The check touches no lock, and a verdict, once given, stays.            *)
LEMMA CheckIInv ==
    ASSUME IInv, NEW r \in Requests, normalize_and_check_table_uri(r)
    PROVE  IInv'
<1>1. PICK code \in {"OK", "INVALID_ARGUMENT", "PERMISSION_DENIED"} : Answer(r, code)
  BY DEF normalize_and_check_table_uri
<1>2. \A d \in dirs' : d.scheme = "file"
  <2>1. IsLocal(uri[r]) => Location(uri[r]).scheme = "file"
    BY DEF Location
  <2>2. dirs' = dirs \/ (IsLocal(uri[r]) /\ dirs' = dirs \cup {Location(uri[r])})
    BY DEF normalize_and_check_table_uri, Made
  <2> QED  BY <2>1, <2>2 DEF IInv, TypeOK
<1>3. /\ status' = [status EXCEPT ![r] = code] /\ answered' \subseteq Requests
      /\ UNCHANGED <<setting, allowlist, uri, rpc, key, line, holding>>
  BY <1>1 DEF IInv, TypeOK, Answer, normalize_and_check_table_uri, lockVars
<1>4. TypeOK'
  BY <1>2, <1>3 DEF IInv, TypeOK
<1>5. status[r] = "none" /\ \A q \in Requests : status[q] = "OK" => status'[q] = "OK"
  BY <1>3 DEF IInv, TypeOK, normalize_and_check_table_uri
<1>6. LineSound'
  BY <1>3, <1>5, LineTypes DEF IInv, LineSound
<1>7. VerdictSound'
  <2>1. \A u : (RawRefused(u)' <=> RawRefused(u)) /\ (Refused(u)' <=> Refused(u))
    BY <1>3 DEF RawRefused, Refused, is_table_uri_allowed
  <2>2. /\ status'[r] = code /\ uri' = uri
        /\ \A q \in Requests \ {r} : status'[q] = status[q]
    BY <1>3 DEF IInv, TypeOK
  <2>3. /\ code = "OK" => ~Refused(uri[r])
        /\ code = "PERMISSION_DENIED" => RawRefused(uri[r]) \/ Refused(uri[r])
        /\ dirs' = dirs \/ (dirs' = dirs \cup {Location(uri[r])} /\ ~RawRefused(uri[r]))
    BY <2>2, CheckVerdict
  <2>4. allowlist' = load_allowed_table_prefixes(setting')
    BY <1>3 DEF IInv, VerdictSound
  <2>5. \A q \in Requests : /\ status'[q] = "OK" => ~Refused(uri[q])
                            /\ status'[q] = "PERMISSION_DENIED" => RawRefused(uri[q]) \/ Refused(uri[q])
    BY <2>2, <2>3 DEF IInv, VerdictSound
  <2>6. ASSUME NEW d \in dirs'
        PROVE  \E q \in Requests : status'[q] # "none" /\ Location(uri[q]) = d /\ ~RawRefused(uri[q])
    <3>1. CASE d \in dirs
      <4>1. PICK q \in Requests : status[q] # "none" /\ Location(uri[q]) = d /\ ~RawRefused(uri[q])
        BY <3>1 DEF IInv, VerdictSound
      <4>2. status'[q] # "none"
        BY <2>2, <4>1
      <4> QED  BY <4>1, <4>2
    <3>2. CASE d \notin dirs
      <4>1. d = Location(uri[r]) /\ ~RawRefused(uri[r]) /\ status'[r] # "none"
        BY <2>2, <2>3, <2>6, <3>2
      <4> QED  BY <4>1
    <3> QED  BY <3>1, <3>2
  <2> QED  BY <2>1, <2>2, <2>4, <2>5, <2>6 DEF VerdictSound
<1> QED  BY <1>4, <1>6, <1>7 DEF IInv

(* A Commit joins the line of its key: it was in none, so its new key      *)
(* moves nobody's place.                                                   *)
LEMMA LockForIInv == ASSUME IInv, NEW r \in Requests, lock_for(r) PROVE IInv'
<1> DEFINE k == LockKey(uri[r])
<1>1. k \in Keys
  BY KeyTypes DEF IInv, TypeOK
<1>2. /\ key' = [key EXCEPT ![r] = k] /\ key'[r] = k
      /\ status[r] = "OK"
      /\ UNCHANGED <<setting, allowlist, uri, rpc, status, dirs, answered>>
  BY DEF lock_for, IInv, TypeOK
<1>3. /\ ~Lock!InLine(r)
      /\ line' = [line EXCEPT ![k] = Append(line[k], r)]
      /\ (holding' = holding \/ (line[k] = <<>> /\ holding' = holding \cup {r}))
  BY <1>2 DEF lock_for, Lock!Join
<1> HIDE DEF k
<1>n. PICK n \in Nat : n = Len(line[k])
  BY <1>1, LineTypes DEF IInv
<1>4. /\ line'[k] \in Seq(Requests) /\ Len(line'[k]) = n + 1
      /\ line'[k][n + 1] = r
      /\ \A i \in 1 .. n : line'[k][i] = line[k][i]
      /\ \A l \in Keys \ {k} : line'[l] = line[l]
  <2>1. line'[k] = Append(line[k], r) /\ line[k] \in Seq(Requests)
    BY <1>1, <1>3, LineTypes DEF IInv, TypeOK
  <2>2. \A l \in Keys \ {k} : line'[l] = line[l]
    BY <1>3 DEF IInv, TypeOK
  <2> QED  BY <2>1, <2>2, <1>n, AppendProperties
<1>5. \A l \in Keys : \A i \in 1 .. Len(line[l]) : line[l][i] \in Requests /\ line[l][i] # r
  BY <1>3, LineTypes DEF IInv, Lock!InLine
<1>6. \A q \in Requests : q # r => key'[q] = key[q]
  BY <1>2 DEF IInv, TypeOK
<1>7. TypeOK'
  <2>1. key' \in [Requests -> Keys] /\ line' \in [Keys -> Seq(Requests)] /\ holding' \subseteq Requests
    BY <1>1, <1>2, <1>3, <1>4 DEF IInv, TypeOK
  <2> QED  BY <2>1, <1>2 DEF IInv, TypeOK
<1>8. ASSUME NEW l \in Keys
      PROVE  /\ \A i, j \in 1 .. Len(line'[l]) : line'[l][i] = line'[l][j] => i = j
             /\ \A i \in 1 .. Len(line'[l]) : /\ key'[line'[l][i]] = l /\ LockKey(uri'[line'[l][i]]) = l
                                              /\ status'[line'[l][i]] = "OK"
  <2>1. CASE l = k
    <3>1. \A i \in 1 .. n + 1 : i \in 1 .. n \/ i = n + 1
      OBVIOUS
    <3>2. \A i \in 1 .. n : /\ line[k][i] \in Requests /\ line[k][i] # r /\ key[line[k][i]] = k
                            /\ LockKey(uri[line[k][i]]) = k /\ status[line[k][i]] = "OK"
      BY <1>1, <1>5, <1>n DEF IInv, LineSound
    <3>3. \A i, j \in 1 .. n : line[k][i] = line[k][j] => i = j
      BY <1>1, <1>n DEF IInv, LineSound
    <3>4. \A i, j \in 1 .. n + 1 : line'[k][i] = line'[k][j] => i = j
      BY <1>4, <3>1, <3>2, <3>3
    <3>5. \A i \in 1 .. n + 1 : /\ key'[line'[k][i]] = k /\ LockKey(uri'[line'[k][i]]) = k
                                /\ status'[line'[k][i]] = "OK"
      <4>1. ASSUME NEW i \in 1 .. n
            PROVE  /\ key'[line'[k][i]] = k /\ LockKey(uri'[line'[k][i]]) = k
                   /\ status'[line'[k][i]] = "OK"
        <5>1. PICK q \in Requests : /\ q = line[k][i] /\ q # r /\ key[q] = k
                                    /\ LockKey(uri[q]) = k /\ status[q] = "OK"
          BY <3>2
        <5>2. line'[k][i] = q
          BY <5>1, <1>4
        <5>3. key'[q] = k
          BY <5>1, <1>6
        <5>4. uri' = uri /\ status' = status
          BY <1>2
        <5> QED  BY <5>1, <5>2, <5>3, <5>4
      <4>2. key'[r] = k /\ LockKey(uri'[r]) = k /\ status'[r] = "OK"
        BY <1>2 DEF k
      <4> QED  BY <1>4, <3>1, <4>1, <4>2
    <3> QED  BY <2>1, <1>4, <3>4, <3>5
  <2>2. CASE l # k
    <3>1. line'[l] = line[l]
      BY <2>2, <1>4
    <3> QED  BY <3>1, <1>2, <1>5, <1>6 DEF IInv, LineSound
  <2> QED  BY <2>1, <2>2
<1>9. ASSUME NEW q \in holding' PROVE line'[key'[q]] # <<>> /\ line'[key'[q]][1] = q
  <2>1. CASE q \in holding
    <3>1. /\ q \in Requests /\ q # r /\ key[q] \in Keys /\ key'[q] = key[q]
          /\ 1 \in 1 .. Len(line[key[q]]) /\ line[key[q]][1] = q
      BY <2>1, <1>3, <1>6, HolderInLine
    <3>2. CASE key[q] = k
      <4>1. 1 \in 1 .. n /\ line'[k][1] = q
        BY <3>1, <3>2, <1>4, <1>n
      <4>2. line'[k] # <<>>
        BY <1>4, EmptySeq
      <4> QED  BY <3>1, <3>2, <4>1, <4>2
    <3>3. CASE key[q] # k
      BY <3>1, <3>3, <1>4, LineTypes DEF IInv, LineSound
    <3> QED  BY <3>2, <3>3
  <2>2. CASE q \notin holding
    <3>1. q = r /\ line[k] = <<>>
      BY <2>2, <1>3, <1>9
    <3>2. n = 0
      BY <3>1, <1>n, EmptySeq
    <3>3. line'[k] # <<>>
      BY <1>4, EmptySeq
    <3> QED  BY <3>1, <3>2, <3>3, <1>2, <1>4
  <2> QED  BY <2>1, <2>2
<1>10. LineSound'
  BY <1>8, <1>9 DEF LineSound
<1>11. VerdictSound'
  BY <1>2, VerdictKept DEF IInv
<1> QED  BY <1>7, <1>10, <1>11 DEF IInv

LEMMA LockIInv == ASSUME IInv, NEW r \in Requests, lock(r) PROVE IInv'
<1>1. /\ line[key[r]] # <<>> /\ line[key[r]][1] = r
      /\ holding' = holding \cup {r} /\ line' = line
      /\ UNCHANGED <<setting, allowlist, uri, rpc, status, key, dirs, answered>>
  BY DEF lock, Lock!Enter
<1>2. TypeOK'
  BY <1>1 DEF IInv, TypeOK
<1>3. LineSound'
  BY <1>1 DEF IInv, LineSound
<1>4. VerdictSound'
  BY <1>1, VerdictKept DEF IInv
<1> QED  BY <1>2, <1>3, <1>4 DEF IInv

(* The holder was at the front: who comes next is in no section yet.       *)
LEMMA DoneIInv == ASSUME IInv, NEW r \in Requests, Done(r) PROVE IInv'
<1> DEFINE k == key[r]
           s == line[k]
<1>0. r \in holding /\ k \in Keys /\ s \in Seq(Requests) /\ Len(s) \in Nat
  BY LineTypes DEF Done, IInv, TypeOK
<1>1. PICK i \in 1 .. Len(s) : s[i] = r /\ line' = [line EXCEPT ![k] = RemoveAt(s, i)]
  BY DEF Done, Lock!Leave, Lock!RemoveAt, RemoveAt
<1>2. /\ holding' = holding \ {r} /\ answered' = answered \cup {r}
      /\ UNCHANGED <<setting, allowlist, uri, rpc, status, key, dirs>>
  BY DEF Done, Lock!Leave
<1>3. \A j, l \in 1 .. Len(s) : s[j] = s[l] => j = l
  BY <1>0 DEF IInv, LineSound
<1> DEFINE q == RemoveAt(s, i)
<1>4. q \in Seq(Requests)
  BY <1>0, RemoveAtProperties
<1>5. /\ \A j \in 1 .. Len(q) : \E l \in 1 .. Len(s) : l # i /\ q[j] = s[l]
      /\ \A j, l \in 1 .. Len(q) : q[j] = q[l] => j = l
  BY <1>0, <1>3, RemoveAtInjective
<1>6. line'[k] = q /\ \A l \in Keys : l # k => line'[l] = line[l]
  BY <1>0, <1>1 DEF IInv, TypeOK
<1>7. TypeOK'
  <2>1. line' \in [Keys -> Seq(Requests)]
    BY <1>1, <1>4 DEF IInv, TypeOK
  <2> QED  BY <2>1, <1>2 DEF IInv, TypeOK
<1> HIDE DEF q
<1>8. ASSUME NEW l \in Keys
      PROVE  /\ \A j, m \in 1 .. Len(line'[l]) : line'[l][j] = line'[l][m] => j = m
             /\ \A j \in 1 .. Len(line'[l]) : /\ key[line'[l][j]] = l /\ LockKey(uri[line'[l][j]]) = l
                                              /\ status[line'[l][j]] = "OK"
  <2>1. CASE l = k
    <3>1. \A j \in 1 .. Len(s) : key[s[j]] = k /\ LockKey(uri[s[j]]) = k /\ status[s[j]] = "OK"
      BY <1>0 DEF IInv, LineSound
    <3> QED  BY <2>1, <3>1, <1>5, <1>6
  <2>2. CASE l # k
    BY <2>2, <1>6 DEF IInv, LineSound
  <2> QED  BY <2>1, <2>2
<1>9. ASSUME NEW u \in holding' PROVE line'[key[u]] # <<>> /\ line'[key[u]][1] = u
  <2>1. u \in holding /\ u # r
    BY <1>2, <1>9
  <2>2. key[u] \in Keys /\ line[key[u]] # <<>> /\ line[key[u]][1] = u /\ line[k][1] = r
    BY <2>1, <1>0, HolderInLine DEF IInv, LineSound
  <2>3. key[u] # k
    BY <2>1, <2>2
  <2> QED  BY <2>2, <2>3, <1>6
<1>10. LineSound'
  BY <1>2, <1>8, <1>9 DEF LineSound
<1>11. VerdictSound'
  BY <1>2, VerdictKept DEF IInv
<1> QED  BY <1>7, <1>10, <1>11 DEF IInv

LEMMA NextIInv == ASSUME IInv, [Next]_vars PROVE IInv'
<1>1. ASSUME NEW r \in Requests,
             normalize_and_check_table_uri(r) \/ lock_for(r) \/ lock(r) \/ Done(r)
      PROVE  IInv'
  BY <1>1, CheckIInv, LockForIInv, LockIInv, DoneIInv
<1>2. CASE UNCHANGED vars
  <2>1. TypeOK' /\ LineSound'
    BY <1>2 DEF IInv, TypeOK, LineSound, vars, lockVars
  <2>2. VerdictSound'
    BY <1>2, VerdictKept DEF IInv, vars
  <2> QED  BY <2>1, <2>2 DEF IInv
<1> QED  BY <1>1, <1>2 DEF Next

----------------------------------------------------------------------------
(* Every request keeps its types, and a Commit is in the line of its       *)
(* normalised URI alone, only after its check passed (server.rs:369-378).  *)
THEOREM InvariantCorrect == Spec => []IInv
<1>1. Init => IInv
  BY InitIInv
<1>2. IInv /\ [Next]_vars => IInv'
  BY NextIInv
<1> QED  BY <1>1, <1>2, PTL DEF Spec

(* Two Commits to one location are never both in the locked section,       *)
(* however their URIs are spelled (server.rs:369-378).                     *)
THEOREM OneCommitCorrect == Spec => []OneCommitPerLocation
<1>1. ASSUME IInv PROVE OneCommitPerLocation
  <2> SUFFICES ASSUME NEW a \in holding, NEW b \in holding, Location(uri[a]) = Location(uri[b])
               PROVE  a = b
    BY DEF OneCommitPerLocation
  <2>1. key[a] = LockKey(uri[a]) /\ line[key[a]][1] = a /\ key[b] = LockKey(uri[b]) /\ line[key[b]][1] = b
    BY <1>1, HolderInLine
  <2>2. key[a] = key[b]
    BY <2>1, OneKeyPerLocation
  <2> QED  BY <2>1, <2>2
<1> QED  BY <1>1, InvariantCorrect, PTL

----------------------------------------------------------------------------
(* The list in use is the setting's, and its entries are URIs.             *)
LEMMA ListOfSetting ==
    ASSUME IInv
    PROVE  /\ Unlisted => allowlist = {}
           /\ ~Unlisted => /\ allowlist = {ToSet(setting) \ {Blank}}
                           /\ \A i \in DOMAIN setting : setting[i] # Blank => setting[i].text \in Seq(Chars)
<1>1. allowlist = load_allowed_table_prefixes(setting) /\ setting \in Settings
  BY DEF IInv, VerdictSound, TypeOK
<1>2. ASSUME ~Unlisted
      PROVE  \A i \in DOMAIN setting : setting[i] # Blank => setting[i].text \in Seq(Chars)
  BY <1>1, <1>2, SettingsAssumption DEF Unlisted, IsUri
<1> QED  BY <1>1, <1>2 DEF load_allowed_table_prefixes, Unlisted

(* A text that passes the allowlist lies at or below one of its prefixes.  *)
LEMMA AllowedIsCovered ==
    ASSUME IInv, NEW v, v.text \in Seq(Chars), is_table_uri_allowed(v),
           NEW l, l.scheme = v.scheme, l.segments = Segments(v.text)
    PROVE  Covered(l)
<1>1. CASE Unlisted
  BY <1>1 DEF Covered
<1>2. CASE ~Unlisted
  <2>1. PICK p \in ToSet(setting) \ {Blank} : MatchesPrefix(p, v)
    BY <1>2, ListOfSetting DEF is_table_uri_allowed
  <2>2. PICK i \in DOMAIN setting : p = setting[i] /\ p # Blank /\ p.text \in Seq(Chars)
    BY <1>2, ListOfSetting DEF ToSet
  <2>3. p.scheme = v.scheme /\ IsPrefix(Segments(p.text), Segments(v.text))
    BY <2>1, <2>2, MatchCovers
  <2> QED  BY <2>2, <2>3 DEF Covered, Covers
<1> QED  BY <1>1, <1>2

(* A tidy text that does not pass lies below no tidily written prefix.     *)
LEMMA RefusedIsUncovered ==
    ASSUME IInv, NEW v, ~is_table_uri_allowed(v),
           NEW l, l.scheme = v.scheme, l.segments \in Seq(Names),
           \/ v.text = Absolute(v.scheme, l.segments)
           \/ v.text = Absolute(v.scheme, l.segments) \o <<"/">>
    PROVE  ~TidilyCovered(l)
<1>1. ~Unlisted
  BY ListOfSetting DEF is_table_uri_allowed
<1>2. ASSUME NEW i \in DOMAIN setting, setting[i] # Blank, Tidy(setting[i]), Covers(setting[i], l)
      PROVE  FALSE
  <2>1. PICK p : p = setting[i]
    OBVIOUS
  <2>2. p \in ToSet(setting) \ {Blank} /\ p.text \in Seq(Chars)
    BY <1>1, <1>2, <2>1, ListOfSetting DEF ToSet
  <2>3. Tidy(p) /\ p.scheme = v.scheme /\ IsPrefix(Segments(p.text), l.segments)
    BY <1>2, <2>1 DEF Covers
  <2>4. PICK s \in Seq(Names) : s = l.segments
    OBVIOUS
  <2>5. MatchesPrefix(p, v)
    BY <2>2, <2>3, <2>4, TidyMatches
  <2> QED  BY <1>1, <2>2, <2>5, ListOfSetting DEF is_table_uri_allowed
<1> QED  BY <1>1, <1>2 DEF TidilyCovered

(* The verdicts that the invariant allows are exact.                       *)
LEMMA VerdictsExact == ASSUME IInv PROVE AllowlistExact
<1> SUFFICES ASSUME NEW r \in Requests
             PROVE  /\ status[r] = "OK" => Covered(Location(uri[r]))
                    /\ status[r] = "PERMISSION_DENIED" /\ (~HasSchemeMark(uri[r]) \/ ~HasDots(uri[r]))
                          => ~TidilyCovered(Location(uri[r]))
  BY DEF AllowlistExact
<1>1. PICK u \in Uris : u = uri[r]
  BY DEF IInv, TypeOK
<1>2. u.text \in Seq(Chars) /\ (HasSchemeMark(u) => Tidy(u) /\ u.scheme # "none")
  BY UrisAssumption DEF IsUri, HasSchemeMark
<1>3. PICK v : v = Normalized(u)
  OBVIOUS
<1>4. PICK l : l = Location(u)
  OBVIOUS
<1>5. /\ v.scheme = l.scheme /\ v.text = Absolute(l.scheme, l.segments)
      /\ v.text \in Seq(Chars) /\ Segments(v.text) = l.segments
  BY <1>2, <1>3, <1>4, NormalizedFacts
<1>6. /\ l.segments \in Seq(Names)
      /\ u.scheme # "none" => l.scheme = u.scheme
      /\ u.scheme # "none" /\ ~HasDots(u) => l.segments = Segments(u.text)
  BY <1>2, <1>4, LocationFacts
<1>7. /\ status[r] = "OK" => is_table_uri_allowed(v)
      /\ status[r] = "PERMISSION_DENIED" =>
            (HasSchemeMark(u) /\ ~is_table_uri_allowed(u)) \/ ~is_table_uri_allowed(v)
  BY <1>1, <1>3 DEF IInv, VerdictSound, RawRefused, Refused
<1>8. ASSUME status[r] = "OK" PROVE Covered(l)
  BY <1>5, <1>7, <1>8, AllowedIsCovered
<1>9. ASSUME status[r] = "PERMISSION_DENIED", ~HasSchemeMark(u) \/ ~HasDots(u)
      PROVE  ~TidilyCovered(l)
  <2>1. CASE ~is_table_uri_allowed(v)
    BY <1>5, <1>6, <2>1, RefusedIsUncovered
  <2>2. CASE HasSchemeMark(u) /\ ~is_table_uri_allowed(u)
    <3>1. l.scheme = u.scheme /\ l.segments = Segments(u.text) /\ Tidy(u)
      BY <1>2, <1>6, <1>9, <2>2
    <3>2. \/ u.text = Absolute(u.scheme, l.segments)
          \/ u.text = Absolute(u.scheme, l.segments) \o <<"/">>
      BY <3>1 DEF Tidy
    <3> QED  BY <1>6, <2>2, <3>1, <3>2, RefusedIsUncovered
  <2> QED  BY <1>7, <1>9, <2>1, <2>2
<1> QED  BY <1>1, <1>4, <1>8, <1>9

(* What is served lies at or below a configured prefix, and what lies      *)
(* there is not refused, for every spelling and every list                 *)
(* (storage.rs:43-67, server.rs:149-160).                                  *)
THEOREM AllowlistCorrect == Spec => []AllowlistExact
  BY VerdictsExact, InvariantCorrect, PTL

(* A directory outside the list was made for a refused or failed request   *)
(* whose URI has no "://" or has dot segments, for every spelling and      *)
(* every list (server.rs:129-152).                                         *)
THEOREM NoDirectoryCorrect == Spec => []NoDirectoryForRefused
<1>1. ASSUME IInv PROVE NoDirectoryForRefused
  <2> SUFFICES ASSUME NEW d \in dirs
               PROVE  \/ Covered(d)
                      \/ \E r \in Requests :
                            /\ status[r] \in {"PERMISSION_DENIED", "INVALID_ARGUMENT"} /\ Location(uri[r]) = d
                            /\ ~HasSchemeMark(uri[r]) \/ HasDots(uri[r])
    BY DEF NoDirectoryForRefused
  <2>1. PICK r \in Requests : status[r] # "none" /\ Location(uri[r]) = d /\ ~RawRefused(uri[r])
    BY <1>1 DEF IInv, VerdictSound
  <2>2. PICK u \in Uris : u = uri[r]
    BY <1>1 DEF IInv, TypeOK
  <2>3. u.text \in Seq(Chars) /\ (HasSchemeMark(u) => u.scheme # "none")
    BY UrisAssumption DEF IsUri, HasSchemeMark
  <2>4. CASE HasSchemeMark(u) /\ ~HasDots(u)
    <3>1. d.scheme = u.scheme /\ d.segments = Segments(u.text)
      BY <2>1, <2>2, <2>3, <2>4, LocationFacts
    <3>2. is_table_uri_allowed(u)
      BY <2>1, <2>2, <2>4 DEF RawRefused
    <3> QED  BY <1>1, <2>3, <3>1, <3>2, AllowedIsCovered
  <2>5. CASE status[r] = "OK"
    <3>1. AllowlistExact
      BY <1>1, VerdictsExact
    <3> QED  BY <2>1, <2>5, <3>1 DEF AllowlistExact
  <2>6. CASE status[r] # "OK" /\ (~HasSchemeMark(u) \/ HasDots(u))
    <3>1. status[r] \in {"PERMISSION_DENIED", "INVALID_ARGUMENT"}
      BY <1>1, <2>1, <2>6 DEF IInv, TypeOK
    <3> QED  BY <2>1, <2>2, <2>6, <3>1
  <2> QED  BY <2>4, <2>5, <2>6
<1> QED  BY <1>1, InvariantCorrect, PTL
=============================================================================
