--------------------------- MODULE ReadPathProofs ---------------------------
(***************************************************************************)
(* Proofs about the read RPCs, for any set of files, batch size, channel   *)
(* capacity and history of the table: what a client is sent is one version *)
(* of the table, in the stream's grammar, complete unless it is told       *)
(* otherwise, and no older than its call.                                  *)
(***************************************************************************)
EXTENDS ReadPath, SequenceLemmas, TLAPS, SequenceTheorems

(***************************************************************************)
(* Lemmas about streams of items.                                          *)
(***************************************************************************)
(* The items of a stream have files.                                       *)
LEMMA ItemTypes ==
    ASSUME NEW s \in Seq(Items)
    PROVE  /\ Len(s) \in Nat
           /\ \A i \in 1 .. Len(s) : /\ s[i] \in Items /\ s[i].files \in Seq(Files)
                                     /\ s[i].kind \in {"header", "batch", "err"}
                                     /\ s[i].versions \in Nat
<1>1. Len(s) \in Nat /\ \A i \in 1 .. Len(s) : s[i] \in Items
  BY LenProperties, ElementOfSeq
<1> QED  BY <1>1 DEF Items

(* The items that the handlers make.                                       *)
LEMMA MadeItems ==
    /\ \A n \in Nat : Header(n) \in Items
    /\ \A b \in Seq(Files) : Batch(b) \in Items
    /\ \A c \in Codes : Failure(c) \in Items
  BY EmptySeq DEF Header, Batch, Failure, Items, Codes

(* A batch that gets one more file.                                        *)
LEMMA BatchAppended ==
    ASSUME NEW b \in Seq(Files), NEW f \in Files
    PROVE  /\ Append(b, f) \in Seq(Files) /\ Len(Append(b, f)) = Len(b) + 1
           /\ ToSet(Append(b, f)) = ToSet(b) \cup {f}
           /\ IsInjective(b) /\ f \notin ToSet(b) => IsInjective(Append(b, f))
<1> DEFINE a == Append(b, f)
<1>n. PICK n \in Nat : n = Len(b)
  BY LenProperties
<1>1. /\ a \in Seq(Files) /\ Len(a) = n + 1
      /\ \A i \in 1 .. n : a[i] = b[i]
      /\ a[n + 1] = f
  BY <1>n, AppendProperties
<1>2. DOMAIN b = 1 .. n /\ DOMAIN a = 1 .. n + 1
  BY <1>n, <1>1, LenProperties
<1> HIDE DEF a
<1>3. \A i \in 1 .. n + 1 : i \in 1 .. n \/ i = n + 1
  OBVIOUS
<1>4. \A i \in 1 .. n : i \in 1 .. n + 1
  OBVIOUS
<1>5. n + 1 \in 1 .. n + 1
  OBVIOUS
<1>6. ToSet(a) = ToSet(b) \cup {f}
  <2>1. ToSet(a) = {a[i] : i \in 1 .. n + 1} /\ ToSet(b) = {b[i] : i \in 1 .. n}
    BY <1>2 DEF ToSet
  <2>2. \A x : x \in ToSet(a) => x \in ToSet(b) \cup {f}
    BY <2>1, <1>1, <1>3
  <2>3. \A x : x \in ToSet(b) \cup {f} => x \in ToSet(a)
    BY <2>1, <1>1, <1>4, <1>5
  <2> QED  BY <2>2, <2>3
<1>7. ASSUME IsInjective(b), f \notin ToSet(b) PROVE IsInjective(a)
  <2>1. \A i \in 1 .. n : b[i] # f
    BY <1>7, <1>2 DEF ToSet
  <2>2. \A i, j \in 1 .. n : b[i] = b[j] => i = j
    BY <1>7, <1>2 DEF IsInjective
  <2>3. \A i, j \in 1 .. n + 1 : a[i] = a[j] => i = j
    BY <2>1, <2>2, <1>1, <1>3
  <2> QED  BY <2>3, <1>2 DEF IsInjective
<1> QED  BY <1>n, <1>1, <1>6, <1>7 DEF a

(* No file is in a batch of none.                                          *)
LEMMA EmptyBatch == ToSet(<<>>) = {} /\ IsInjective(<<>>)
<1>1. DOMAIN <<>> = {}
  <2>1. <<>> \in Seq({}) /\ Len(<<>>) = 0
    BY EmptySeq
  <2>2. DOMAIN <<>> = 1 .. 0
    BY <2>1, LenProperties
  <2> QED  BY <2>2
<1> QED  BY <1>1 DEF ToSet, IsInjective

(* A stream that gets one more item.                                       *)
LEMMA StreamAppended ==
    ASSUME NEW s \in Seq(Items), NEW x \in Items
    PROVE  /\ Append(s, x) \in Seq(Items) /\ Append(s, x) # <<>> /\ Len(Append(s, x)) = Len(s) + 1
           /\ \A i \in 1 .. Len(s) : Append(s, x)[i] = s[i]
           /\ Append(s, x)[Len(s) + 1] = x
           /\ s # <<>> => Append(s, x)[1] = s[1]
           /\ s = <<>> => Append(s, x)[1] = x
           /\ FilesOf(Append(s, x)) = FilesOf(s) \cup ToSet(x.files)
           /\ /\ NothingTwice(s) /\ IsInjective(x.files) /\ ToSet(x.files) \cap FilesOf(s) = {}
              => NothingTwice(Append(s, x))
<1> DEFINE a == Append(s, x)
<1>n. PICK n \in Nat : n = Len(s)
  BY LenProperties
<1>1. /\ a \in Seq(Items) /\ a # <<>> /\ Len(a) = n + 1
      /\ \A i \in 1 .. n : a[i] = s[i]
      /\ a[n + 1] = x
  BY <1>n, AppendProperties
<1> HIDE DEF a
<1>2. s # <<>> => 1 \in 1 .. n
  BY <1>n, EmptySeq
<1>3. s = <<>> => n = 0
  BY <1>n, EmptySeq
<1>4. \A i \in 1 .. n + 1 : i \in 1 .. n \/ i = n + 1
  OBVIOUS
<1>5. (\A i \in 1 .. n : i \in 1 .. n + 1) /\ n + 1 \in 1 .. n + 1
  OBVIOUS
<1>6. FilesOf(a) = FilesOf(s) \cup ToSet(x.files)
  <2>1. FilesOf(a) = UNION {ToSet(a[i].files) : i \in 1 .. n + 1} /\ FilesOf(s) = UNION {ToSet(s[i].files) : i \in 1 .. n}
    BY <1>n, <1>1 DEF FilesOf
  <2>2. ASSUME NEW f \in FilesOf(a) PROVE f \in FilesOf(s) \cup ToSet(x.files)
    <3>1. PICK i \in 1 .. n + 1 : f \in ToSet(a[i].files)
      BY <2>1
    <3> QED  BY <3>1, <2>1, <1>1, <1>4
  <2>3. ASSUME NEW f \in FilesOf(s) \cup ToSet(x.files) PROVE f \in FilesOf(a)
    <3>1. CASE f \in FilesOf(s)
      <4>1. PICK i \in 1 .. n : f \in ToSet(s[i].files)
        BY <2>1, <3>1
      <4> QED  BY <4>1, <2>1, <1>1, <1>5
    <3>2. CASE f \in ToSet(x.files)
      BY <3>2, <2>1, <1>1, <1>5
    <3> QED  BY <2>3, <3>1, <3>2
  <2> QED  BY <2>2, <2>3
<1>7. ASSUME NothingTwice(s), IsInjective(x.files), ToSet(x.files) \cap FilesOf(s) = {}
      PROVE  NothingTwice(a)
  <2>1. \A i \in 1 .. n + 1 : IsInjective(a[i].files)
    BY <1>1, <1>4, <1>7, <1>n DEF NothingTwice
  <2>2. \A i \in 1 .. n : ToSet(s[i].files) \subseteq FilesOf(s)
    BY <1>n DEF FilesOf
  <2>3. \A i \in 1 .. n : ToSet(s[i].files) \cap ToSet(x.files) = {}
    BY <2>2, <1>7
  <2>4. ASSUME NEW i \in 1 .. n + 1, NEW j \in 1 .. n + 1, i # j
        PROVE  ToSet(a[i].files) \cap ToSet(a[j].files) = {}
    <3>1. CASE i \in 1 .. n /\ j \in 1 .. n
      BY <2>4, <3>1, <1>1, <1>7, <1>n DEF NothingTwice
    <3>2. CASE i \in 1 .. n /\ j = n + 1
      BY <3>2, <1>1, <2>3
    <3>3. CASE i = n + 1 /\ j \in 1 .. n
      BY <3>3, <1>1, <2>3
    <3> QED  BY <2>4, <3>1, <3>2, <3>3, <1>4
  <2> QED  BY <2>1, <2>4, <1>1 DEF NothingTwice
<1> QED  BY <1>n, <1>1, <1>2, <1>3, <1>6, <1>7 DEF a

(* An item without files adds none.                                        *)
LEMMA FilelessAppended ==
    ASSUME NEW s \in Seq(Items), NEW x \in Items, x.files = <<>>, NothingTwice(s)
    PROVE  FilesOf(Append(s, x)) = FilesOf(s) /\ NothingTwice(Append(s, x))
<1>1. IsInjective(x.files) /\ ToSet(x.files) = {}
  BY EmptyBatch
<1>2. FilesOf(Append(s, x)) = FilesOf(s) \cup ToSet(x.files)
  BY StreamAppended
<1>3. NothingTwice(Append(s, x))
  BY <1>1, StreamAppended
<1> QED  BY <1>1, <1>2, <1>3

(* What holds of a stream holds of the part that was received.             *)
LEMMA StreamPrefix ==
    ASSUME NEW s \in Seq(Items), NEW t \in Seq(Items)
    PROVE  /\ s \o t \in Seq(Items)
           /\ Len(s) \in Nat /\ Len(s \o t) \in Nat /\ Len(s) <= Len(s \o t)
           /\ \A i \in 1 .. Len(s) : i \in 1 .. Len(s \o t) /\ (s \o t)[i] = s[i]
           /\ s # <<>> => s \o t # <<>> /\ (s \o t)[1] = s[1]
           /\ FilesOf(s) \subseteq FilesOf(s \o t)
           /\ NothingTwice(s \o t) => NothingTwice(s)
           /\ Shape(s \o t) => Shape(s)
<1> DEFINE a == s \o t
<1>n. PICK n \in Nat, m \in Nat : n = Len(s) /\ m = Len(t)
  BY LenProperties
<1>1. a \in Seq(Items) /\ Len(a) = n + m /\ \A i \in 1 .. n + m : a[i] = IF i <= n THEN s[i] ELSE t[i - n]
  BY <1>n, ConcatProperties
<1> HIDE DEF a
<1>2. \A i \in 1 .. n : i \in 1 .. n + m /\ a[i] = s[i]
  BY <1>1
<1>3. s # <<>> => 1 \in 1 .. n /\ a # <<>>
  BY <1>n, <1>1, EmptySeq
<1>4. FilesOf(s) \subseteq FilesOf(a)
  <2>1. ASSUME NEW f \in FilesOf(s) PROVE f \in FilesOf(a)
    <3>1. PICK i \in 1 .. n : f \in ToSet(s[i].files)
      BY <1>n DEF FilesOf
    <3> QED  BY <3>1, <1>1, <1>2 DEF FilesOf
  <2> QED  BY <2>1
<1>5. NothingTwice(a) => NothingTwice(s)
  BY <1>1, <1>2, <1>n DEF NothingTwice
<1>6. ASSUME Shape(a) PROVE Shape(s)
  <2> SUFFICES ASSUME NEW i \in 1 .. n
               PROVE  /\ s[i].kind = "header" <=> i = 1 /\ s[1].kind # "err"
                      /\ s[i].kind = "err" => i = n
                      /\ s[i].kind = "batch" =>
                            /\ Len(s[i].files) \in 1 .. FILE_BATCH_SIZE
                            /\ i + 1 <= n /\ s[i + 1].kind = "batch" => Len(s[i].files) = FILE_BATCH_SIZE
    BY <1>n DEF Shape
  <2>1. i \in 1 .. n + m /\ a[i] = s[i] /\ 1 \in 1 .. n /\ a[1] = s[1]
    BY <1>2
  <2>2. /\ a[i].kind = "header" <=> i = 1 /\ a[1].kind # "err"
        /\ a[i].kind = "err" => i = n + m
        /\ a[i].kind = "batch" =>
              /\ Len(a[i].files) \in 1 .. FILE_BATCH_SIZE
              /\ i + 1 <= n + m /\ a[i + 1].kind = "batch" => Len(a[i].files) = FILE_BATCH_SIZE
    BY <1>1, <1>6, <2>1 DEF Shape
  <2>3. i = n + m => i = n
    OBVIOUS
  <2>4. i + 1 <= n => i + 1 <= n + m /\ a[i + 1] = s[i + 1]
    <3>1. i + 1 <= n => i + 1 \in 1 .. n
      OBVIOUS
    <3> QED  BY <3>1, <1>2
  <2> QED  BY <2>1, <2>2, <2>3, <2>4
<1> QED  BY <1>n, <1>1, <1>2, <1>3, <1>4, <1>5, <1>6 DEF a

(* What may come next in a stream that has no error yet.                   *)
LEMMA ShapeAppended ==
    ASSUME NEW s \in Seq(Items), NEW x \in Items, Shape(s),
           \A i \in 1 .. Len(s) : s[i].kind # "err" /\ (s[i].kind = "batch" => Len(s[i].files) = FILE_BATCH_SIZE),
           s = <<>> => x.kind \in {"header", "err"},
           s # <<>> => x.kind \in {"batch", "err"},
           x.kind = "batch" => Len(x.files) \in 1 .. FILE_BATCH_SIZE
    PROVE  Shape(Append(s, x))
<1> DEFINE a == Append(s, x)
<1>n. PICK n \in Nat : n = Len(s)
  BY LenProperties
<1>1. /\ Len(a) = n + 1
      /\ \A i \in 1 .. n : a[i] = s[i]
      /\ a[n + 1] = x
  BY <1>n, StreamAppended
<1> HIDE DEF a
<1>2. ASSUME NEW i \in 1 .. n
      PROVE  /\ a[i].kind = "header" <=> i = 1 /\ a[1].kind # "err"
             /\ a[i].kind # "err"
             /\ a[i].kind = "batch" => Len(a[i].files) \in 1 .. FILE_BATCH_SIZE /\ Len(a[i].files) = FILE_BATCH_SIZE
  <2>1. 1 \in 1 .. n /\ a[1] = s[1] /\ a[i] = s[i]
    BY <1>1
  <2> QED  BY <2>1, <1>n DEF Shape
<1>3. /\ a[n + 1].kind = "header" <=> n + 1 = 1 /\ a[1].kind # "err"
      /\ a[n + 1].kind = "batch" => Len(a[n + 1].files) \in 1 .. FILE_BATCH_SIZE
  <2>1. CASE s = <<>>
    <3>1. n = 0 /\ a[1] = x
      BY <2>1, <1>1, <1>n, EmptySeq
    <3> QED  BY <2>1, <3>1, <1>1
  <2>2. CASE s # <<>>
    <3>1. n # 0
      BY <2>2, <1>n, EmptySeq
    <3> QED  BY <2>2, <3>1, <1>1
  <2> QED  BY <2>1, <2>2
<1>4. \A i \in 1 .. n + 1 : i \in 1 .. n \/ (i = n + 1 /\ ~(i + 1 <= n + 1))
  OBVIOUS
<1>5. ASSUME NEW i \in 1 .. n + 1
      PROVE  /\ a[i].kind = "header" <=> i = 1 /\ a[1].kind # "err"
             /\ a[i].kind = "err" => i = n + 1
             /\ a[i].kind = "batch" =>
                   /\ Len(a[i].files) \in 1 .. FILE_BATCH_SIZE
                   /\ i + 1 <= n + 1 /\ a[i + 1].kind = "batch" => Len(a[i].files) = FILE_BATCH_SIZE
  <2>1. CASE i \in 1 .. n
    BY <2>1, <1>2
  <2>2. CASE i = n + 1 /\ ~(i + 1 <= n + 1)
    BY <2>2, <1>3
  <2> QED  BY <2>1, <2>2, <1>4
<1>6. Shape(a)
  BY <1>1, <1>5 DEF Shape
<1> QED  BY <1>6 DEF a

(* An item sent is the stream's next one, and receiving changes nothing.   *)
LEMMA StreamSteps ==
    ASSUME NEW g \in Seq(Items), NEW c \in Seq(Items)
    PROVE  /\ g \o <<>> = g
           /\ \A x \in Items : g \o Append(c, x) = Append(g \o c, x)
           /\ c # <<>> => Append(g, Head(c)) \o Tail(c) = g \o c
<1>n. PICK n \in Nat, m \in Nat : n = Len(g) /\ m = Len(c)
  BY LenProperties
<1>1. g \o <<>> = g
  BY ConcatEmptySeq
<1>2. ASSUME NEW x \in Items PROVE g \o Append(c, x) = Append(g \o c, x)
  <2>1. Append(c, x) = c \o <<x>> /\ <<x>> \in Seq(Items) /\ g \o c \in Seq(Items)
    BY AppendIsConcat, ConcatProperties
  <2>2. Append(g \o c, x) = (g \o c) \o <<x>>
    BY <2>1, AppendIsConcat
  <2>3. (g \o c) \o <<x>> = g \o (c \o <<x>>)
    BY <2>1, ConcatAssociative
  <2> QED  BY <2>1, <2>2, <2>3
<1>3. ASSUME c # <<>> PROVE Append(g, Head(c)) \o Tail(c) = g \o c
  <2>0. m \in Nat \ {0} /\ 1 \in 1 .. m
    BY <1>3, <1>n, EmptySeq
  <2>1. Head(c) \in Items /\ Tail(c) \in Seq(Items) /\ c = <<Head(c)>> \o Tail(c)
    <3>1. SubSeq(c, 1, m) = <<c[1]>> \o SubSeq(c, 1 + 1, m)
      BY <1>n, <2>0, SubSeqRecursiveFirst
    <3>2. SubSeq(c, 1, m) = c
      BY <1>n, SubSeqFull
    <3>3. Tail(c) = SubSeq(c, 2, m) /\ Head(c) = c[1]
      BY <1>3, <1>n, TailIsSubSeq
    <3>4. Head(c) \in Items /\ Tail(c) \in Seq(Items)
      BY <1>3, HeadTailProperties
    <3> QED  BY <3>1, <3>2, <3>3, <3>4
  <2>2. <<Head(c)>> \in Seq(Items) /\ Append(g, Head(c)) = g \o <<Head(c)>>
    BY <2>1, AppendIsConcat
  <2>3. (g \o <<Head(c)>>) \o Tail(c) = g \o (<<Head(c)>> \o Tail(c))
    BY <2>1, <2>2, ConcatAssociative
  <2> QED  BY <2>1, <2>2, <2>3
<1> QED  BY <1>1, <1>2, <1>3

(* The stream of a read.                                                   *)
LEMMA StreamFacts ==
    ASSUME TypeOK
    PROVE  /\ Stream \in Seq(Items) /\ Len(Stream) \in Nat
           /\ Stream = <<>> <=> got = <<>> /\ chan = <<>>
           /\ Stream # <<>> => 1 \in 1 .. Len(Stream)
           /\ chan = <<>> => Stream = got
           /\ Len(table) \in Nat /\ floor \in Nat /\ snapshot \in Nat
<1>1. got \in Seq(Items) /\ chan \in Seq(Items) /\ table \in Seq(SUBSET Files)
  BY DEF TypeOK
<1>2. Stream \in Seq(Items) /\ Len(Stream) \in Nat /\ Len(table) \in Nat
  BY <1>1, ConcatProperties, LenProperties DEF Stream
<1>3. Stream = <<>> <=> got = <<>> /\ chan = <<>>
  BY <1>1, ConcatEqualIffEmpty DEF Stream
<1>4. Stream # <<>> => 1 \in 1 .. Len(Stream)
  BY <1>2, EmptySeq
<1>5. chan = <<>> => Stream = got
  BY <1>1, StreamSteps DEF Stream
<1> QED  BY <1>2, <1>3, <1>4, <1>5 DEF TypeOK

(***************************************************************************)
(* What an item does to the invariant.                                     *)
(***************************************************************************)
(* No error in the stream yet, and every batch full.                       *)
Running(s) ==
    \A i \in 1 .. Len(s) : s[i].kind # "err" /\ (s[i].kind = "batch" => Len(s[i].files) = FILE_BATCH_SIZE)

(* Each item alone agrees with the invariant.                              *)
ItemsSound(s, n) ==
    \A i \in 1 .. Len(s) : (s[i].kind # "batch" => s[i].files = <<>>) /\ (s[i].code = "NOT_FOUND" => n = 0)

LEMMA ItemsSoundAppended ==
    ASSUME NEW s \in Seq(Items), NEW x \in Items, NEW n, ItemsSound(s, n),
           x.kind # "batch" => x.files = <<>>, x.code = "NOT_FOUND" => n = 0
    PROVE  ItemsSound(Append(s, x), n)
<1>n. PICK k \in Nat : k = Len(s)
  BY LenProperties
<1>1. Len(Append(s, x)) = k + 1 /\ Append(s, x)[k + 1] = x /\ \A i \in 1 .. k : Append(s, x)[i] = s[i]
  BY <1>n, StreamAppended
<1>2. \A i \in 1 .. k + 1 : i \in 1 .. k \/ i = k + 1
  OBVIOUS
<1>3. \A i \in 1 .. k : (s[i].kind # "batch" => s[i].files = <<>>) /\ (s[i].code = "NOT_FOUND" => n = 0)
  BY <1>n DEF ItemsSound
<1>4. ASSUME NEW a, a = Append(s, x) PROVE ItemsSound(a, n)
  BY <1>1, <1>2, <1>3, <1>4 DEF ItemsSound
<1> QED  BY <1>4

(* The error item, or get_table's error answer, ends the stream.           *)
LEMMA ErrorEnds ==
    ASSUME IInv, NEW c \in Codes, Running(Stream), Stream' = Append(Stream, Failure(c)),
           pc' = "done", table' = table,
           floor' = floor \/ Stream = <<>>, c = "NOT_FOUND" => floor' = 0
    PROVE  StreamSound' /\ FilesSound' /\ NothingLost'
<1>0. TypeOK /\ Stream \in Seq(Items) /\ Failure(c) \in Items
  BY StreamFacts, MadeItems DEF IInv
<1>1. Failure(c).kind = "err" /\ Failure(c).files = <<>> /\ Failure(c).code = c
  BY DEF Failure
<1>x. PICK x \in Items : x = Failure(c)
  BY <1>0
<1>2. /\ Stream' # <<>> /\ Len(Stream') = Len(Stream) + 1
      /\ Stream'[Len(Stream) + 1] = x
      /\ Stream # <<>> => Stream'[1] = Stream[1]
      /\ Stream = <<>> => Stream'[1] = x
      /\ FilesOf(Stream') = FilesOf(Stream)
      /\ NothingTwice(Stream')
  <2>1. Stream' = Append(Stream, x) /\ x.files = <<>> /\ NothingTwice(Stream)
    BY <1>1, <1>x DEF IInv, FilesSound
  <2>2. FilesOf(Stream') = FilesOf(Stream) /\ NothingTwice(Stream')
    BY <1>0, <2>1, FilelessAppended
  <2> QED  BY <1>0, <2>1, <2>2, StreamAppended
<1>3. Shape(Stream')
  BY <1>0, <1>1, ShapeAppended DEF IInv, StreamSound, Running
<1>4. ItemsSound(Stream', floor')
  <2>1. ItemsSound(Stream, floor')
    <3>1. CASE floor' = floor
      BY <3>1 DEF IInv, StreamSound, ItemsSound
    <3>2. CASE Stream = <<>>
      BY <3>2, EmptySeq DEF ItemsSound
    <3> QED  BY <3>1, <3>2
  <2> QED  BY <2>1, <1>0, <1>1, ItemsSoundAppended
<1>5. StreamSound'
  BY <1>3, <1>4 DEF StreamSound, Listing, ItemsSound
<1>6. FilesSound'
  <2>1. CASE Stream = <<>>
    <3>1. Stream'[1].kind = "err"
      BY <2>1, <1>1, <1>2, <1>x
    <3> QED  BY <3>1, <1>2 DEF FilesSound, Listing
  <2>2. CASE Stream # <<>>
    BY <2>2, <1>2 DEF IInv, FilesSound, Listing
  <2> QED  BY <2>1, <2>2
<1>7. Last(Stream').kind = "err"
  BY <1>1, <1>2, <1>x DEF Last
<1>8. NothingLost'
  BY <1>2, <1>7 DEF NothingLost, Listing
<1> QED  BY <1>5, <1>6, <1>8

(* The header, or get_table's answer, begins it.                           *)
LEMMA HeaderItem ==
    ASSUME TypeOK, Stream = <<>>, NEW n \in 1 .. Len(table), Stream' = Append(Stream, Header(n))
    PROVE  /\ Stream' # <<>> /\ Len(Stream') = 1 /\ Stream'[1] = Header(n)
           /\ Shape(Stream') /\ NothingTwice(Stream') /\ FilesOf(Stream') = {}
           /\ Running(Stream') /\ \A m : ItemsSound(Stream', m)
<1>0. Stream \in Seq(Items) /\ Len(Stream) = 0 /\ n \in Nat
  BY StreamFacts, EmptySeq
<1>1. Header(n) \in Items /\ Header(n).kind = "header" /\ Header(n).files = <<>> /\ Header(n).code = "OK"
  BY <1>0, MadeItems DEF Header
<1>x. PICK x \in Items : x = Header(n)
  BY <1>1
<1>s. PICK s \in Seq(Items) : s = Stream /\ Len(s) = 0
  BY <1>0
<1>2. FilesOf(s) = {} /\ NothingTwice(s) /\ Shape(s) /\ Running(s)
  BY <1>s DEF FilesOf, NothingTwice, Shape, Running
<1>3. /\ Stream' # <<>> /\ Len(Stream') = 1 /\ Stream'[1] = Header(n)
      /\ FilesOf(Stream') = {} /\ NothingTwice(Stream')
  <2>1. Append(s, x) # <<>> /\ Len(Append(s, x)) = 1 /\ Append(s, x)[1] = x
    <3>1. Append(s, x) # <<>> /\ Len(Append(s, x)) = Len(s) + 1 /\ Append(s, x)[Len(s) + 1] = x
      BY StreamAppended
    <3> QED  BY <3>1, <1>s
  <2>2. FilesOf(Append(s, x)) = {} /\ NothingTwice(Append(s, x))
    <3>1. x.files = <<>>
      BY <1>1, <1>x
    <3> QED  BY <3>1, <1>2, FilelessAppended
  <2> QED  BY <2>1, <2>2, <1>s, <1>x
<1>4. Shape(Stream')
  <2>1. x.kind = "header" /\ s = <<>>
    BY <1>1, <1>x, <1>s
  <2>2. Shape(Append(s, x))
    BY <2>1, <1>2, ShapeAppended DEF Running
  <2> QED  BY <2>2, <1>s, <1>x
<1>5. Running(Stream')
  BY <1>1, <1>3 DEF Running
<1>6. \A m : ItemsSound(Stream', m)
  BY <1>1, <1>3 DEF ItemsSound
<1> QED  BY <1>3, <1>4, <1>5, <1>6

(* A batch goes on with it.                                                *)
LEMMA BatchItem ==
    ASSUME IInv, pc \in {"flush", "tail"}, Stream # <<>>, Stream' = Append(Stream, Batch(batch))
    PROVE  /\ Stream' # <<>> /\ Stream'[1] = Stream[1] /\ Stream[1].kind = "header"
           /\ Shape(Stream') /\ NothingTwice(Stream') /\ FilesOf(Stream') = FilesOf(Stream) \cup ToSet(batch)
           /\ pc = "flush" => Running(Stream')
           /\ ItemsSound(Stream', floor)
<1>0. TypeOK /\ Listing /\ Stream \in Seq(Items) /\ batch \in Seq(Files) /\ Batch(batch) \in Items /\ Len(Stream) \in Nat
  BY StreamFacts, MadeItems DEF IInv, TypeOK, Listing
<1>1. Batch(batch).kind = "batch" /\ Batch(batch).files = batch /\ Batch(batch).code = "OK"
  BY DEF Batch
<1>2. Len(batch) \in 1 .. FILE_BATCH_SIZE
  <2>1. Len(batch) \in Nat /\ Len(batch) <= FILE_BATCH_SIZE /\ FILE_BATCH_SIZE \in Nat \ {0}
    BY <1>0, LenProperties, BatchAssumption DEF TypeOK
  <2>2. pc = "tail" => Len(batch) # 0
    BY <1>0, EmptySeq DEF IInv, StreamSound
  <2>3. pc = "flush" => Len(batch) # 0
    BY <2>1 DEF IInv, StreamSound
  <2> QED  BY <2>1, <2>2, <2>3
<1>3. Running(Stream) /\ Shape(Stream) /\ ItemsSound(Stream, floor)
  BY <1>0 DEF IInv, StreamSound, Running, ItemsSound
<1>4. IsInjective(batch) /\ ToSet(batch) \cap FilesOf(Stream) = {} /\ NothingTwice(Stream)
  BY <1>0 DEF IInv, FilesSound
<1>x. PICK x : x = Batch(batch)
  OBVIOUS
<1>5. /\ Stream' # <<>> /\ Len(Stream') = Len(Stream) + 1 /\ Stream'[1] = Stream[1]
      /\ \A i \in 1 .. Len(Stream) : Stream'[i] = Stream[i]
      /\ Stream'[Len(Stream) + 1] = x
      /\ FilesOf(Stream') = FilesOf(Stream) \cup ToSet(batch) /\ NothingTwice(Stream')
  BY <1>0, <1>1, <1>4, <1>x, StreamAppended
<1>6. Shape(Stream')
  BY <1>0, <1>1, <1>2, <1>3, ShapeAppended DEF Running
<1>7. Stream[1].kind = "header"
  BY <1>0, <1>3, StreamFacts DEF Shape, Running
<1>8. pc = "flush" => Running(Stream')
  <2>1. pc = "flush" => x.kind # "err" /\ Len(x.files) = FILE_BATCH_SIZE
    BY <1>1, <1>x DEF IInv, StreamSound
  <2>2. \A i \in 1 .. Len(Stream) + 1 : i \in 1 .. Len(Stream) \/ i = Len(Stream) + 1
    BY <1>0
  <2> QED  BY <2>1, <2>2, <1>3, <1>5 DEF Running
<1>9. ItemsSound(Stream', floor)
  BY <1>0, <1>1, <1>3, ItemsSoundAppended
<1> QED  BY <1>5, <1>6, <1>7, <1>8, <1>9

(***************************************************************************)
(* The invariant holds at first, and every step keeps it.                  *)
(***************************************************************************)
(* An empty stream agrees with every shape.                                *)
LEMMA EmptyStream ==
    ASSUME NEW s \in Seq(Items), s = <<>>
    PROVE  Shape(s) /\ NothingTwice(s) /\ FilesOf(s) = {} /\ Running(s) /\ \A n : ItemsSound(s, n)
<1>1. Len(s) = 0
  BY EmptySeq
<1> QED  BY <1>1 DEF Shape, NothingTwice, FilesOf, Running, ItemsSound

LEMMA InitIInv == Init => IInv
<1> SUFFICES ASSUME Init PROVE IInv
  OBVIOUS
<1>1. TypeOK
  BY EmptySeq, BatchAssumption, CapacityAssumption DEF Init, TypeOK, Codes
<1>2. Stream = <<>> /\ Stream \in Seq(Items)
  BY <1>1, StreamFacts DEF Init
<1>3. StageSound /\ StreamSound
  BY <1>2, EmptyStream DEF Init, StageSound, StreamSound, Listing, ItemsSound, Running
<1>4. FilesSound /\ NothingLost
  BY <1>2, EmptyStream DEF Init, FilesSound, NothingLost, Listing
<1> QED  BY <1>1, <1>3, <1>4 DEF IInv

(* A new version changes none of the earlier ones.                         *)
LEMMA CommitIInv == ASSUME IInv, Commit PROVE IInv'
<1>1. PICK A \in SUBSET Files : table' = Append(table, A)
  BY DEF Commit
<1>n. PICK n \in Nat : n = Len(table)
  BY StreamFacts DEF IInv
<1>2. table \in Seq(SUBSET Files)
  BY DEF IInv, TypeOK
<1>3. /\ table' \in Seq(SUBSET Files) /\ Len(table') = n + 1 /\ table' # <<>>
      /\ \A v \in 1 .. n : table'[v] = table[v]
  BY <1>1, <1>2, <1>n, AppendProperties, EmptySeq
<1>4. Stream' = Stream
  BY DEF Stream, Commit
<1>5. TypeOK'
  BY <1>3, <1>n DEF IInv, TypeOK, Commit
<1>6. StageSound'
  BY <1>3, <1>4, <1>n DEF IInv, StageSound, Listing, Commit
<1>7. StreamSound'
  BY <1>4 DEF IInv, StreamSound, Listing, Commit
<1>8. Stream # <<>> /\ Stream[1].kind = "header" =>
         /\ Stream[1].versions \in 1 .. n /\ Stream[1].versions \in floor .. n + 1
         /\ table'[Stream[1].versions] = table[Stream[1].versions]
  <2>1. Stream # <<>> /\ Stream[1].kind = "header" =>
          Stream[1].versions \in floor .. n /\ Stream[1].versions # 0 /\ floor \in Nat
    BY <1>n, StreamFacts DEF IInv, FilesSound
  <2>2. ASSUME NEW v \in floor .. n, v # 0, floor \in Nat PROVE v \in 1 .. n /\ v \in floor .. n + 1
    BY <2>2
  <2> QED  BY <2>1, <2>2, <1>3
<1>9. pc = "header" \/ Listing => snapshot \in 1 .. n /\ table'[snapshot] = table[snapshot]
  BY <1>3, <1>n DEF IInv, StageSound
<1>10. pc' = pc /\ floor' = floor /\ snapshot' = snapshot /\ unread' = unread /\ batch' = batch /\ rx' = rx /\ rpc' = rpc
  BY DEF Commit
<1>11. FilesSound'
  BY <1>3, <1>4, <1>8, <1>9, <1>10 DEF IInv, FilesSound, Listing
<1>12. NothingLost'
  <2>1. Stream # <<>> /\ Last(Stream).kind # "err" => Last(Stream').kind = Last(Stream).kind
    BY <1>4
  <2> QED  BY <1>4, <1>8, <1>9, <1>10 DEF IInv, NothingLost, Listing
<1> QED  BY <1>5, <1>6, <1>7, <1>11, <1>12 DEF IInv

LEMMA RejectUriIInv == ASSUME IInv, RejectUri PROVE IInv'
<1>1. PICK c \in {"INVALID_ARGUMENT", "PERMISSION_DENIED"} : got' = <<Failure(c)>>
  BY DEF RejectUri
<1>2. pc = "idle" /\ Stream = <<>> /\ chan = <<>> /\ got = <<>> /\ Stream \in Seq(Items)
  BY StreamFacts DEF IInv, StageSound, RejectUri
<1>3. c \in Codes /\ Failure(c) \in Items /\ c # "NOT_FOUND"
  BY MadeItems DEF Codes
<1>4. got' \in Seq(Items) /\ got' = Append(Stream, Failure(c))
  BY <1>1, <1>2, <1>3
<1>5. Stream' = Append(Stream, Failure(c))
  BY <1>2, <1>4, StreamSteps DEF Stream, RejectUri
<1>6. Running(Stream)
  BY <1>2, EmptyStream
<1>7. StreamSound' /\ FilesSound' /\ NothingLost'
  BY <1>2, <1>3, <1>5, <1>6, ErrorEnds DEF RejectUri
<1>8. TypeOK'
  BY <1>2, <1>4, StreamFacts DEF IInv, TypeOK, RejectUri
<1>9. StageSound'
  BY <1>2 DEF IInv, StageSound, RejectUri, Listing
<1> QED  BY <1>7, <1>8, <1>9 DEF IInv

LEMMA BeginIInv == ASSUME IInv, Begin PROVE IInv'
<1>1. pc = "idle" /\ Stream = <<>> /\ chan = <<>> /\ batch = <<>> /\ Stream \in Seq(Items) /\ Len(table) \in Nat
  BY StreamFacts DEF IInv, StageSound, Begin
<1>2. Stream' = Stream
  BY DEF Stream, Begin
<1>3. TypeOK'
  BY <1>1 DEF IInv, TypeOK, Begin
<1>4. StageSound'
  BY <1>1, <1>2 DEF IInv, StageSound, Begin, Listing
<1>5. StreamSound'
  BY <1>1, <1>2, EmptyStream DEF StreamSound, Begin, Listing, ItemsSound
<1>6. FilesSound' /\ NothingLost'
  BY <1>1, <1>2, EmptyStream DEF FilesSound, NothingLost, Begin, Listing
<1> QED  BY <1>3, <1>4, <1>5, <1>6 DEF IInv

(* The handler fails before it has sent anything.                          *)
LEMMA FailsIInv ==
    ASSUME IInv, pc \in {"exists", "open"}, NEW c \in Codes, Fails(c), c = "NOT_FOUND" => floor = 0,
           UNCHANGED <<table, rpc, floor, snapshot, unread, batch, chan>>
    PROVE  IInv'
<1>1. Stream = <<>> /\ chan = <<>> /\ got = <<>> /\ batch = <<>> /\ Stream \in Seq(Items) /\ Failure(c) \in Items
  BY StreamFacts, MadeItems DEF IInv, StageSound
<1>2. CASE /\ rpc = "get" /\ pc' = "done" /\ got' = Append(got, Failure(c)) /\ rx' = "ended" /\ UNCHANGED status
  <2>1. got' \in Seq(Items) /\ got' = Append(Stream, Failure(c))
    BY <1>1, <1>2
  <2>2. Stream' = Append(Stream, Failure(c))
    BY <1>1, <2>1, StreamSteps DEF Stream
  <2>3. Running(Stream)
    BY <1>1, EmptyStream
  <2>4. StreamSound' /\ FilesSound' /\ NothingLost'
    BY <1>1, <1>2, <2>2, <2>3, ErrorEnds
  <2>5. TypeOK'
    BY <1>2, <2>1 DEF IInv, TypeOK
  <2>6. StageSound'
    BY <1>1, <1>2 DEF IInv, StageSound, Listing
  <2> QED  BY <2>4, <2>5, <2>6 DEF IInv
<1>3. CASE rpc = "list" /\ pc' = "fail" /\ status' = c /\ UNCHANGED <<got, rx>>
  <2>1. Stream' = Stream
    BY <1>3 DEF Stream
  <2>2. TypeOK'
    BY <1>3 DEF IInv, TypeOK
  <2>3. StageSound'
    BY <1>1, <1>3, <2>1 DEF IInv, StageSound, Listing
  <2>4. StreamSound'
    BY <1>1, <1>3, <2>1, EmptyStream DEF StreamSound, Listing, ItemsSound, Running
  <2>5. FilesSound' /\ NothingLost'
    BY <1>1, <1>3, <2>1, EmptyStream DEF FilesSound, NothingLost, Listing
  <2> QED  BY <2>2, <2>3, <2>4, <2>5 DEF IInv
<1> QED  BY <1>2, <1>3 DEF Fails

LEMMA TableExistsIInv == ASSUME IInv, table_exists PROVE IInv'
<1>1. Stream = <<>> /\ chan = <<>> /\ got = <<>> /\ batch = <<>> /\ Stream \in Seq(Items)
  BY StreamFacts DEF IInv, StageSound, table_exists
<1>2. CASE table # <<>> /\ pc' = "open" /\ UNCHANGED <<status, got, rx>>
  <2>1. Stream' = Stream
    BY <1>2 DEF Stream, table_exists
  <2>2. TypeOK'
    BY <1>2 DEF IInv, TypeOK, table_exists
  <2>3. StageSound'
    BY <1>1, <1>2, <2>1 DEF IInv, StageSound, Listing, table_exists
  <2>4. StreamSound'
    BY <1>1, <1>2, <2>1, EmptyStream DEF StreamSound, Listing, ItemsSound
  <2>5. FilesSound' /\ NothingLost'
    BY <1>1, <1>2, <2>1, EmptyStream DEF FilesSound, NothingLost, Listing
  <2> QED  BY <2>2, <2>3, <2>4, <2>5 DEF IInv
<1>3. CASE table = <<>> /\ Fails("NOT_FOUND")
  <2>1. floor = 0
    <3>1. Len(table) = 0 /\ floor \in 0 .. Len(table)
      BY <1>3, EmptySeq DEF IInv, TypeOK
    <3> QED  BY <3>1
  <2> QED  BY <1>3, <2>1, FailsIInv DEF table_exists, Codes
<1>4. CASE Fails("INTERNAL")
  BY <1>4, FailsIInv DEF table_exists, Codes
<1> QED  BY <1>2, <1>3, <1>4 DEF table_exists

LEMMA OpenTableIInv == ASSUME IInv, open_table PROVE IInv'
<1>1. /\ Stream = <<>> /\ chan = <<>> /\ got = <<>> /\ batch = <<>> /\ Stream \in Seq(Items)
      /\ Len(table) \in Nat \ {0} /\ floor \in Nat /\ floor <= Len(table)
  <2>1. table \in Seq(SUBSET Files) /\ table # <<>> /\ Len(table) \in Nat /\ floor \in 0 .. Len(table)
    BY StreamFacts DEF IInv, StageSound, TypeOK, open_table
  <2>2. Len(table) # 0
    BY <2>1, EmptySeq
  <2> QED  BY <2>1, <2>2, StreamFacts DEF IInv, StageSound, open_table
<1>2. Loaded \in 1 .. Len(table) /\ Loaded \in 0 .. Len(table) /\ floor <= Loaded /\ Loaded = Len(table) /\ Loaded \in Nat
  BY <1>1 DEF Loaded
<1>3. table[Loaded] \subseteq Files
  BY <1>2, ElementOfSeq DEF IInv, TypeOK
<1> HIDE DEF Loaded
<1>4. CASE /\ snapshot' = Loaded /\ rpc = "list" /\ pc' = "header" /\ unread' = table[snapshot']
           /\ UNCHANGED <<status, got, rx>>
  <2>1. Stream' = Stream
    BY <1>4 DEF Stream, open_table
  <2>2. TypeOK'
    BY <1>2, <1>3, <1>4 DEF IInv, TypeOK, open_table
  <2>3. StageSound'
    BY <1>1, <1>2, <1>4, <2>1 DEF IInv, StageSound, Listing, open_table
  <2>4. StreamSound'
    BY <1>1, <1>4, <2>1, EmptyStream DEF StreamSound, Listing, ItemsSound
  <2>5. ToSet(batch') = {} /\ IsInjective(batch') /\ FilesOf(Stream') = {} /\ NothingTwice(Stream')
    BY <1>1, <2>1, EmptyStream, EmptyBatch DEF open_table
  <2>6. FilesSound' /\ NothingLost'
    BY <1>1, <1>4, <2>1, <2>5 DEF FilesSound, NothingLost, Listing, open_table
  <2> QED  BY <2>2, <2>3, <2>4, <2>6 DEF IInv
<1>5. CASE /\ snapshot' = Loaded /\ rpc = "get" /\ pc' = "done" /\ got' = Append(got, Header(snapshot'))
           /\ rx' = "ended" /\ UNCHANGED <<status, unread>>
  <2>1. Header(Loaded) \in Items
    BY <1>2, MadeItems
  <2>2. got' \in Seq(Items) /\ got' = Append(Stream, Header(Loaded))
    BY <1>1, <1>5, <2>1
  <2>3. Stream' = Append(Stream, Header(Loaded))
    BY <1>1, <2>2, StreamSteps DEF Stream, open_table
  <2>4. /\ Stream' # <<>> /\ Stream'[1] = Header(Loaded)
        /\ Shape(Stream') /\ NothingTwice(Stream') /\ FilesOf(Stream') = {}
        /\ \A m : ItemsSound(Stream', m)
    BY <1>1, <1>2, <2>3, HeaderItem DEF IInv
  <2>5. Stream'[1].versions = Loaded
    BY <2>4 DEF Header
  <2>6. TypeOK'
    BY <1>2, <1>5, <2>2 DEF IInv, TypeOK, open_table
  <2>7. StageSound'
    BY <1>1, <1>5 DEF IInv, StageSound, Listing, open_table
  <2>8. StreamSound'
    BY <1>5, <2>4 DEF StreamSound, Listing, ItemsSound
  <2>9. FilesSound' /\ NothingLost'
    BY <1>1, <1>2, <1>5, <2>4, <2>5 DEF FilesSound, NothingLost, Listing, open_table
  <2> QED  BY <2>6, <2>7, <2>8, <2>9 DEF IInv
<1>6. CASE (\E c \in {"INTERNAL", "FAILED_PRECONDITION"} : Fails(c)) /\ UNCHANGED <<snapshot, unread>>
  <2>1. PICK c \in {"INTERNAL", "FAILED_PRECONDITION"} : Fails(c)
    BY <1>6
  <2>2. c \in Codes /\ c # "NOT_FOUND"
    BY DEF Codes
  <2> QED  BY <1>6, <2>1, <2>2, FailsIInv DEF open_table
<1> QED  BY <1>4, <1>5, <1>6 DEF open_table

(* The client is gone: the task ends at its send.                          *)
LEMMA SendFailsIInv ==
    ASSUME IInv, pc \in {"header", "flush", "tail", "fail"}, SendFails, pc' = "done",
           UNCHANGED <<tableVars, rpc, snapshot, unread, status, rx, got>>, batch' \in {batch, <<>>}
    PROVE  IInv'
<1>1. Stream' = Stream
  BY DEF Stream, SendFails
<1>2. TypeOK'
  <2>1. batch' \in Seq(Files) /\ Len(batch') <= FILE_BATCH_SIZE
    <3>1. <<>> \in Seq(Files) /\ Len(<<>>) = 0 /\ 0 <= FILE_BATCH_SIZE
      BY EmptySeq, BatchAssumption
    <3> QED  BY <3>1 DEF IInv, TypeOK
  <2> QED  BY <2>1 DEF IInv, TypeOK, SendFails, tableVars
<1>3. StageSound'
  BY <1>1 DEF IInv, StageSound, Listing, SendFails, tableVars
<1>4. StreamSound'
  BY <1>1 DEF IInv, StreamSound, Listing, tableVars
<1>5. FilesSound'
  BY <1>1 DEF IInv, FilesSound, Listing, tableVars
<1>6. NothingLost'
  BY DEF NothingLost, SendFails
<1> QED  BY <1>2, <1>3, <1>4, <1>5, <1>6 DEF IInv

(* An item sent is the stream's next one.                                  *)
LEMMA SentStream ==
    ASSUME IInv, NEW x \in Items, Sent(x), got' = got
    PROVE  /\ Stream' = Append(Stream, x) /\ rx = "open"
           /\ chan' \in Seq(Items) /\ Len(chan') <= STREAM_CHANNEL_CAPACITY
<1>1. got \in Seq(Items) /\ chan \in Seq(Items)
  BY DEF IInv, TypeOK
<1>2. chan' = Append(chan, x) /\ rx = "open" /\ Len(chan) < STREAM_CHANNEL_CAPACITY
  BY DEF Sent
<1>3. Stream' = Append(Stream, x)
  BY <1>1, <1>2, StreamSteps DEF Stream
<1>n. PICK n \in Nat : n = Len(chan)
  BY <1>1, LenProperties
<1>4. chan' \in Seq(Items) /\ Len(chan') = n + 1
  BY <1>1, <1>2, <1>n, AppendProperties
<1> QED  BY <1>2, <1>3, <1>n, <1>4, CapacityAssumption

LEMMA SendHeaderIInv == ASSUME IInv, SendHeader PROVE IInv'
<1>1. CASE Sent(Header(snapshot)) /\ pc' = "next"
  <2>1. /\ Stream = <<>> /\ batch = <<>> /\ Stream \in Seq(Items)
        /\ snapshot \in 1 .. Len(table) /\ floor <= snapshot /\ snapshot \in Nat /\ Len(table) \in Nat /\ floor \in Nat
    BY StreamFacts DEF IInv, StageSound, SendHeader
  <2>2. Header(snapshot) \in Items
    BY <2>1, MadeItems
  <2>3. /\ Stream' = Append(Stream, Header(snapshot)) /\ rx = "open"
        /\ chan' \in Seq(Items) /\ Len(chan') <= STREAM_CHANNEL_CAPACITY
    BY <1>1, <2>2, SentStream DEF SendHeader
  <2>4. /\ Stream' # <<>> /\ Stream'[1] = Header(snapshot)
        /\ Shape(Stream') /\ NothingTwice(Stream') /\ FilesOf(Stream') = {}
        /\ Running(Stream') /\ \A m : ItemsSound(Stream', m)
    BY <2>1, <2>3, HeaderItem DEF IInv
  <2>5. Stream'[1].versions = snapshot
    BY <2>4 DEF Header
  <2>6. Len(batch) = 0 /\ 0 < FILE_BATCH_SIZE
    BY <2>1, EmptySeq, BatchAssumption
  <2>7. TypeOK'
    BY <1>1, <2>3 DEF IInv, TypeOK, SendHeader, tableVars
  <2>8. StageSound'
    BY <1>1, <2>1, <2>3 DEF IInv, StageSound, Listing, SendHeader, tableVars
  <2>9. StreamSound'
    BY <1>1, <2>4, <2>6 DEF StreamSound, Listing, ItemsSound, Running, SendHeader, tableVars
  <2>10. FilesSound'
    BY <1>1, <2>1, <2>4, <2>5 DEF IInv, FilesSound, Listing, SendHeader, tableVars
  <2>11. NothingLost'
    BY <1>1, <2>1, <2>3, <2>4, EmptyStream DEF IInv, NothingLost, Listing, SendHeader, tableVars
  <2> QED  BY <2>7, <2>8, <2>9, <2>10, <2>11 DEF IInv
<1>2. CASE SendFails /\ pc' = "done"
  BY <1>2, SendFailsIInv DEF SendHeader
<1> QED  BY <1>1, <1>2 DEF SendHeader

(* A file moves from the snapshot's stream to the batch.                   *)
LEMMA NextFileIInv == ASSUME IInv, NextFile PROVE IInv'
<1>1. PICK f \in unread : unread' = unread \ {f} /\ batch' = Append(batch, f)
  BY DEF NextFile
<1>2. Listing /\ Listing' /\ Stream' = Stream /\ pc = "next"
  BY DEF NextFile, Listing, Stream
<1>3. f \in Files /\ batch \in Seq(Files)
  BY DEF IInv, TypeOK
<1>n. PICK n \in Nat : n = Len(batch) /\ n < FILE_BATCH_SIZE
  BY <1>2, <1>3, LenProperties DEF IInv, StreamSound
<1>4. IsInjective(batch) /\ f \notin ToSet(batch)
  BY <1>2 DEF IInv, FilesSound
<1>5. /\ batch' \in Seq(Files) /\ Len(batch') = n + 1
      /\ ToSet(batch') = ToSet(batch) \cup {f}
      /\ IsInjective(batch')
  BY <1>1, <1>3, <1>4, <1>n, BatchAppended
<1>6. n + 1 <= FILE_BATCH_SIZE /\ (n + 1 >= FILE_BATCH_SIZE => n + 1 = FILE_BATCH_SIZE)
      /\ (~(n + 1 >= FILE_BATCH_SIZE) => n + 1 < FILE_BATCH_SIZE)
  BY <1>n, BatchAssumption
<1>7. TypeOK'
  BY <1>1, <1>5, <1>6 DEF IInv, TypeOK, NextFile, tableVars
<1>8. StageSound'
  BY <1>2 DEF IInv, StageSound, Listing, NextFile, tableVars
<1>9. (pc' = "next" /\ Len(batch') < FILE_BATCH_SIZE) \/ (pc' = "flush" /\ Len(batch') = FILE_BATCH_SIZE)
  BY <1>5, <1>6 DEF NextFile, BatchFull
<1>10. StreamSound'
  BY <1>2, <1>9 DEF IInv, StreamSound, NextFile, tableVars
<1>11. unread' \cup ToSet(batch') = unread \cup ToSet(batch) /\ unread' \cap ToSet(batch') = {}
  BY <1>1, <1>2, <1>5 DEF IInv, FilesSound
<1>12. FilesSound'
  BY <1>2, <1>5, <1>11 DEF IInv, FilesSound, NextFile, tableVars
<1>13. NothingLost'
  <2>1. pc' # "done"
    BY DEF NextFile
  <2>2. FilesOf(Stream) \cup unread' \cup ToSet(batch') = FilesOf(Stream) \cup unread \cup ToSet(batch)
    BY <1>11
  <2> QED  BY <1>2, <2>1, <2>2 DEF IInv, NothingLost, NextFile, tableVars
<1> QED  BY <1>7, <1>8, <1>10, <1>12, <1>13 DEF IInv

LEMMA StreamFailsIInv == ASSUME IInv, StreamFails PROVE IInv'
<1>1. Listing /\ ~Listing' /\ Stream' = Stream /\ pc = "next" /\ pc' = "fail"
  BY DEF StreamFails, Listing, Stream
<1>2. TypeOK'
  BY DEF IInv, TypeOK, StreamFails, tableVars, Codes
<1>3. StageSound'
  BY <1>1 DEF IInv, StageSound, StreamFails, tableVars
<1>4. StreamSound'
  BY <1>1 DEF IInv, StreamSound, StreamFails, tableVars
<1>5. FilesSound' /\ NothingLost'
  BY <1>1 DEF IInv, FilesSound, NothingLost, StreamFails, tableVars
<1> QED  BY <1>2, <1>3, <1>4, <1>5 DEF IInv

(* A full batch is sent, and the next one starts empty.                    *)
LEMMA FlushIInv == ASSUME IInv, Flush PROVE IInv'
<1>1. CASE Sent(Batch(batch)) /\ pc' = "next"
  <2>1. Batch(batch) \in Items /\ pc = "flush" /\ Listing /\ rx = "open"
    BY <1>1, MadeItems DEF IInv, TypeOK, Listing, Sent, Flush
  <2>2. /\ Stream' = Append(Stream, Batch(batch))
        /\ chan' \in Seq(Items) /\ Len(chan') <= STREAM_CHANNEL_CAPACITY
    BY <1>1, <2>1, SentStream DEF Flush
  <2>3. Stream # <<>>
    BY <2>1 DEF IInv, StreamSound
  <2>4. /\ Stream' # <<>> /\ Stream'[1] = Stream[1] /\ Stream[1].kind = "header"
        /\ Shape(Stream') /\ NothingTwice(Stream') /\ FilesOf(Stream') = FilesOf(Stream) \cup ToSet(batch)
        /\ Running(Stream') /\ ItemsSound(Stream', floor)
    BY <2>1, <2>2, <2>3, BatchItem
  <2>5. batch' = <<>> /\ Len(batch') = 0 /\ batch' \in Seq(Files) /\ ToSet(batch') = {} /\ IsInjective(batch')
        /\ 0 < FILE_BATCH_SIZE /\ 0 <= FILE_BATCH_SIZE
    BY EmptySeq, EmptyBatch, BatchAssumption DEF Flush
  <2>6. TypeOK'
    BY <1>1, <2>2, <2>5 DEF IInv, TypeOK, Flush, tableVars
  <2>7. StageSound'
    BY <1>1, <2>1 DEF IInv, StageSound, Listing, Flush, tableVars
  <2>8. StreamSound'
    BY <1>1, <2>4, <2>5 DEF StreamSound, Listing, ItemsSound, Running, Flush, tableVars
  <2>9. FilesSound'
    <3>1. /\ Stream[1].versions \in floor .. Len(table) /\ Stream[1].versions # 0
          /\ Stream[1].versions = snapshot
          /\ FilesOf(Stream) \subseteq table[snapshot]
          /\ unread \cup ToSet(batch) \subseteq table[snapshot]
          /\ unread \cap ToSet(batch) = {}
          /\ FilesOf(Stream) \cap (unread \cup ToSet(batch)) = {}
      BY <2>1, <2>3, <2>4 DEF IInv, FilesSound
    <3>2. /\ FilesOf(Stream') \subseteq table[snapshot]
          /\ FilesOf(Stream') \cap unread = {}
      BY <2>4, <3>1
    <3> QED  BY <1>1, <2>4, <2>5, <3>1, <3>2 DEF FilesSound, Listing, Flush, tableVars
  <2>10. NothingLost'
    <3>1. table[snapshot] \subseteq FilesOf(Stream) \cup unread \cup ToSet(batch)
      BY <2>1 DEF IInv, NothingLost
    <3>2. table[snapshot] \subseteq FilesOf(Stream') \cup unread \cup ToSet(batch')
      BY <2>4, <3>1
    <3> QED  BY <1>1, <3>2 DEF NothingLost, Listing, Flush, tableVars
  <2> QED  BY <2>6, <2>7, <2>8, <2>9, <2>10 DEF IInv
<1>2. CASE SendFails /\ pc' = "done"
  BY <1>2, SendFailsIInv DEF Flush
<1> QED  BY <1>1, <1>2 DEF Flush

(* The snapshot's stream is at its end: either all is sent or a tail is    *)
(* left.                                                                   *)
LEMMA EndOfFilesIInv == ASSUME IInv, EndOfFiles PROVE IInv'
<1>1. Listing /\ Stream' = Stream /\ pc = "next" /\ unread = {} /\ unread' = unread /\ batch' = batch
  BY DEF EndOfFiles, Listing, Stream
<1>2. TypeOK'
  BY DEF IInv, TypeOK, EndOfFiles, tableVars
<1>3. CASE batch = <<>> /\ pc' = "done"
  <2>1. ~Listing' /\ ToSet(batch) = {}
    BY <1>3, EmptyBatch DEF Listing
  <2>2. StageSound'
    BY <1>1, <1>3 DEF IInv, StageSound, Listing, EndOfFiles, tableVars
  <2>3. StreamSound'
    BY <1>1, <1>3, <2>1 DEF IInv, StreamSound, EndOfFiles, tableVars
  <2>4. FilesSound'
    BY <1>1, <1>3, <2>1 DEF IInv, FilesSound, EndOfFiles, tableVars
  <2>5. NothingLost'
    <3>1. SUFFICES ASSUME rx # "dropped"
                   PROVE  Stream # <<>> /\ Stream[1].kind = "header" /\ FilesOf(Stream) = table[Stream[1].versions]
      BY <1>1, <1>3, <2>1 DEF NothingLost, EndOfFiles, tableVars
    <3>2. Stream # <<>> /\ 1 \in 1 .. Len(Stream)
      BY <1>1, <3>1, StreamFacts DEF IInv, StreamSound
    <3>3. Stream[1].kind = "header"
      BY <1>1, <3>2 DEF IInv, StreamSound, Shape
    <3>4. Stream[1].versions = snapshot /\ FilesOf(Stream) \subseteq table[snapshot]
      BY <1>1, <3>2, <3>3 DEF IInv, FilesSound
    <3>5. table[snapshot] \subseteq FilesOf(Stream) \cup unread \cup ToSet(batch)
      BY <1>1, <3>1 DEF IInv, NothingLost
    <3> QED  BY <1>1, <2>1, <3>2, <3>3, <3>4, <3>5
  <2> QED  BY <1>2, <2>2, <2>3, <2>4, <2>5 DEF IInv
<1>4. CASE batch # <<>> /\ pc' = "tail"
  <2>1. Listing'
    BY <1>4 DEF Listing
  <2>2. StageSound'
    BY <1>1, <1>4, <2>1 DEF IInv, StageSound, EndOfFiles, tableVars
  <2>3. StreamSound'
    BY <1>1, <1>4, <2>1 DEF IInv, StreamSound, EndOfFiles, tableVars
  <2>4. FilesSound' /\ NothingLost'
    BY <1>1, <1>4, <2>1 DEF IInv, FilesSound, NothingLost, EndOfFiles, tableVars
  <2> QED  BY <1>2, <2>2, <2>3, <2>4 DEF IInv
<1> QED  BY <1>3, <1>4 DEF EndOfFiles

(* The tail completes the listing.                                         *)
LEMMA SendTailIInv == ASSUME IInv, SendTail PROVE IInv'
<1>1. CASE Sent(Batch(batch))
  <2>1. Batch(batch) \in Items /\ pc = "tail" /\ Listing /\ rx = "open" /\ pc' = "done" /\ unread = {} /\ ~Listing'
    BY <1>1, MadeItems DEF IInv, TypeOK, StreamSound, Listing, Sent, SendTail
  <2>2. /\ Stream' = Append(Stream, Batch(batch))
        /\ chan' \in Seq(Items) /\ Len(chan') <= STREAM_CHANNEL_CAPACITY
    BY <1>1, <2>1, SentStream DEF SendTail
  <2>3. Stream # <<>>
    BY <2>1 DEF IInv, StreamSound
  <2>4. /\ Stream' # <<>> /\ Stream'[1] = Stream[1] /\ Stream[1].kind = "header"
        /\ Shape(Stream') /\ NothingTwice(Stream') /\ FilesOf(Stream') = FilesOf(Stream) \cup ToSet(batch)
        /\ ItemsSound(Stream', floor)
    BY <2>1, <2>2, <2>3, BatchItem
  <2>5. TypeOK'
    BY <2>1, <2>2 DEF IInv, TypeOK, SendTail, tableVars
  <2>6. StageSound'
    BY <2>1 DEF IInv, StageSound, Listing, SendTail, tableVars
  <2>7. StreamSound'
    BY <2>1, <2>4 DEF StreamSound, Listing, ItemsSound, SendTail, tableVars
  <2>8. /\ Stream[1].versions \in floor .. Len(table) /\ Stream[1].versions # 0
        /\ Stream[1].versions = snapshot
        /\ FilesOf(Stream) \subseteq table[snapshot]
        /\ ToSet(batch) \subseteq table[snapshot]
    BY <2>1, <2>3, <2>4 DEF IInv, FilesSound
  <2>9. table[snapshot] \subseteq FilesOf(Stream) \cup unread \cup ToSet(batch)
    BY <2>1 DEF IInv, NothingLost
  <2>10. FilesOf(Stream') = table[snapshot]
    BY <2>1, <2>4, <2>8, <2>9
  <2>11. FilesSound' /\ NothingLost'
    BY <2>1, <2>4, <2>8, <2>10 DEF FilesSound, NothingLost, SendTail, tableVars
  <2> QED  BY <2>5, <2>6, <2>7, <2>11 DEF IInv
<1>2. CASE SendFails
  BY <1>2, SendFailsIInv DEF SendTail
<1> QED  BY <1>1, <1>2 DEF SendTail

LEMMA SendErrorIInv == ASSUME IInv, SendError PROVE IInv'
<1>1. CASE Sent(Failure(status))
  <2>1. pc = "fail" /\ pc' = "done" /\ status \in Codes /\ Failure(status) \in Items
    BY MadeItems DEF IInv, TypeOK, SendError
  <2>2. /\ Stream' = Append(Stream, Failure(status)) /\ rx = "open"
        /\ chan' \in Seq(Items) /\ Len(chan') <= STREAM_CHANNEL_CAPACITY
    BY <1>1, <2>1, SentStream DEF SendError
  <2>3. Running(Stream) /\ (status = "NOT_FOUND" => floor' = 0) /\ table' = table /\ floor' = floor
    BY <2>1 DEF IInv, StreamSound, StageSound, Running, SendError, tableVars
  <2>4. StreamSound' /\ FilesSound' /\ NothingLost'
    BY <2>1, <2>2, <2>3, ErrorEnds
  <2>5. TypeOK'
    BY <2>1, <2>2 DEF IInv, TypeOK, SendError, tableVars
  <2>6. StageSound'
    BY <2>1, <2>2 DEF IInv, StageSound, Listing, SendError, tableVars
  <2> QED  BY <2>4, <2>5, <2>6 DEF IInv
<1>2. CASE SendFails
  BY <1>2, SendFailsIInv DEF SendError
<1> QED  BY <1>1, <1>2 DEF SendError

(* The client takes an item out of the channel: the stream is the same.    *)
LEMMA ReceiveIInv == ASSUME IInv, Receive PROVE IInv'
<1>0. got \in Seq(Items) /\ chan \in Seq(Items)
  BY DEF IInv, TypeOK
<1>1. CASE chan # <<>> /\ got' = Append(got, Head(chan)) /\ chan' = Tail(chan) /\ UNCHANGED rx
  <2>1. Stream' = Stream
    BY <1>0, <1>1, StreamSteps DEF Stream
  <2>2. got' \in Seq(Items) /\ chan' \in Seq(Items) /\ Len(chan') <= STREAM_CHANNEL_CAPACITY
    <3>n. PICK n \in Nat : n = Len(chan) /\ n <= STREAM_CHANNEL_CAPACITY
      BY <1>0, LenProperties DEF IInv, TypeOK
    <3>1. Head(chan) \in Items /\ Tail(chan) \in Seq(Items) /\ Len(Tail(chan)) = n - 1
      BY <1>0, <1>1, <3>n, HeadTailProperties
    <3> QED  BY <1>0, <1>1, <3>n, <3>1, AppendProperties, CapacityAssumption
  <2>3. TypeOK'
    BY <1>1, <2>2 DEF IInv, TypeOK, Receive, tableVars
  <2>4. StageSound'
    BY <1>1, <2>1 DEF IInv, StageSound, Listing, Receive, tableVars
  <2>5. StreamSound'
    BY <1>1, <2>1 DEF IInv, StreamSound, Listing, Receive, tableVars
  <2>6. FilesSound' /\ NothingLost'
    BY <1>1, <2>1 DEF IInv, FilesSound, NothingLost, Listing, Receive, tableVars
  <2> QED  BY <2>3, <2>4, <2>5, <2>6 DEF IInv
<1>2. CASE chan = <<>> /\ SenderGone /\ rx' = "ended" /\ UNCHANGED <<chan, got>>
  <2>1. Stream' = Stream /\ pc = "done" /\ rx = "open"
    BY <1>2 DEF Stream, SenderGone, Receive
  <2>2. TypeOK'
    BY <1>2 DEF IInv, TypeOK, Receive, tableVars
  <2>3. StageSound'
    BY <1>2, <2>1 DEF IInv, StageSound, Listing, Receive, tableVars
  <2>4. StreamSound'
    BY <1>2, <2>1 DEF IInv, StreamSound, Listing, Receive, tableVars
  <2>5. FilesSound' /\ NothingLost'
    BY <1>2, <2>1 DEF IInv, FilesSound, NothingLost, Listing, Receive, tableVars
  <2> QED  BY <2>2, <2>3, <2>4, <2>5 DEF IInv
<1> QED  BY <1>1, <1>2 DEF Receive

(* The client leaves: what was in the channel is lost with it.             *)
LEMMA DisconnectIInv == ASSUME IInv, Disconnect PROVE IInv'
<1>0. got \in Seq(Items) /\ chan \in Seq(Items) /\ Stream = got \o chan
  BY DEF IInv, TypeOK, Stream
<1>1. Stream' = got /\ chan' = <<>>
  BY <1>0, StreamSteps DEF Stream, Disconnect
<1>2. /\ Len(got) \in Nat
      /\ \A i \in 1 .. Len(got) : i \in 1 .. Len(Stream) /\ Stream[i] = got[i]
      /\ got # <<>> => Stream # <<>> /\ Stream[1] = got[1]
      /\ FilesOf(got) \subseteq FilesOf(Stream)
      /\ NothingTwice(Stream) => NothingTwice(got)
      /\ Shape(Stream) => Shape(got)
  BY <1>0, StreamPrefix
<1>3. Stream = <<>> => got = <<>>
  BY StreamFacts DEF IInv
<1>4. CASE pc' = pc /\ rpc # "get"
  <2>1. TypeOK'
    BY <1>1, <1>4, EmptySeq, CapacityAssumption DEF IInv, TypeOK, Disconnect, tableVars
  <2>2. StageSound'
    BY <1>1, <1>3, <1>4 DEF IInv, StageSound, Listing, Disconnect, tableVars
  <2>3. StreamSound'
    BY <1>1, <1>2, <1>4 DEF IInv, StreamSound, Listing, Disconnect, tableVars
  <2>4. FilesSound' /\ NothingLost'
    BY <1>1, <1>2, <1>4 DEF IInv, FilesSound, NothingLost, Listing, Disconnect, tableVars
  <2> QED  BY <2>1, <2>2, <2>3, <2>4 DEF IInv
<1>5. CASE pc' = "done" /\ rpc = "get"
  <2>1. TypeOK'
    BY <1>1, <1>5, EmptySeq, CapacityAssumption DEF IInv, TypeOK, Disconnect, tableVars
  <2>2. StageSound'
    BY <1>1, <1>5 DEF IInv, StageSound, Listing, Disconnect, tableVars
  <2>3. StreamSound'
    BY <1>1, <1>2, <1>5 DEF IInv, StreamSound, Listing, Disconnect, tableVars
  <2>4. FilesSound' /\ NothingLost'
    BY <1>1, <1>2, <1>5 DEF IInv, FilesSound, NothingLost, Listing, Disconnect, tableVars
  <2> QED  BY <2>1, <2>2, <2>3, <2>4 DEF IInv
<1> QED  BY <1>4, <1>5 DEF Disconnect

LEMMA NextIInv == ASSUME IInv, [Next]_vars PROVE IInv'
<1>1. CASE Commit  BY <1>1, CommitIInv
<1>2. CASE RejectUri  BY <1>2, RejectUriIInv
<1>3. CASE Begin  BY <1>3, BeginIInv
<1>4. CASE table_exists  BY <1>4, TableExistsIInv
<1>5. CASE open_table  BY <1>5, OpenTableIInv
<1>6. CASE SendHeader  BY <1>6, SendHeaderIInv
<1>7. CASE NextFile  BY <1>7, NextFileIInv
<1>8. CASE StreamFails  BY <1>8, StreamFailsIInv
<1>9. CASE Flush  BY <1>9, FlushIInv
<1>10. CASE EndOfFiles  BY <1>10, EndOfFilesIInv
<1>11. CASE SendTail  BY <1>11, SendTailIInv
<1>12. CASE SendError  BY <1>12, SendErrorIInv
<1>13. CASE Receive  BY <1>13, ReceiveIInv
<1>14. CASE Disconnect  BY <1>14, DisconnectIInv
<1>15. CASE UNCHANGED vars
  <2>1. Stream' = Stream /\ Listing' = Listing
    BY <1>15 DEF vars, Stream, Listing
  <2>2. TypeOK' /\ StageSound'
    BY <1>15, <2>1 DEF IInv, TypeOK, StageSound, vars
  <2>3. StreamSound' /\ FilesSound' /\ NothingLost'
    BY <1>15, <2>1 DEF IInv, StreamSound, FilesSound, NothingLost, vars
  <2> QED  BY <2>2, <2>3 DEF IInv
<1> QED
  BY <1>1, <1>2, <1>3, <1>4, <1>5, <1>6, <1>7, <1>8, <1>9, <1>10, <1>11, <1>12, <1>13, <1>14, <1>15
  DEF Next, Task

----------------------------------------------------------------------------
(* The stream of a read, with what is on its way to the client, has its    *)
(* grammar, and it, the batch and the unread files share out one version.  *)
THEOREM InvariantCorrect == Spec => []IInv
<1>1. Init => IInv
  BY InitIInv
<1>2. IInv /\ [Next]_vars => IInv'
  BY NextIInv
<1> QED  BY <1>1, <1>2, PTL DEF Spec

(* What the client has received is the first part of the stream.           *)
LEMMA ReceivedPart ==
    ASSUME IInv
    PROVE  /\ got \in Seq(Items) /\ Len(got) \in Nat
           /\ got # <<>> => Stream # <<>> /\ Stream[1] = got[1] /\ 1 \in 1 .. Len(got) /\ 1 \in 1 .. Len(Stream)
           /\ FilesOf(got) \subseteq FilesOf(Stream)
           /\ NothingTwice(got) /\ Shape(got)
<1>1. got \in Seq(Items) /\ chan \in Seq(Items) /\ Stream = got \o chan
  BY DEF IInv, TypeOK, Stream
<1>2. NothingTwice(Stream) /\ Shape(Stream)
  BY DEF IInv, FilesSound, StreamSound
<1>3. Len(got) \in Nat /\ (got # <<>> => 1 \in 1 .. Len(got))
  BY <1>1, EmptySeq, LenProperties
<1>4. /\ \A i \in 1 .. Len(got) : i \in 1 .. Len(Stream) /\ Stream[i] = got[i]
      /\ got # <<>> => Stream # <<>>
      /\ FilesOf(got) \subseteq FilesOf(Stream)
      /\ NothingTwice(got) /\ Shape(got)
  BY <1>1, <1>2, StreamPrefix
<1> QED  BY <1>1, <1>3, <1>4

(* A client is sent files of the version its header names, each once,      *)
(* whatever is committed meanwhile (server.rs:274).                        *)
THEOREM SnapshotCorrect == Spec => []SnapshotOnly
<1>1. ASSUME IInv PROVE SnapshotOnly
  <2>1. NothingTwice(got)
    BY <1>1, ReceivedPart
  <2>2. ASSUME FilesOf(got) # {} PROVE got[1].kind = "header" /\ FilesOf(got) \subseteq table[got[1].versions]
    <3>1. got # <<>>
      BY <1>1, <2>2, ReceivedPart, EmptyStream
    <3>2. Stream # <<>> /\ Stream[1] = got[1] /\ 1 \in 1 .. Len(got) /\ 1 \in 1 .. Len(Stream) /\ Len(got) \in Nat
      BY <1>1, <3>1, ReceivedPart
    <3>3. got[1].kind # "err"
      <4>1. SUFFICES ASSUME got[1].kind = "err" PROVE FALSE
        OBVIOUS
      <4>2. Len(got) = 1
        BY <1>1, <3>2, <4>1, ReceivedPart DEF Shape
      <4>3. got[1].files = <<>>
        BY <1>1, <3>2, <4>1 DEF IInv, StreamSound
      <4>4. \A i \in 1 .. Len(got) : ToSet(got[i].files) = {}
        BY <4>2, <4>3, EmptyBatch
      <4> QED  BY <2>2, <4>4 DEF FilesOf
    <3>4. got[1].kind = "header"
      BY <1>1, <3>2, <3>3, ReceivedPart DEF Shape
    <3>5. FilesOf(Stream) \subseteq table[got[1].versions]
      BY <1>1, <3>2, <3>4 DEF IInv, FilesSound
    <3> QED  BY <1>1, <3>4, <3>5, ReceivedPart
  <2> QED  BY <2>1, <2>2 DEF SnapshotOnly
<1> QED  BY <1>1, InvariantCorrect, PTL

(* A listing that ends without an error item is the whole version, however *)
(* the batches fell (server.rs:318-335).                                   *)
THEOREM CleanEndCorrect == Spec => []CleanEndIsComplete
<1>1. ASSUME IInv PROVE CleanEndIsComplete
  <2>1. SUFFICES ASSUME rpc = "list", rx = "ended", ~Failed
                 PROVE  got # <<>> /\ got[1].kind = "header" /\ FilesOf(got) = table[got[1].versions]
    BY DEF CleanEndIsComplete
  <2>2. pc = "done" /\ Stream = got
    BY <1>1, <2>1, StreamFacts DEF IInv, StageSound
  <2> QED  BY <1>1, <2>1, <2>2 DEF IInv, NothingLost, Failed
<1> QED  BY <1>1, InvariantCorrect, PTL

(* The client sees one header, then full batches and at most one short     *)
(* one, and an error only at the end.                                      *)
THEOREM StreamShapeCorrect == Spec => []StreamShape
<1>1. IInv => StreamShape
  BY ReceivedPart DEF StreamShape
<1> QED  BY <1>1, InvariantCorrect, PTL

(* Neither read RPC answers with less than had been committed when it was  *)
(* called (server.rs:214, 288).                                            *)
THEOREM FreshCorrect == Spec => []ReadsAreFresh
<1>1. ASSUME IInv PROVE ReadsAreFresh
  <2>1. SUFFICES ASSUME got # <<>>
                 PROVE  /\ got[1].kind = "header" => got[1].versions >= floor
                        /\ got[1].code = "NOT_FOUND" => floor = 0
    BY DEF ReadsAreFresh
  <2>2. Stream # <<>> /\ Stream[1] = got[1] /\ 1 \in 1 .. Len(Stream)
    BY <1>1, <2>1, ReceivedPart
  <2>3. got[1].kind = "header" => got[1].versions \in floor .. Len(table)
    BY <1>1, <2>2 DEF IInv, FilesSound
  <2>4. got[1].code = "NOT_FOUND" => floor = 0
    BY <1>1, <2>2 DEF IInv, StreamSound
  <2>5. floor \in Nat /\ Len(table) \in Nat
    BY <1>1, StreamFacts DEF IInv
  <2> QED  BY <2>3, <2>4, <2>5
<1> QED  BY <1>1, InvariantCorrect, PTL
=============================================================================
