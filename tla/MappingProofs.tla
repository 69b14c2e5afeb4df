--------------------------- MODULE MappingProofs ---------------------------
(***************************************************************************)
(* Proofs about the contents of commits, for all requests, all statistics, *)
(* any number of commits and any files of other writers: lemmas about the  *)
(* mapping functions, the inductive invariant IInv, and what follows.      *)
(***************************************************************************)
EXTENDS Mapping, TLAPS, SequenceTheorems, WellFoundedInduction

----------------------------------------------------------------------------
(* Options.                                                                *)
LEMMA UnwrapSome == \A v : Unwrap({v}) = v
  BY DEF Unwrap

LEMMA OrDefaultCases == /\ \A x : OrDefault(x, {}) = x
                        /\ \A x, v : OrDefault(x, {v}) = v
  BY UnwrapSome DEF OrDefault

LEMMA OptionCases ==
    ASSUME NEW o, IsOption(o), o # {}
    PROVE  \E v : o = {v}
  BY DEF IsOption

LEMMA GetCases ==
    ASSUME NEW m, NEW k
    PROVE  /\ k \in DOMAIN m => Get(m, k) = {m[k]}
           /\ k \notin DOMAIN m => Get(m, k) = {}
  BY DEF Get

(* Sequences.                                                              *)
LEMMA SeqFacts ==
    ASSUME NEW s, IsSeq(s)
    PROVE  Len(s) \in Nat /\ DOMAIN s = 1 .. Len(s)
  BY DEF IsSeq

LEMMA SeqIntro ==
    ASSUME NEW s, NEW n \in Nat, s = [i \in 1 .. n |-> s[i]]
    PROVE  IsSeq(s) /\ Len(s) = n /\ DOMAIN s = 1 .. n
<1>1. \A i \in 1 .. n : s[i] \in ToSet(s)
  BY DEF ToSet
<1>2. s \in [1 .. n -> ToSet(s)]
  BY <1>1
<1>3. s \in Seq(ToSet(s))
  BY <1>2, SeqDef
<1> QED  BY <1>2, <1>3, LenProperties DEF IsSeq

LEMMA AppendFacts ==
    ASSUME NEW s, NEW x, IsSeq(s)
    PROVE  /\ IsSeq(Append(s, x))
           /\ Len(Append(s, x)) = Len(s) + 1
           /\ DOMAIN Append(s, x) = 1 .. Len(s) + 1
           /\ DOMAIN s = 1 .. Len(s) /\ Len(s) \in Nat
           /\ \A i \in 1 .. Len(s) : Append(s, x)[i] = s[i]
           /\ Append(s, x)[Len(s) + 1] = x
<1> DEFINE T == ToSet(s) \cup {x}
<1>1. s \in Seq(T)
  <2>1. s \in Seq(ToSet(s))
    BY DEF IsSeq
  <2>2. ToSet(s) \subseteq T
    OBVIOUS
  <2> HIDE DEF T
  <2> QED  BY <2>1, <2>2
<1>2. x \in T
  OBVIOUS
<1> HIDE DEF T
<1>3. PICK t : t = Append(s, x)
  OBVIOUS
<1>4. /\ t \in Seq(T) /\ Len(t) = Len(s) + 1 /\ Len(s) \in Nat
      /\ \A i \in 1 .. Len(s) : t[i] = s[i]
      /\ t[Len(s) + 1] = x
  BY <1>1, <1>2, <1>3, AppendProperties
<1>5. t = [i \in 1 .. Len(s) + 1 |-> t[i]]
  BY <1>4
<1>n. PICK n \in Nat : n = Len(s) + 1
  BY <1>4
<1>6. IsSeq(t) /\ DOMAIN t = 1 .. n
  BY <1>n, <1>5, SeqIntro
<1> QED  BY <1>3, <1>4, <1>n, <1>6, SeqFacts

LEMMA OneElement ==
    ASSUME NEW x
    PROVE  IsSeq(<<x>>) /\ DOMAIN <<x>> = {1} /\ <<x>>[1] = x /\ Len(<<x>>) = 1
  BY DEF IsSeq, ToSet

----------------------------------------------------------------------------
(* Actions.                                                                *)
LEMMA DataChange ==
    ASSUME NEW dc
    PROVE  /\ dc = 1 => map_data_change(dc) = {TRUE}
           /\ dc = 2 => map_data_change(dc) = {FALSE}
           /\ dc \notin {1, 2} => map_data_change(dc) = {}
<1>0. 1 # 2
  OBVIOUS
<1> QED  BY <1>0, Zenon DEF map_data_change

(* Exactly the bad actions cannot be mapped; any other becomes one action  *)
(* of its kind.                                                            *)
LEMMA MapAction ==
    ASSUME NEW a, IsWireAction(a)
    PROVE  /\ Bad(a) => map_action(a) = {}
           /\ ~Bad(a) => \E b : /\ map_action(a) = {b} /\ b.kind = a.kind
                                /\ a.kind \in {"add", "remove"} =>
                                      b.path = a.path /\ b.data_change = (a.data_change = 1)
<1>1. CASE a.kind = "missing"
  BY <1>1 DEF map_action, Bad
<1>2. CASE a.kind = "add"
  <2>1. ASSUME NEW dc, map_data_change(a.data_change) = {dc}, dc = (a.data_change = 1), ~Bad(a)
        PROVE  \E b : /\ map_action(a) = {b} /\ b.kind = a.kind
                      /\ b.path = a.path /\ b.data_change = (a.data_change = 1)
    <3>1. PICK b : b = [kind |-> "add", path |-> a.path, attrs |-> a.attrs,
              partition_values |-> map_string_map(a.partition_values), data_change |-> dc,
              stats |-> map_file_stats(a.stats), tags |-> map_optional_string_map(a.tags)]
      OBVIOUS
    <3>2. map_action(a) = {b}
      BY <1>2, <2>1, <3>1 DEF map_action
    <3>3. b.kind = "add" /\ b.path = a.path /\ b.data_change = dc
      BY <3>1
    <3> QED  BY <1>2, <2>1, <3>2, <3>3, Zenon
  <2>2. CASE a.data_change = 1
    <3>1. map_data_change(a.data_change) = {TRUE} /\ ~Bad(a) /\ TRUE = (a.data_change = 1)
      BY <1>2, <2>2, DataChange, Zenon DEF Bad
    <3> QED  BY <2>1, <3>1, Zenon
  <2>3. CASE a.data_change = 2
    <3>1. map_data_change(a.data_change) = {FALSE} /\ ~Bad(a) /\ FALSE = (a.data_change = 1)
      <4>1. 1 # 2
        OBVIOUS
      <4> QED  BY <4>1, <1>2, <2>3, DataChange, Zenon DEF Bad
    <3> QED  BY <2>1, <3>1, Zenon
  <2>4. CASE a.data_change \notin {1, 2}
    BY <1>2, <2>4, DataChange DEF map_action, Bad
  <2> QED  BY <2>2, <2>3, <2>4
<1>3. CASE a.kind = "remove"
  <2>1. ASSUME NEW dc, map_data_change(a.data_change) = {dc}, dc = (a.data_change = 1), ~Bad(a)
        PROVE  \E b : /\ map_action(a) = {b} /\ b.kind = a.kind
                      /\ b.path = a.path /\ b.data_change = (a.data_change = 1)
    <3>1. PICK b : b = [kind |-> "remove", path |-> a.path, attrs |-> a.attrs, data_change |-> dc]
      OBVIOUS
    <3>2. map_action(a) = {b}
      BY <1>3, <2>1, <3>1 DEF map_action
    <3>3. b.kind = "remove" /\ b.path = a.path /\ b.data_change = dc
      BY <3>1
    <3> QED  BY <1>3, <2>1, <3>2, <3>3, Zenon
  <2>2. CASE a.data_change = 1
    <3>1. map_data_change(a.data_change) = {TRUE} /\ ~Bad(a) /\ TRUE = (a.data_change = 1)
      BY <1>3, <2>2, DataChange, Zenon DEF Bad
    <3> QED  BY <2>1, <3>1, Zenon
  <2>3. CASE a.data_change = 2
    <3>1. map_data_change(a.data_change) = {FALSE} /\ ~Bad(a) /\ FALSE = (a.data_change = 1)
      <4>1. 1 # 2
        OBVIOUS
      <4> QED  BY <4>1, <1>3, <2>3, DataChange, Zenon DEF Bad
    <3> QED  BY <2>1, <3>1, Zenon
  <2>4. CASE a.data_change \notin {1, 2}
    BY <1>3, <2>4, DataChange DEF map_action, Bad
  <2> QED  BY <2>2, <2>3, <2>4
<1>4. CASE a.kind = "protocol"
  BY <1>4 DEF map_action, Bad
<1>5. CASE a.kind = "metaData"
  <2>1. map_action(a) = {map_metadata(a)} /\ ~Bad(a)
    BY <1>5 DEF map_action, Bad
  <2>2. map_metadata(a).kind = a.kind
    BY <1>5 DEF map_metadata, IsWireAction, IsMetadata
  <2> QED  BY <1>5, <2>1, <2>2
<1>6. CASE a.kind = "commitInfo"
  <2>1. map_action(a) = {map_commit_info(a)} /\ ~Bad(a)
    BY <1>6 DEF map_action, Bad
  <2>2. map_commit_info(a).kind = a.kind
    BY <1>6 DEF map_commit_info
  <2> QED  BY <1>6, <2>1, <2>2
<1> QED  BY <1>1, <1>2, <1>3, <1>4, <1>5, <1>6 DEF IsWireAction

(* A request is refused if one action is bad, and else mapped one by one.  *)
LEMMA MapActions ==
    ASSUME NEW r, IsRequest(r)
    PROVE  /\ map_actions(r) = {} <=> \E i \in DOMAIN r : Bad(r[i])
           /\ \A s : map_actions(r) = {s} =>
                 /\ IsSeq(s) /\ Len(s) = Len(r) /\ DOMAIN s = DOMAIN r
                 /\ \A i \in DOMAIN r : ~Bad(r[i]) /\ map_action(r[i]) = {s[i]} /\ s[i].kind = r[i].kind
           /\ \A s \in map_actions(r) : map_actions(r) = {s}
<1>1. \A i \in DOMAIN r : IsWireAction(r[i])
  BY DEF IsRequest
<1>2. \A i \in DOMAIN r : map_action(r[i]) = {} <=> Bad(r[i])
  BY <1>1, MapAction
<1>3. map_actions(r) = {} <=> \E i \in DOMAIN r : Bad(r[i])
  BY <1>2 DEF map_actions
<1>4. PICK n \in Nat : n = Len(r) /\ DOMAIN r = 1 .. n
  BY SeqFacts DEF IsRequest
<1>5. ASSUME NEW s, map_actions(r) = {s}
      PROVE  /\ IsSeq(s) /\ Len(s) = Len(r) /\ DOMAIN s = DOMAIN r
             /\ \A i \in DOMAIN r : ~Bad(r[i]) /\ map_action(r[i]) = {s[i]} /\ s[i].kind = r[i].kind
  <2>1. \A i \in DOMAIN r : ~Bad(r[i])
    BY <1>3, <1>5
  <2>2. s = [i \in DOMAIN r |-> Unwrap(map_action(r[i]))]
    BY <1>5, <1>2, <2>1 DEF map_actions
  <2>3. ASSUME NEW i \in DOMAIN r
        PROVE  map_action(r[i]) = {s[i]} /\ s[i].kind = r[i].kind
    <3>1. PICK b : map_action(r[i]) = {b} /\ b.kind = r[i].kind
      BY <1>1, <2>1, MapAction
    <3>2. s[i] = b
      BY <2>2, <3>1, UnwrapSome
    <3> QED  BY <3>1, <3>2
  <2>4. s = [i \in 1 .. n |-> s[i]]
    BY <1>4, <2>2
  <2>5. IsSeq(s) /\ Len(s) = n /\ DOMAIN s = 1 .. n
    BY <2>4, SeqIntro
  <2> QED  BY <1>4, <2>1, <2>3, <2>5
<1>6. \A s \in map_actions(r) : map_actions(r) = {s}
  BY DEF map_actions
<1> QED  BY <1>3, <1>5, <1>6

----------------------------------------------------------------------------
(* Statistics there and back.                                              *)
StatsJson(s) ==
    [numRecords |-> {[j |-> "int", v |-> s.num_records]},
     minValues  |-> Present([c \in DOMAIN s.columns |-> map_column_value(s.columns[c].min_value)]),
     maxValues  |-> Present([c \in DOMAIN s.columns |-> map_column_value(s.columns[c].max_value)]),
     nullCount  |-> [c \in DOMAIN s.columns |-> [j |-> "int", v |-> s.columns[c].null_count]]]

StatsPb(w) ==
    [num_records |-> OrDefault(0, as_i64(w.numRecords)),
     columns     |-> [c \in DOMAIN w.minValues \cup DOMAIN w.maxValues \cup DOMAIN w.nullCount |->
                         ColumnToPb(w, c)]]

FiniteColumn(c) == [c EXCEPT !.min_value = Finite(@), !.max_value = Finite(@)]

LEMMA StatsForms ==
    ASSUME NEW o
    PROVE  /\ map_file_stats(o) = {{StatsJson(s)} : s \in o}
           /\ map_stats_json_to_pb(o) = {StatsPb(w) : w \in UNION o}
           /\ FiniteStats(o) =
                 {[s EXCEPT !.columns = [c \in DOMAIN s.columns |-> FiniteColumn(s.columns[c])]] : s \in o}
  BY DEF map_file_stats, map_stats_json_to_pb, FiniteStats, StatsJson, StatsPb, FiniteColumn

(* A minimum or maximum that JSON can hold survives with its type.         *)
LEMMA ValueThereAndBack ==
    ASSUME NEW o, IsOption(o), \A v \in o : IsValue(v)
    PROVE  /\ IsOption(map_column_value(o))
           /\ \A x \in map_column_value(o) : IsJson(x)
           /\ UNION {value_to_pb(x) : x \in map_column_value(o)} = Finite(o)
           /\ map_column_value(o) = {} => Finite(o) = {}
<1>1. CASE o = {}
  BY <1>1 DEF map_column_value, Finite, IsOption
<1>2. CASE o # {}
  <2>1. PICK v : o = {v}
    BY <1>2, OptionCases
  <2>2. IsValue(v)
    BY <2>1
  <2>3. CASE v.t = "double" /\ v.v \in NonFinite
    <3>1. map_column_value(o) = {} /\ Finite(o) = {}
      BY <2>1, <2>3 DEF map_column_value, Finite
    <3> QED  BY <3>1 DEF IsOption
  <2>4. CASE ~(v.t = "double" /\ v.v \in NonFinite)
    <3>1. PICK x : x = [j |-> IF v.t = "double" THEN "float" ELSE v.t, v |-> v.v]
      OBVIOUS
    <3>2. map_column_value(o) = {x} /\ Finite(o) = {v}
      BY <2>1, <2>4, <3>1 DEF map_column_value, Finite
    <3>3. x.v = v.v /\ x.j = IF v.t = "double" THEN "float" ELSE v.t
      BY <3>1
    <3>4. value_to_pb(x) = {v}
      BY <2>2, <3>3 DEF value_to_pb, IsValue
    <3>5. IsJson(x)
      BY <2>2, <2>4, <3>3 DEF IsJson, IsValue
    <3> QED  BY <3>2, <3>4, <3>5 DEF IsOption
  <2> QED  BY <2>3, <2>4
<1> QED  BY <1>1, <1>2

LEMMA IntOfJson == \A n : as_i64({[j |-> "int", v |-> n]}) = {n}
<1> TAKE n
<1>1. PICK w : w = [j |-> "int", v |-> n]
  OBVIOUS
<1>2. w.j = "int" /\ w.v = n
  BY <1>1
<1>3. as_i64({w}) = {n}
  BY <1>2 DEF as_i64
<1> QED  BY <1>1, <1>3

LEMMA FiniteColumnForm ==
    ASSUME NEW col, IsColumn(col)
    PROVE  FiniteColumn(col) = [min_value |-> Finite(col.min_value), max_value |-> Finite(col.max_value),
                                null_count |-> col.null_count]
<1>1. PICK mi, ma, n : col = [min_value |-> mi, max_value |-> ma, null_count |-> n]
  BY DEF IsColumn
<1>2. col.min_value = mi /\ col.max_value = ma /\ col.null_count = n
  BY <1>1
<1>3. PICK fi, fa : fi = Finite(mi) /\ fa = Finite(ma)
  OBVIOUS
<1>4. FiniteColumn(col) = [[col EXCEPT !.min_value = fi] EXCEPT !.max_value = fa]
  BY <1>1, <1>2, <1>3 DEF FiniteColumn
<1>5. [col EXCEPT !.min_value = fi] = [min_value |-> fi, max_value |-> ma, null_count |-> n]
  BY <1>1
<1>6. [[min_value |-> fi, max_value |-> ma, null_count |-> n] EXCEPT !.max_value = fa] =
        [min_value |-> fi, max_value |-> fa, null_count |-> n]
  OBVIOUS
<1> QED  BY <1>2, <1>3, <1>4, <1>5, <1>6

(* What Present keeps of a map of options.                                 *)
LEMMA PresentFacts ==
    ASSUME NEW m, \A c \in DOMAIN m : IsOption(m[c])
    PROVE  /\ DOMAIN Present(m) \subseteq DOMAIN m
           /\ \A c \in DOMAIN m : Get(Present(m), c) = m[c]
           /\ \A c \in DOMAIN Present(m) : Present(m)[c] \in m[c]
<1>0. PICK q : q = Present(m)
  OBVIOUS
<1>1. /\ DOMAIN q = {c \in DOMAIN m : m[c] # {}}
      /\ \A c \in DOMAIN q : q[c] = Unwrap(m[c])
  BY <1>0 DEF Present
<1>2. ASSUME NEW c \in DOMAIN q
      PROVE  m[c] = {q[c]}
  <2>1. PICK v : m[c] = {v}
    BY <1>1, <1>2, OptionCases
  <2> QED  BY <1>1, <2>1, UnwrapSome
<1>3. \A c \in DOMAIN m : Get(q, c) = m[c]
  <2> SUFFICES ASSUME NEW c \in DOMAIN m PROVE Get(q, c) = m[c]
    OBVIOUS
  <2>1. CASE c \in DOMAIN q
    BY <2>1, <1>2, GetCases
  <2>2. CASE c \notin DOMAIN q
    BY <2>2, <1>1, GetCases
  <2> QED  BY <2>1, <2>2
<1> QED  BY <1>0, <1>1, <1>2, <1>3

(* Statistics come back as they were sent, but for the numbers that JSON   *)
(* cannot hold.                                                            *)
LEMMA StatsOfOne ==
    ASSUME NEW s, IsStats(s)
    PROVE  /\ StatsPb(StatsJson(s)) =
                 [s EXCEPT !.columns = [c \in DOMAIN s.columns |-> FiniteColumn(s.columns[c])]]
           /\ IsJsonMap(StatsJson(s).minValues) /\ IsJsonMap(StatsJson(s).maxValues)
<1> DEFINE D == DOMAIN s.columns
           mins == [c \in D |-> map_column_value(s.columns[c].min_value)]
           maxs == [c \in D |-> map_column_value(s.columns[c].max_value)]
<1>1. \A c \in D : IsColumn(s.columns[c])
  BY DEF IsStats
<1>2. ASSUME NEW c \in D
      PROVE  LET o == s.columns[c].min_value IN
             /\ IsOption(map_column_value(o)) /\ \A x \in map_column_value(o) : IsJson(x)
             /\ UNION {value_to_pb(x) : x \in map_column_value(o)} = Finite(o)
  BY <1>1, ValueThereAndBack DEF IsColumn
<1>3. ASSUME NEW c \in D
      PROVE  LET o == s.columns[c].max_value IN
             /\ IsOption(map_column_value(o)) /\ \A x \in map_column_value(o) : IsJson(x)
             /\ UNION {value_to_pb(x) : x \in map_column_value(o)} = Finite(o)
  BY <1>1, ValueThereAndBack DEF IsColumn
<1>w. PICK w : w = StatsJson(s)
  OBVIOUS
<1>m. PICK mi : mi = mins
  OBVIOUS
<1>x. PICK ma : ma = maxs
  OBVIOUS
<1>4. /\ DOMAIN mi = D /\ \A c \in D : mi[c] = map_column_value(s.columns[c].min_value)
      /\ DOMAIN ma = D /\ \A c \in D : ma[c] = map_column_value(s.columns[c].max_value)
  BY <1>m, <1>x
<1>5. /\ w.minValues = Present(mi) /\ w.maxValues = Present(ma)
      /\ w.numRecords = {[j |-> "int", v |-> s.num_records]}
      /\ DOMAIN w.nullCount = D
      /\ \A c \in D : w.nullCount[c] = [j |-> "int", v |-> s.columns[c].null_count]
  BY <1>w, <1>m, <1>x DEF StatsJson
<1> HIDE DEF mins, maxs
<1>6. /\ DOMAIN Present(mi) \subseteq D /\ \A c \in D : Get(Present(mi), c) = mi[c]
      /\ \A c \in DOMAIN Present(mi) : Present(mi)[c] \in mi[c]
  BY <1>2, <1>4, PresentFacts
<1>7. /\ DOMAIN Present(ma) \subseteq D /\ \A c \in D : Get(Present(ma), c) = ma[c]
      /\ \A c \in DOMAIN Present(ma) : Present(ma)[c] \in ma[c]
  BY <1>3, <1>4, PresentFacts
<1>8. IsJsonMap(w.minValues) /\ IsJsonMap(w.maxValues)
  BY <1>2, <1>3, <1>4, <1>5, <1>6, <1>7 DEF IsJsonMap
<1>9. ASSUME NEW c \in D
      PROVE  ColumnToPb(w, c) = FiniteColumn(s.columns[c])
  <2>1. /\ UNION {value_to_pb(x) : x \in Get(w.minValues, c)} = Finite(s.columns[c].min_value)
        /\ UNION {value_to_pb(x) : x \in Get(w.maxValues, c)} = Finite(s.columns[c].max_value)
    BY <1>2, <1>3, <1>4, <1>5, <1>6, <1>7
  <2>2. Get(w.nullCount, c) = {[j |-> "int", v |-> s.columns[c].null_count]}
    <3>1. c \in DOMAIN w.nullCount
      BY <1>5
    <3>2. Get(w.nullCount, c) = {w.nullCount[c]}
      BY <3>1, GetCases
    <3> QED  BY <1>5, <3>2
  <2>3. as_i64(Get(w.nullCount, c)) = {s.columns[c].null_count}
    BY <2>2, IntOfJson
  <2>4. OrDefault(0, as_i64(Get(w.nullCount, c))) = s.columns[c].null_count
    BY <2>3, OrDefaultCases
  <2>5. ColumnToPb(w, c) = [min_value |-> Finite(s.columns[c].min_value),
                            max_value |-> Finite(s.columns[c].max_value),
                            null_count |-> s.columns[c].null_count]
    BY <2>1, <2>4 DEF ColumnToPb
  <2> QED  BY <2>5, <1>1, FiniteColumnForm
<1>10. as_i64(w.numRecords) = {s.num_records}
  BY <1>5, IntOfJson
<1>11. OrDefault(0, as_i64(w.numRecords)) = s.num_records
  BY <1>10, OrDefaultCases
<1>12. DOMAIN w.minValues \cup DOMAIN w.maxValues \cup DOMAIN w.nullCount = D
  BY <1>5, <1>6, <1>7
<1>13. StatsPb(w) = [num_records |-> s.num_records, columns |-> [c \in D |-> FiniteColumn(s.columns[c])]]
  BY <1>9, <1>11, <1>12 DEF StatsPb
<1>14. s = [num_records |-> s.num_records, columns |-> s.columns]
  BY DEF IsStats
<1>15. PICK cols : cols = [c \in D |-> FiniteColumn(s.columns[c])]
  OBVIOUS
<1>16. [s EXCEPT !.columns = cols] = [num_records |-> s.num_records, columns |-> cols]
  BY <1>14
<1> QED  BY <1>w, <1>8, <1>13, <1>15, <1>16

LEMMA StatsThereAndBack ==
    ASSUME NEW o, IsOption(o), \A s \in o : IsStats(s)
    PROVE  /\ map_stats_json_to_pb(map_file_stats(o)) = FiniteStats(o)
           /\ IsOption(map_file_stats(o)) /\ \A text \in map_file_stats(o) : IsOption(text)
           /\ \A w \in UNION map_file_stats(o) : IsJsonMap(w.minValues) /\ IsJsonMap(w.maxValues)
<1>1. CASE o = {}
  <2>1. map_file_stats(o) = {} /\ FiniteStats(o) = {}
    BY <1>1 DEF map_file_stats, FiniteStats
  <2>2. map_stats_json_to_pb({}) = {}
    BY DEF map_stats_json_to_pb
  <2> QED  BY <2>1, <2>2 DEF IsOption
<1>2. CASE o # {}
  <2>1. PICK s : o = {s}
    BY <1>2, OptionCases
  <2>2. PICK w : w = StatsJson(s)
    OBVIOUS
  <2>3. map_file_stats(o) = {{w}}
    BY <2>1, <2>2, StatsForms
  <2>4. UNION {{w}} = {w}
    OBVIOUS
  <2>5. map_stats_json_to_pb({{w}}) = {StatsPb(w)}
    <3>1. PICK u : u = {{w}}
      OBVIOUS
    <3>2. UNION u = {w}
      BY <3>1
    <3>3. map_stats_json_to_pb(u) = {StatsPb(x) : x \in UNION u}
      BY StatsForms
    <3>4. map_stats_json_to_pb(u) = {StatsPb(w)}
      BY <3>2, <3>3
    <3> QED  BY <3>1, <3>4
  <2>6. FiniteStats(o) = {[s EXCEPT !.columns = [c \in DOMAIN s.columns |-> FiniteColumn(s.columns[c])]]}
    BY <2>1, StatsForms
  <2>7. /\ StatsPb(w) = [s EXCEPT !.columns = [c \in DOMAIN s.columns |-> FiniteColumn(s.columns[c])]]
        /\ IsJsonMap(w.minValues) /\ IsJsonMap(w.maxValues)
    BY <2>1, <2>2, StatsOfOne
  <2>8. map_stats_json_to_pb(map_file_stats(o)) = FiniteStats(o)
    BY <2>3, <2>5, <2>6, <2>7
  <2> QED  BY <2>3, <2>4, <2>7, <2>8 DEF IsOption
<1> QED  BY <1>1, <1>2

(* What is read from a JSON text is finite, whoever wrote it.              *)
LEMMA ValueFromJson ==
    ASSUME NEW m, IsJsonMap(m), NEW c
    PROVE  LET o == UNION {value_to_pb(x) : x \in Get(m, c)} IN
           IsOption(o) /\ (\A v \in o : IsValue(v)) /\ Finite(o) = o
<1>1. CASE c \notin DOMAIN m
  <2>1. UNION {value_to_pb(x) : x \in Get(m, c)} = {}
    BY <1>1, GetCases
  <2>2. Finite({}) = {}
    BY DEF Finite
  <2> QED  BY <2>1, <2>2 DEF IsOption
<1>2. CASE c \in DOMAIN m
  <2>1. PICK x : x = m[c]
    OBVIOUS
  <2>2. IsJson(x)
    BY <1>2, <2>1 DEF IsJsonMap
  <2>3. UNION {value_to_pb(y) : y \in Get(m, c)} = value_to_pb(x)
    BY <1>2, <2>1, GetCases
  <2>4. CASE x.j \in {"int", "string", "bool"}
    <3>1. PICK v : v = [t |-> x.j, v |-> x.v]
      OBVIOUS
    <3>2. value_to_pb(x) = {v} /\ v.t = x.j /\ v.v = x.v
      BY <2>4, <3>1 DEF value_to_pb
    <3>3. IsValue(v)
      BY <2>4, <3>1, <3>2 DEF IsValue
    <3>4. Finite({v}) = {v}
      BY <2>4, <3>2 DEF Finite
    <3> QED  BY <2>3, <3>2, <3>3, <3>4 DEF IsOption
  <2>5. CASE x.j \in {"float", "uint"}
    <3>1. PICK v : v = [t |-> "double", v |-> x.v]
      OBVIOUS
    <3>2. value_to_pb(x) = {v} /\ v.t = "double" /\ v.v = x.v
      BY <2>5, <3>1 DEF value_to_pb
    <3>3. IsValue(v)
      BY <3>1, <3>2 DEF IsValue
    <3>4. Finite({v}) = {v}
      BY <2>2, <2>5, <3>2 DEF Finite, IsJson
    <3> QED  BY <2>3, <3>2, <3>3, <3>4 DEF IsOption
  <2>6. CASE x.j \notin {"int", "string", "bool", "float", "uint"}
    <3>1. value_to_pb(x) = {}
      BY <2>6 DEF value_to_pb
    <3>2. Finite({}) = {}
      BY DEF Finite
    <3> QED  BY <2>3, <3>1, <3>2 DEF IsOption
  <2> QED  BY <2>4, <2>5, <2>6
<1> QED  BY <1>1, <1>2

LEMMA ColumnFromJson ==
    ASSUME NEW w, IsJsonMap(w.minValues), IsJsonMap(w.maxValues), NEW c
    PROVE  IsColumn(ColumnToPb(w, c)) /\ FiniteColumn(ColumnToPb(w, c)) = ColumnToPb(w, c)
<1>1. PICK mi : mi = UNION {value_to_pb(x) : x \in Get(w.minValues, c)}
  OBVIOUS
<1>2. PICK ma : ma = UNION {value_to_pb(x) : x \in Get(w.maxValues, c)}
  OBVIOUS
<1>3. PICK n : n = OrDefault(0, as_i64(Get(w.nullCount, c)))
  OBVIOUS
<1>4. PICK col : col = ColumnToPb(w, c)
  OBVIOUS
<1>5. col = [min_value |-> mi, max_value |-> ma, null_count |-> n]
  BY <1>1, <1>2, <1>3, <1>4 DEF ColumnToPb
<1>6. /\ IsOption(mi) /\ (\A v \in mi : IsValue(v)) /\ Finite(mi) = mi
      /\ IsOption(ma) /\ (\A v \in ma : IsValue(v)) /\ Finite(ma) = ma
  BY <1>1, <1>2, ValueFromJson
<1>7. col.min_value = mi /\ col.max_value = ma /\ col.null_count = n
  BY <1>5
<1>8. IsColumn(col)
  BY <1>5, <1>6, <1>7 DEF IsColumn
<1>9. FiniteColumn(col) = col
  BY <1>5, <1>6, <1>7, <1>8, FiniteColumnForm
<1> QED  BY <1>4, <1>8, <1>9

LEMMA StatsFromJson ==
    ASSUME NEW w, IsJsonMap(w.minValues), IsJsonMap(w.maxValues)
    PROVE  LET s == StatsPb(w) IN
           IsStats(s) /\ [s EXCEPT !.columns = [c \in DOMAIN s.columns |-> FiniteColumn(s.columns[c])]] = s
<1>1. PICK D : D = DOMAIN w.minValues \cup DOMAIN w.maxValues \cup DOMAIN w.nullCount
  OBVIOUS
<1>2. PICK cols : cols = [c \in D |-> ColumnToPb(w, c)]
  OBVIOUS
<1>3. PICK n : n = OrDefault(0, as_i64(w.numRecords))
  OBVIOUS
<1>4. PICK s : s = StatsPb(w)
  OBVIOUS
<1>5. s = [num_records |-> n, columns |-> cols]
  BY <1>1, <1>2, <1>3, <1>4 DEF StatsPb
<1>6. s.num_records = n /\ s.columns = cols /\ DOMAIN cols = D
  BY <1>2, <1>5
<1>7. \A c \in D : cols[c] = ColumnToPb(w, c)
  BY <1>2
<1>8. \A c \in D : IsColumn(cols[c]) /\ FiniteColumn(cols[c]) = cols[c]
  BY <1>7, ColumnFromJson
<1>9. cols = [c \in DOMAIN cols |-> cols[c]]
  BY <1>2
<1>10. IsStats(s)
  BY <1>5, <1>6, <1>8, <1>9 DEF IsStats, IsMap
<1>11. [c \in DOMAIN cols |-> FiniteColumn(cols[c])] = cols
  BY <1>6, <1>8, <1>9
<1>12. [s EXCEPT !.columns = cols] = s
  BY <1>5
<1> QED  BY <1>4, <1>6, <1>10, <1>11, <1>12

LEMMA StatsFromLog ==
    ASSUME NEW a, IsLoggedFile(a)
    PROVE  LET o == map_stats_json_to_pb(a.stats) IN
           IsOption(o) /\ (\A s \in o : IsStats(s)) /\ FiniteStats(o) = o
<1>0. map_stats_json_to_pb(a.stats) = {StatsPb(w) : w \in UNION a.stats}
  BY StatsForms
<1>1. CASE UNION a.stats = {}
  <2>1. map_stats_json_to_pb(a.stats) = {}
    BY <1>0, <1>1
  <2>2. FiniteStats({}) = {}
    BY DEF FiniteStats
  <2> QED  BY <2>1, <2>2 DEF IsOption
<1>2. CASE UNION a.stats # {}
  <2>1. PICK w : UNION a.stats = {w}
    BY <1>2 DEF IsLoggedFile, IsOption
  <2>2. IsJsonMap(w.minValues) /\ IsJsonMap(w.maxValues)
    BY <2>1 DEF IsLoggedFile
  <2>3. PICK s : s = StatsPb(w)
    OBVIOUS
  <2>4. map_stats_json_to_pb(a.stats) = {s}
    BY <1>0, <2>1, <2>3
  <2>5. IsStats(s) /\ [s EXCEPT !.columns = [c \in DOMAIN s.columns |-> FiniteColumn(s.columns[c])]] = s
    BY <2>2, <2>3, StatsFromJson
  <2>6. FiniteStats({s}) = {s}
    BY <2>5, StatsForms
  <2> QED  BY <2>4, <2>5, <2>6 DEF IsOption
<1> QED  BY <1>1, <1>2

----------------------------------------------------------------------------
(* Files there and back.                                                   *)
AsSent(C, a) ==
    [a EXCEPT !.data_change = 1, !.tags = NoMap, !.stats = FiniteStats(@),
              !.partition_values = AsTyped(C, @)]

TypedColumns(C) == \A k \in DOMAIN C : C[k] \in Types

(* The partition values as ListActiveFiles reports them.                   *)
Reported(C, a) == [k \in DOMAIN C |-> OrDefault("", partition_values(C, a)[k])]

LEMMA FileViewForm ==
    ASSUME NEW C, NEW a
    PROVE  FileView(C, a) = [kind |-> "add", path |-> a.path, attrs |-> a.attrs,
                             partition_values |-> Reported(C, a), data_change |-> 1,
                             stats |-> map_stats_json_to_pb(a.stats), tags |-> NoMap]
<1>1. PICK p : p = partition_values(C, a)
  OBVIOUS
<1>2. DOMAIN p = DOMAIN C
  BY <1>1 DEF partition_values
<1>3. [k \in DOMAIN p |-> OrDefault("", p[k])] = Reported(C, a)
  BY <1>1, <1>2 DEF Reported
<1>4. FileView(C, a) = map_active_file_to_pb(a, p)
  BY <1>1 DEF FileView
<1> QED  BY <1>3, <1>4 DEF map_active_file_to_pb

LEMMA FileViewPath ==
    ASSUME NEW C, NEW a
    PROVE  FileView(C, a).path = a.path
  BY FileViewForm

(* What was sent for a column comes back as a value of its type.           *)
LEMMA PartitionThereAndBack ==
    ASSUME NEW m, NEW C, NEW b, b.partition_values = map_string_map(m)
    PROVE  Reported(C, b) = AsTyped(C, m)
<1>1. PICK q : q = map_string_map(m)
  OBVIOUS
<1>2. DOMAIN q = DOMAIN m /\ \A k \in DOMAIN m : q[k] = {m[k]}
  BY <1>1 DEF map_string_map
<1>3. ASSUME NEW k \in DOMAIN C
      PROVE  OrDefault("", partition_values(C, b)[k]) =
                IF k \in DOMAIN m THEN OrDefault("", Scalar[C[k]][m[k]]) ELSE ""
  <2>1. partition_values(C, b)[k] = UNION {Scalar[C[k]][text] : text \in UNION Get(q, k)}
    BY <1>1 DEF partition_values
  <2>2. CASE k \in DOMAIN m
    <3>1. UNION Get(q, k) = {m[k]}
      BY <1>2, <2>2, GetCases
    <3>2. partition_values(C, b)[k] = Scalar[C[k]][m[k]]
      BY <2>1, <3>1
    <3> QED  BY <2>2, <3>2
  <2>3. CASE k \notin DOMAIN m
    <3>1. UNION Get(q, k) = {}
      BY <1>2, <2>3, GetCases
    <3>2. partition_values(C, b)[k] = {}
      BY <2>1, <3>1
    <3> QED  BY <2>3, <3>2, OrDefaultCases
  <2> QED  BY <2>2, <2>3
<1> QED  BY <1>3 DEF Reported, AsTyped

(* What is reported can be sent, and is reported the same again.           *)
LEMMA ReportedAgain ==
    ASSUME NEW C, TypedColumns(C), NEW a, IsLoggedFile(a), NEW p, p = Reported(C, a)
    PROVE  /\ DOMAIN p = DOMAIN C /\ IsMap(p)
           /\ \A k \in DOMAIN p : p[k] \in Texts
           /\ AsTyped(C, p) = p
<1>1. DOMAIN p = DOMAIN C /\ p = [k \in DOMAIN C |-> p[k]]
  BY DEF Reported
<1>2. ASSUME NEW k \in DOMAIN C
      PROVE  p[k] \in Texts /\ OrDefault("", Scalar[C[k]][p[k]]) = p[k]
  <2>1. PICK t, o : t = C[k] /\ o = partition_values(C, a)[k]
    OBVIOUS
  <2>2. t \in Types
    BY <2>1 DEF TypedColumns
  <2>3. PICK T : T = UNION Get(a.partition_values, k)
    OBVIOUS
  <2>4. o = UNION {Scalar[t][x] : x \in T}
    BY <2>1, <2>3 DEF partition_values
  <2>5. p[k] = OrDefault("", o)
    BY <2>1 DEF Reported
  <2>6. IsOption(T) /\ T \subseteq Texts
    <3>1. CASE k \in DOMAIN a.partition_values
      <4>1. T = a.partition_values[k]
        BY <2>3, <3>1, GetCases
      <4> QED  BY <3>1, <4>1 DEF IsLoggedFile
    <3>2. CASE k \notin DOMAIN a.partition_values
      <4>1. T = {}
        BY <2>3, <3>2, GetCases
      <4> QED  BY <4>1 DEF IsOption
    <3> QED  BY <3>1, <3>2
  <2>7. CASE o = {}
    <3>1. p[k] = ""
      BY <2>5, <2>7, OrDefaultCases
    <3>2. "" \in Texts /\ Scalar[t][""] \subseteq {""}
      BY <2>2, ScalarAssumption
    <3>3. PICK e : e = Scalar[t][""]
      OBVIOUS
    <3>4. e = {} \/ e = {""}
      BY <3>2, <3>3
    <3>5. OrDefault("", e) = ""
      BY <3>4, OrDefaultCases
    <3> QED  BY <2>1, <3>1, <3>2, <3>3, <3>5
  <2>8. CASE o # {}
    <3>1. T # {}
      BY <2>4, <2>8
    <3>2. PICK x : T = {x}
      BY <2>6, <3>1, OptionCases
    <3>3. x \in Texts /\ o = Scalar[t][x]
      BY <2>4, <2>6, <3>2
    <3>4. /\ IsOption(o) /\ o \subseteq Texts
          /\ \A y \in o : Scalar[t][y] = {y}
      BY <2>2, <3>3, ScalarAssumption
    <3>5. PICK y : o = {y}
      BY <2>8, <3>4, OptionCases
    <3>6. p[k] = y /\ y \in Texts /\ Scalar[t][y] = {y}
      BY <2>5, <3>4, <3>5, OrDefaultCases
    <3>7. OrDefault("", Scalar[t][p[k]]) = y
      <4>1. PICK e : e = Scalar[t][p[k]]
        OBVIOUS
      <4>2. e = {y}
        BY <3>6, <4>1
      <4>3. OrDefault("", e) = y
        BY <4>2, OrDefaultCases
      <4> QED  BY <4>1, <4>3, Zenon
    <3> QED  BY <2>1, <3>6, <3>7, Zenon
  <2> QED  BY <2>7, <2>8
<1>3. AsTyped(C, p) = [k \in DOMAIN C |-> OrDefault("", Scalar[C[k]][p[k]])]
  BY <1>1 DEF AsTyped
<1>4. [k \in DOMAIN C |-> OrDefault("", Scalar[C[k]][p[k]])] = [k \in DOMAIN C |-> p[k]]
  BY <1>2
<1> QED  BY <1>1, <1>2, <1>3, <1>4 DEF IsMap

LEMMA AsSentForm ==
    ASSUME NEW C, NEW a, IsAddFile(a)
    PROVE  AsSent(C, a) = [kind |-> "add", path |-> a.path, attrs |-> a.attrs,
                           partition_values |-> AsTyped(C, a.partition_values),
                           data_change |-> 1, stats |-> FiniteStats(a.stats), tags |-> NoMap]
<1>1. PICK pa, at, pv, dc, st, tg :
          a = [kind |-> "add", path |-> pa, attrs |-> at, partition_values |-> pv,
               data_change |-> dc, stats |-> st, tags |-> tg]
  BY DEF IsAddFile
<1>2. a.path = pa /\ a.attrs = at /\ a.partition_values = pv /\ a.stats = st
  BY <1>1
<1>3. PICK fs, nm, ty : fs = FiniteStats(st) /\ nm = NoMap /\ ty = AsTyped(C, pv)
  OBVIOUS
<1>4. AsSent(C, a) = [a EXCEPT !.data_change = 1, !.tags = nm, !.stats = fs, !.partition_values = ty]
  BY <1>1, <1>2, <1>3 DEF AsSent
<1>5. [a EXCEPT !.data_change = 1, !.tags = nm, !.stats = fs, !.partition_values = ty] =
        [kind |-> "add", path |-> pa, attrs |-> at, partition_values |-> ty,
         data_change |-> 1, stats |-> fs, tags |-> nm]
  <2>1. PICK b : b = [a EXCEPT !.data_change = 1]
    OBVIOUS
  <2>2. b = [kind |-> "add", path |-> pa, attrs |-> at, partition_values |-> pv,
             data_change |-> 1, stats |-> st, tags |-> tg]
    BY <1>1, <2>1
  <2>3. PICK c : c = [b EXCEPT !.tags = nm]
    OBVIOUS
  <2>4. c = [kind |-> "add", path |-> pa, attrs |-> at, partition_values |-> pv,
             data_change |-> 1, stats |-> st, tags |-> nm]
    BY <2>2, <2>3
  <2>5. PICK d : d = [c EXCEPT !.stats = fs]
    OBVIOUS
  <2>6. d = [kind |-> "add", path |-> pa, attrs |-> at, partition_values |-> pv,
             data_change |-> 1, stats |-> fs, tags |-> nm]
    BY <2>4, <2>5
  <2>7. [d EXCEPT !.partition_values = ty] =
          [kind |-> "add", path |-> pa, attrs |-> at, partition_values |-> ty,
           data_change |-> 1, stats |-> fs, tags |-> nm]
    BY <2>6
  <2>8. [a EXCEPT !.data_change = 1, !.tags = nm, !.stats = fs, !.partition_values = ty] =
          [d EXCEPT !.partition_values = ty]
    BY <1>1, <2>1, <2>3, <2>5
  <2> QED  BY <2>7, <2>8
<1> QED  BY <1>2, <1>3, <1>4, <1>5

(* A file that was sent is in the log such that it is listed as sent.      *)
LEMMA FileThereAndBack ==
    ASSUME NEW C, NEW a, IsAddFile(a), a.kind = "add", NEW b, map_action(a) = {b}
    PROVE  IsLoggedFile(b) /\ FileView(C, b) = AsSent(C, a)
<1>1. PICK dc : b = [kind |-> "add", path |-> a.path, attrs |-> a.attrs,
                     partition_values |-> map_string_map(a.partition_values), data_change |-> dc,
                     stats |-> map_file_stats(a.stats), tags |-> map_optional_string_map(a.tags)]
  BY DEF map_action
<1>2. /\ b.kind = "add" /\ b.path = a.path /\ b.attrs = a.attrs
      /\ b.partition_values = map_string_map(a.partition_values)
      /\ b.stats = map_file_stats(a.stats)
  BY <1>1
<1>3. IsOption(a.stats) /\ (\A s \in a.stats : IsStats(s)) /\ IsMap(a.partition_values)
  BY DEF IsAddFile
<1>4. IsLoggedFile(b)
  <2>1. IsOption(b.stats) /\ (\A text \in b.stats : IsOption(text))
    BY <1>2, <1>3, StatsThereAndBack
  <2>2. \A w \in UNION b.stats : IsJsonMap(w.minValues) /\ IsJsonMap(w.maxValues)
    BY <1>2, <1>3, StatsThereAndBack
  <2>3. NoMap \notin b.tags
    <3>1. b.tags = map_optional_string_map(a.tags)
      BY <1>1
    <3> QED  BY <3>1 DEF map_optional_string_map, map_string_map, NoMap
  <2>4. ASSUME NEW k \in DOMAIN b.partition_values
        PROVE  IsOption(b.partition_values[k]) /\ b.partition_values[k] \subseteq Texts
    <3>1. PICK m : m = a.partition_values
      OBVIOUS
    <3>2. k \in DOMAIN m /\ b.partition_values[k] = {m[k]}
      BY <1>2, <2>4, <3>1 DEF map_string_map
    <3>3. m[k] \in Texts
      BY <3>1, <3>2 DEF IsAddFile
    <3> QED  BY <3>2, <3>3 DEF IsOption
  <2> QED  BY <1>2, <2>1, <2>2, <2>3, <2>4 DEF IsLoggedFile
<1>5. map_stats_json_to_pb(b.stats) = FiniteStats(a.stats)
  BY <1>2, <1>3, StatsThereAndBack
<1>6. Reported(C, b) = AsTyped(C, a.partition_values)
  BY <1>2, PartitionThereAndBack
<1>7. FileView(C, b) = [kind |-> "add", path |-> a.path, attrs |-> a.attrs,
                        partition_values |-> AsTyped(C, a.partition_values),
                        data_change |-> 1, stats |-> FiniteStats(a.stats), tags |-> NoMap]
  BY <1>2, <1>5, <1>6, FileViewForm
<1> QED  BY <1>4, <1>7, AsSentForm

(* A listed file can be sent, and is then listed as it is.                 *)
LEMMA ListedFile ==
    ASSUME NEW C, TypedColumns(C), NEW a, IsLoggedFile(a), NEW f, f = FileView(C, a)
    PROVE  /\ f.kind = "add" /\ f.path = a.path /\ f.data_change = 1
           /\ IsWireAction(f) /\ ~Bad(f) /\ AsSent(C, f) = f
<1>1. PICK pv : pv = Reported(C, a)
  OBVIOUS
<1>2. PICK st : st = map_stats_json_to_pb(a.stats)
  OBVIOUS
<1>3. f = [kind |-> "add", path |-> a.path, attrs |-> a.attrs, partition_values |-> pv,
           data_change |-> 1, stats |-> st, tags |-> NoMap]
  BY <1>1, <1>2, FileViewForm
<1>4. /\ f.kind = "add" /\ f.path = a.path /\ f.attrs = a.attrs /\ f.partition_values = pv
      /\ f.data_change = 1 /\ f.stats = st /\ f.tags = NoMap
  BY <1>3
<1>5. IsOption(st) /\ (\A s \in st : IsStats(s)) /\ FiniteStats(st) = st
  BY <1>2, StatsFromLog
<1>6. IsMap(pv) /\ (\A k \in DOMAIN pv : pv[k] \in Texts) /\ AsTyped(C, pv) = pv
  BY <1>1, ReportedAgain
<1>7. IsAddFile(f)
  BY <1>3, <1>4, <1>5, <1>6 DEF IsAddFile
<1>8. AsSent(C, f) = f
  BY <1>3, <1>4, <1>5, <1>6, <1>7, AsSentForm
<1>9. IsWireAction(f) /\ ~Bad(f)
  BY <1>4, <1>7 DEF IsWireAction, Bad
<1> QED  BY <1>4, <1>8, <1>9

----------------------------------------------------------------------------
(* Metadata there and back: "not set" comes back as empty or zero.         *)
LEMMA NoneThereAndBack == \A x, v : OrDefault(x, NoneIf(x, v)) = v
<1> TAKE x, v
<1>1. CASE x = v
  <2>1. NoneIf(x, v) = {}
    BY <1>1 DEF NoneIf
  <2> QED  BY <1>1, <2>1, OrDefaultCases
<1>2. CASE x # v
  <2>1. NoneIf(x, v) = {v}
    BY <1>2 DEF NoneIf
  <2> QED  BY <2>1, OrDefaultCases
<1> QED  BY <1>1, <1>2

LEMMA MetadataThereAndBack ==
    ASSUME NEW m, IsMetadata(m)
    PROVE  /\ build_metadata_and_protocol(map_metadata(m)) = [m EXCEPT !.schema_string = Canonical(@)]
           /\ map_metadata(m).partitioning = m.partitioning
<1>1. PICK at, na, de, sc, pa, ti :
          m = [kind |-> "metaData", attrs |-> at, name |-> na, description |-> de,
               schema_string |-> sc, partitioning |-> pa, created_time |-> ti]
  BY DEF IsMetadata
<1>2. PICK ln, ld, lt, ca : ln = NoneIf("", na) /\ ld = NoneIf("", de) /\ lt = NoneIf(0, ti) /\ ca = Canonical(sc)
  OBVIOUS
<1>3. PICK b : b = map_metadata(m)
  OBVIOUS
<1>4. b = [kind |-> "metaData", attrs |-> at, name |-> ln, description |-> ld,
           schema_string |-> sc, partitioning |-> pa, created_time |-> lt]
  <2>1. b = [m EXCEPT !.name = ln, !.description = ld, !.created_time = lt]
    BY <1>1, <1>2, <1>3 DEF map_metadata
  <2> QED  BY <1>1, <2>1
<1>5. PICK g : g = build_metadata_and_protocol(b)
  OBVIOUS
<1>6. OrDefault("", ln) = na /\ OrDefault("", ld) = de /\ OrDefault(0, lt) = ti
  BY <1>2, NoneThereAndBack
<1>7. g = [kind |-> "metaData", attrs |-> at, name |-> na, description |-> de,
           schema_string |-> ca, partitioning |-> pa, created_time |-> ti]
  <2>1. g = [b EXCEPT !.name = na, !.description = de, !.created_time = ti, !.schema_string = ca]
    BY <1>2, <1>4, <1>5, <1>6 DEF build_metadata_and_protocol
  <2> QED  BY <1>4, <2>1
<1>8. [m EXCEPT !.schema_string = Canonical(@)] = [m EXCEPT !.schema_string = ca]
  BY <1>1, <1>2
<1>9. [m EXCEPT !.schema_string = ca] =
        [kind |-> "metaData", attrs |-> at, name |-> na, description |-> de,
         schema_string |-> ca, partitioning |-> pa, created_time |-> ti]
  BY <1>1
<1>10. b.partitioning = m.partitioning
  BY <1>1, <1>4
<1> QED  BY <1>3, <1>5, <1>7, <1>8, <1>9, <1>10

----------------------------------------------------------------------------
(* Log replay.                                                             *)
LEMMA LatestMember ==
    ASSUME NEW l, NEW x
    PROVE  x \in Latest(l) <=> \E v \in DOMAIN l : \E i \in DOMAIN l[v] : Holds(l, v, i) /\ x = l[v][i]
  BY DEF Latest

LEMMA LastOfMember ==
    ASSUME NEW k, NEW l, NEW x
    PROVE  x \in LastOf(k, l) <=>
               \E v \in DOMAIN l : \E i \in DOMAIN l[v] : IsLast(k, l, v, i) /\ x = l[v][i]
  BY DEF LastOf

(* A nonempty set of numbers up to n has a greatest one.                   *)
LEMMA Greatest ==
    ASSUME NEW n \in Nat, NEW T \in SUBSET (1 .. n), T # {}
    PROVE  \E m \in T : \A j \in T : j <= m
<1> DEFINE U == {n - i : i \in T}
<1>0. \A i \in T : i \in Nat /\ i >= 1 /\ i <= n
  OBVIOUS
<1>1. U \subseteq Nat /\ U # {}
  <2>1. \A i \in T : n - i \in Nat
    BY <1>0
  <2> QED  BY <2>1
<1>2. PICK x \in U : \A y \in U : ~ (<<y, x>> \in OpToRel(<, Nat))
  BY <1>1, WFMin, NatLessThanWellFounded
<1>3. \A y \in U : ~(y < x)
  BY <1>1, <1>2 DEF OpToRel
<1>4. PICK m \in T : x = n - m
  OBVIOUS
<1>5. ASSUME NEW j \in T PROVE j <= m
  <2>1. n - j \in U
    OBVIOUS
  <2>2. ~(n - j < n - m)
    BY <1>3, <1>4, <2>1
  <2>3. j \in Nat /\ m \in Nat
    BY <1>0
  <2> QED  BY <2>2, <2>3
<1> QED  BY <1>5

(* A log that has an action of a kind, or gets one, has a last one.        *)
LEMMA LastOfGrows ==
    ASSUME NEW k, NEW n \in Nat, NEW l, DOMAIN l = 1 .. n,
           NEW q, DOMAIN q = 1 .. n + 1, \A v \in 1 .. n : q[v] = l[v], IsSeq(q[n + 1]),
           LastOf(k, l) # {} \/ \E i \in DOMAIN q[n + 1] : q[n + 1][i].kind = k
    PROVE  LastOf(k, q) # {}
<1>0. n + 1 \in DOMAIN q /\ \A v \in 1 .. n : v \in DOMAIN q /\ n + 1 > v
  OBVIOUS
<1>1. CASE \E i \in DOMAIN q[n + 1] : q[n + 1][i].kind = k
  <2>1. PICK e \in Nat : DOMAIN q[n + 1] = 1 .. e
    BY SeqFacts
  <2>2. PICK m \in {i \in 1 .. e : q[n + 1][i].kind = k} :
            \A j \in {i \in 1 .. e : q[n + 1][i].kind = k} : j <= m
    <3> DEFINE T == {i \in 1 .. e : q[n + 1][i].kind = k}
    <3>1. T \in SUBSET (1 .. e) /\ T # {}
      BY <1>1, <2>1
    <3> HIDE DEF T
    <3>2. \E m \in T : \A j \in T : j <= m
      BY <3>1, Greatest
    <3> QED  BY <3>2 DEF T
  <2>3. ASSUME NEW w \in DOMAIN q, NEW j \in DOMAIN q[w], After(w, j, n + 1, m)
        PROVE  q[w][j].kind # k
    <3>1. w = n + 1 /\ j > m
      BY <2>3 DEF After
    <3>2. j \in 1 .. e
      BY <3>1, <2>1
    <3>3. ~(j <= m)
      BY <3>1, <3>2, <2>2
    <3> QED  BY <3>1, <3>2, <3>3, <2>2
  <2>4. IsLast(k, q, n + 1, m)
    BY <2>2, <2>3 DEF IsLast
  <2>5. m \in DOMAIN q[n + 1]
    BY <2>1, <2>2
  <2>6. q[n + 1][m] \in LastOf(k, q)
    BY <1>0, <2>4, <2>5, LastOfMember
  <2> QED  BY <2>6
<1>2. CASE ~\E i \in DOMAIN q[n + 1] : q[n + 1][i].kind = k
  <2>1. PICK x : x \in LastOf(k, l)
    BY <1>2
  <2>v. PICK v \in 1 .. n : \E i \in DOMAIN l[v] : IsLast(k, l, v, i)
    BY <2>1, LastOfMember
  <2>2. PICK i \in DOMAIN l[v] : IsLast(k, l, v, i)
    BY <2>v
  <2>3. ASSUME NEW w \in DOMAIN q, NEW j \in DOMAIN q[w], After(w, j, v, i)
        PROVE  q[w][j].kind # k
    <3>1. CASE w = n + 1
      BY <3>1, <1>2
    <3>2. CASE w \in 1 .. n
      BY <3>2, <2>2, <2>3 DEF IsLast
    <3> QED  BY <3>1, <3>2
  <2>4. q[v] = l[v] /\ l[v][i].kind = k
    BY <2>2 DEF IsLast
  <2>5. IsLast(k, q, v, i)
    BY <2>3, <2>4 DEF IsLast
  <2>6. v \in DOMAIN q /\ i \in DOMAIN q[v]
    BY <1>0, <2>4
  <2>7. q[v][i] \in LastOf(k, q)
    BY <2>5, <2>6, LastOfMember
  <2> QED  BY <2>7
<1> QED  BY <1>1, <1>2

----------------------------------------------------------------------------
(* What is in the log came from what was sent, place by place.             *)
Corresponds(a, b) ==
    /\ \/ a.kind = "foreign" /\ b.kind = "add" /\ IsLoggedFile(b)
       \/ /\ a.kind # "foreign" /\ b.kind = a.kind
          /\ IsWireAction(a) /\ ~Bad(a) /\ map_action(a) = {b}
    /\ a.kind \in AboutFiles => b.path = a.path

LEMMA MappedCorresponds ==
    ASSUME NEW a, IsWireAction(a), ~Bad(a), NEW b, map_action(a) = {b}
    PROVE  Corresponds(a, b)
<1>1. PICK c : /\ map_action(a) = {c} /\ c.kind = a.kind
               /\ a.kind \in {"add", "remove"} => c.path = a.path
  BY MapAction
<1>2. c = b
  BY <1>1
<1>3. a.kind # "foreign"
  BY DEF IsWireAction
<1> QED  BY <1>1, <1>2, <1>3 DEF Corresponds, AboutFiles

LEMMA CorrespondingFile ==
    ASSUME NEW a, NEW b, Corresponds(a, b), b.kind = "add"
    PROVE  IsLoggedFile(b)
<1>1. CASE a.kind = "foreign"
  BY <1>1 DEF Corresponds, IsWireAction
<1>2. CASE a.kind # "foreign"
  <2>1. a.kind = "add" /\ IsAddFile(a) /\ map_action(a) = {b}
    BY <1>2 DEF Corresponds, IsWireAction
  <2> QED  BY <2>1, FileThereAndBack
<1> QED  BY <1>1, <1>2

LEMMA LogDomains ==
    ASSUME TypeOK
    PROVE  \E n \in Nat : /\ n = Len(log) /\ n = Len(sent)
                           /\ DOMAIN log = 1 .. n /\ DOMAIN sent = 1 .. n /\ DOMAIN Actions = 1 .. n
                           /\ \A v \in 1 .. n : Actions[v] = log[v].actions
<1>1. /\ Len(log) \in Nat /\ Len(log) = Len(sent)
      /\ DOMAIN log = 1 .. Len(log) /\ DOMAIN sent = 1 .. Len(sent)
  BY SeqFacts DEF TypeOK
<1> QED  BY <1>1 DEF Actions

LEMMA PlacesCorrespond ==
    ASSUME TypeOK, NEW v \in DOMAIN log
    PROVE  /\ IsSeq(sent[v]) /\ IsSeq(log[v].actions) /\ Len(log[v].actions) = Len(sent[v])
           /\ DOMAIN log[v].actions = DOMAIN sent[v]
           /\ \A i \in DOMAIN sent[v] : Corresponds(sent[v][i], log[v].actions[i])
<1>1. Logged(v)
  BY DEF TypeOK
<1>2. CASE log[v].writer = "service"
  <2>1. IsRequest(sent[v]) /\ map_actions(sent[v]) = {log[v].actions}
    BY <1>1, <1>2 DEF Logged
  <2>2. /\ IsSeq(log[v].actions) /\ Len(log[v].actions) = Len(sent[v])
        /\ DOMAIN log[v].actions = DOMAIN sent[v]
        /\ \A i \in DOMAIN sent[v] : ~Bad(sent[v][i]) /\ map_action(sent[v][i]) = {log[v].actions[i]}
    BY <2>1, MapActions
  <2>3. \A i \in DOMAIN sent[v] : Corresponds(sent[v][i], log[v].actions[i])
    BY <2>1, <2>2, MappedCorresponds DEF IsRequest
  <2> QED  BY <2>1, <2>2, <2>3 DEF IsRequest
<1>3. CASE log[v].writer # "service"
  <2>1. PICK f \in ForeignFiles : /\ log[v].actions = <<f>>
                                  /\ sent[v] = <<[kind |-> "foreign", path |-> f.path]>>
    BY <1>1, <1>3 DEF Logged
  <2>2. IsLoggedFile(f) /\ f.kind = "add"
    BY ForeignFilesInTheLog DEF IsLoggedFile
  <2>3. PICK g : g = [kind |-> "foreign", path |-> f.path]
    OBVIOUS
  <2>4. g.kind = "foreign" /\ g.path = f.path
    BY <2>3
  <2>5. Corresponds(g, f)
    BY <2>2, <2>4 DEF Corresponds
  <2>6. /\ IsSeq(<<f>>) /\ DOMAIN <<f>> = {1} /\ <<f>>[1] = f /\ Len(<<f>>) = 1
        /\ IsSeq(<<g>>) /\ DOMAIN <<g>> = {1} /\ <<g>>[1] = g /\ Len(<<g>>) = 1
    BY OneElement
  <2>7. log[v].actions = <<f>> /\ sent[v] = <<g>>
    BY <2>1, <2>3
  <2> QED  BY <2>5, <2>6, <2>7
<1> QED  BY <1>2, <1>3

----------------------------------------------------------------------------
(* Replaying what was sent and replaying the log choose the same places.   *)
SamePlaces(l, q) ==
    /\ DOMAIN l = DOMAIN q
    /\ \A v \in DOMAIN l : /\ DOMAIN l[v] = DOMAIN q[v]
                           /\ \A i \in DOMAIN l[v] : Corresponds(l[v][i], q[v][i])

LEMMA SentAndLogged ==
    ASSUME TypeOK
    PROVE  SamePlaces(sent, Actions)
<1>1. PICK n \in Nat : /\ DOMAIN log = 1 .. n /\ DOMAIN sent = 1 .. n /\ DOMAIN Actions = 1 .. n
                       /\ \A v \in 1 .. n : Actions[v] = log[v].actions
  BY LogDomains
<1>2. \A v \in 1 .. n : /\ DOMAIN sent[v] = DOMAIN Actions[v]
                        /\ \A i \in DOMAIN sent[v] : Corresponds(sent[v][i], Actions[v][i])
  BY <1>1, PlacesCorrespond
<1> QED  BY <1>1, <1>2 DEF SamePlaces

LEMMA CorrespondingKinds ==
    ASSUME NEW a, NEW b, Corresponds(a, b)
    PROVE  /\ a.kind = "metaData" <=> b.kind = "metaData"
           /\ a.kind \in AboutFiles <=> b.kind \in AboutFiles
           /\ a.kind \in AboutFiles => b.path = a.path
<1>1. CASE a.kind = "foreign"
  BY <1>1 DEF Corresponds, AboutFiles, IsWireAction
<1>2. CASE a.kind # "foreign"
  BY <1>2 DEF Corresponds
<1> QED  BY <1>1, <1>2

LEMMA LastPlaces ==
    ASSUME NEW l, NEW q, SamePlaces(l, q), NEW v \in DOMAIN l, NEW i \in DOMAIN l[v]
    PROVE  IsLast("metaData", l, v, i) <=> IsLast("metaData", q, v, i)
<1>1. \A w \in DOMAIN l : /\ DOMAIN l[w] = DOMAIN q[w]
                          /\ \A j \in DOMAIN l[w] : l[w][j].kind = "metaData" <=> q[w][j].kind = "metaData"
  BY CorrespondingKinds DEF SamePlaces
<1>2. DOMAIN l = DOMAIN q
  BY DEF SamePlaces
<1> QED  BY <1>1, <1>2 DEF IsLast

LEMMA HoldingPlaces ==
    ASSUME NEW l, NEW q, SamePlaces(l, q), NEW v \in DOMAIN l, NEW i \in DOMAIN l[v]
    PROVE  Holds(l, v, i) <=> Holds(q, v, i)
<1>1. \A w \in DOMAIN l : /\ DOMAIN l[w] = DOMAIN q[w]
                          /\ \A j \in DOMAIN l[w] :
                                /\ l[w][j].kind \in AboutFiles <=> q[w][j].kind \in AboutFiles
                                /\ l[w][j].kind \in AboutFiles => q[w][j].path = l[w][j].path
  BY CorrespondingKinds DEF SamePlaces
<1>2. DOMAIN l = DOMAIN q
  BY DEF SamePlaces
<1> QED  BY <1>1, <1>2 DEF Holds

(* The partition columns are those of the metadata that was sent last, and *)
(* their types are known ones.                                             *)
LEMMA MetadataPlace ==
    ASSUME NEW l, NEW q, SamePlaces(l, q), NEW v \in DOMAIN l, NEW i \in DOMAIN l[v],
           NEW a, a = l[v][i], NEW b, b = q[v][i], a.kind = "metaData"
    PROVE  IsMetadata(a) /\ b = map_metadata(a)
<1>1. Corresponds(a, b)
  BY DEF SamePlaces
<1>2. IsMetadata(a) /\ map_action(a) = {b}
  BY <1>1 DEF Corresponds, IsWireAction
<1>3. map_action(a) = {map_metadata(a)}
  BY DEF map_action
<1> QED  BY <1>2, <1>3

LEMMA PartitioningPlace ==
    ASSUME NEW l, NEW q, SamePlaces(l, q), NEW v \in DOMAIN l, NEW i \in DOMAIN l[v],
           NEW a, a = l[v][i], NEW b, b = q[v][i], a.kind = "metaData"
    PROVE  b.partitioning = a.partitioning /\ TypedColumns(a.partitioning)
<1>1. IsMetadata(a) /\ b = map_metadata(a)
  BY MetadataPlace
<1>2. b.partitioning = a.partitioning
  BY <1>1, MetadataThereAndBack
<1>3. TypedColumns(a.partitioning)
  BY <1>1 DEF IsMetadata, TypedColumns
<1> QED  BY <1>2, <1>3

LEMMA ColumnsSent ==
    ASSUME NEW l, NEW q, SamePlaces(l, q)
    PROVE  PartitionColumns(q) = PartitionColumns(l) /\ TypedColumns(PartitionColumns(q))
<1> DEFINE L == {m.partitioning : m \in LastOf("metaData", l)}
           Q == {m.partitioning : m \in LastOf("metaData", q)}
<1>1. ASSUME NEW x \in L PROVE x \in Q /\ TypedColumns(x)
  <2>1. PICK m \in LastOf("metaData", l) : x = m.partitioning
    OBVIOUS
  <2>2. PICK v \in DOMAIN l : \E i \in DOMAIN l[v] : IsLast("metaData", l, v, i) /\ m = l[v][i]
    BY LastOfMember
  <2>3. PICK i \in DOMAIN l[v] : IsLast("metaData", l, v, i) /\ m = l[v][i]
    BY <2>2
  <2>4. IsLast("metaData", q, v, i) /\ v \in DOMAIN q /\ i \in DOMAIN q[v]
    BY <2>3, LastPlaces DEF SamePlaces
  <2>5. q[v][i] \in LastOf("metaData", q)
    BY <2>4, LastOfMember
  <2>6. l[v][i].kind = "metaData"
    BY <2>3 DEF IsLast
  <2>7. q[v][i].partitioning = l[v][i].partitioning /\ TypedColumns(l[v][i].partitioning)
    <3>1. PICK a, b : a = l[v][i] /\ b = q[v][i]
      OBVIOUS
    <3>2. a.kind = "metaData"
      BY <2>6, <3>1
    <3>3. b.partitioning = a.partitioning /\ TypedColumns(a.partitioning)
      BY <3>1, <3>2, PartitioningPlace
    <3> QED  BY <3>1, <3>3
  <2>8. q[v][i].partitioning = x /\ TypedColumns(x)
    BY <2>1, <2>3, <2>7
  <2> QED  BY <2>5, <2>8
<1>2. ASSUME NEW x \in Q PROVE x \in L
  <2>1. PICK m \in LastOf("metaData", q) : x = m.partitioning
    OBVIOUS
  <2>2. PICK v \in DOMAIN q : \E i \in DOMAIN q[v] : IsLast("metaData", q, v, i) /\ m = q[v][i]
    BY LastOfMember
  <2>3. PICK i \in DOMAIN q[v] : IsLast("metaData", q, v, i) /\ m = q[v][i]
    BY <2>2
  <2>4. v \in DOMAIN l /\ i \in DOMAIN l[v]
    BY <2>3 DEF SamePlaces
  <2>5. IsLast("metaData", l, v, i)
    BY <2>3, <2>4, LastPlaces
  <2>6. l[v][i] \in LastOf("metaData", l) /\ l[v][i].kind = "metaData"
    BY <2>4, <2>5, LastOfMember DEF IsLast
  <2>7. q[v][i].partitioning = l[v][i].partitioning
    <3>1. PICK a, b : a = l[v][i] /\ b = q[v][i]
      OBVIOUS
    <3>2. a.kind = "metaData"
      BY <2>6, <3>1
    <3>3. b.partitioning = a.partitioning
      BY <2>4, <3>1, <3>2, PartitioningPlace
    <3> QED  BY <3>1, <3>3
  <2> QED  BY <2>1, <2>3, <2>6, <2>7
<1>3. PartitionColumns(l) = OrDefault(NoMap, L) /\ PartitionColumns(q) = OrDefault(NoMap, Q)
  BY DEF PartitionColumns
<1>4. L = Q /\ \A x \in Q : TypedColumns(x)
  <2> HIDE DEF L, Q
  <2> QED  BY <1>1, <1>2
<1> HIDE DEF L, Q
<1>5. CASE Q = {}
  <2>1. OrDefault(NoMap, Q) = NoMap
    BY <1>5, OrDefaultCases
  <2>2. TypedColumns(NoMap)
    BY DEF TypedColumns, NoMap
  <2> QED  BY <1>3, <1>4, <2>1, <2>2
<1>6. CASE Q # {}
  <2>1. OrDefault(NoMap, Q) \in Q
    BY <1>6 DEF OrDefault, Unwrap
  <2> QED  BY <1>3, <1>4, <2>1
<1> QED  BY <1>5, <1>6

----------------------------------------------------------------------------
(* One more version: the earlier ones stay.                                *)
Grown(n, e, r) ==
    /\ n = Len(log) /\ DOMAIN log = 1 .. n /\ DOMAIN sent = 1 .. n /\ DOMAIN Actions = 1 .. n
    /\ IsSeq(log)' /\ IsSeq(sent)' /\ Len(log)' = Len(sent)'
    /\ DOMAIN log' = 1 .. n + 1 /\ DOMAIN sent' = 1 .. n + 1 /\ DOMAIN Actions' = 1 .. n + 1
    /\ \A v \in 1 .. n : log'[v] = log[v] /\ sent'[v] = sent[v] /\ Actions'[v] = Actions[v]
    /\ log'[n + 1] = e /\ sent'[n + 1] = r /\ Actions'[n + 1] = e.actions

LEMMA LogGrows ==
    ASSUME TypeOK, NEW e, NEW r, log' = Append(log, e), sent' = Append(sent, r)
    PROVE  \E n \in Nat : Grown(n, e, r)
<1>1. PICK n \in Nat : /\ n = Len(log) /\ n = Len(sent)
                       /\ DOMAIN log = 1 .. n /\ DOMAIN sent = 1 .. n /\ DOMAIN Actions = 1 .. n
                       /\ \A v \in 1 .. n : Actions[v] = log[v].actions
  BY LogDomains
<1>2. IsSeq(log) /\ IsSeq(sent)
  BY DEF TypeOK
<1>3. /\ IsSeq(log') /\ Len(log') = n + 1 /\ DOMAIN log' = 1 .. n + 1
      /\ \A v \in 1 .. n : log'[v] = log[v]
      /\ log'[n + 1] = e
  BY <1>1, <1>2, AppendFacts
<1>4. /\ IsSeq(sent') /\ Len(sent') = n + 1 /\ DOMAIN sent' = 1 .. n + 1
      /\ \A v \in 1 .. n : sent'[v] = sent[v]
      /\ sent'[n + 1] = r
  BY <1>1, <1>2, AppendFacts
<1>5. Actions' = [v \in DOMAIN log' |-> log'[v].actions]
  BY DEF Actions
<1>6. DOMAIN Actions' = 1 .. n + 1 /\ \A v \in 1 .. n + 1 : Actions'[v] = log'[v].actions
  BY <1>3, <1>5
<1>7. \A v \in 1 .. n : v \in 1 .. n + 1
  OBVIOUS
<1>8. n + 1 \in 1 .. n + 1
  OBVIOUS
<1>9. \A v \in 1 .. n : Actions'[v] = Actions[v]
  BY <1>1, <1>3, <1>6, <1>7
<1>10. Actions'[n + 1] = e.actions
  BY <1>3, <1>6, <1>8
<1>11. IsSeq(log)' /\ IsSeq(sent)' /\ Len(log)' = Len(sent)'
  BY <1>3, <1>4
<1>12. Grown(n, e, r)
  BY <1>1, <1>3, <1>4, <1>6, <1>9, <1>10, <1>11 DEF Grown
<1> QED  BY <1>12

(* A new version keeps IInv if it is logged as its writer sent it, with    *)
(* the operation its actions call for.                                     *)
LEMMA GrownInv ==
    ASSUME IInv, NEW n \in Nat, NEW e, NEW r, Grown(n, e, r),
           Logged(n + 1)', IsSeq(e.actions),
           IsRequest(answer.request)',
           answer'.status \in {"none", "OK", "INVALID_ARGUMENT", "FAILED_PRECONDITION"},
           answer'.status = "INVALID_ARGUMENT" <=> map_actions(answer'.request) = {},
           e.writer = "service" /\ n > 0 => e.op = build_operation(e.actions),
           n = 0 => \E i \in DOMAIN e.actions : e.actions[i].kind = "metaData"
    PROVE  IInv'
<1>1. TypeOK
  BY DEF IInv
<1>2. \A v \in DOMAIN log' : v \in 1 .. n \/ v = n + 1
  BY DEF Grown
<1>3. ASSUME NEW v \in 1 .. n PROVE Logged(v)'
  <2>1. Logged(v) /\ log'[v] = log[v] /\ sent'[v] = sent[v]
    BY <1>1 DEF TypeOK, Grown
  <2> QED  BY <2>1 DEF Logged
<1>4. \A v \in DOMAIN log' : Logged(v)'
  BY <1>2, <1>3
<1>5. TypeOK'
  BY <1>4 DEF TypeOK, Grown
<1>6. ASSUME NEW v \in DOMAIN log', v > 1, log'[v].writer = "service"
      PROVE  log'[v].op = build_operation(log'[v].actions)
  <2>1. CASE v \in 1 .. n
    <3>1. v \in ServiceCommits /\ log'[v] = log[v]
      BY <1>6, <2>1 DEF ServiceCommits, Grown
    <3>2. log[v].op = build_operation(log[v].actions)
      BY <3>1 DEF IInv
    <3> QED  BY <3>1, <3>2
  <2>2. CASE v = n + 1
    <3>1. n > 0 /\ log'[v] = e
      BY <1>6, <2>2 DEF Grown
    <3> QED  BY <1>6, <3>1
  <2> QED  BY <1>2, <2>1, <2>2
<1>7. \A v \in ServiceCommits' : log'[v].op = build_operation(log'[v].actions)
  BY <1>6 DEF ServiceCommits
<1>8. LastOf("metaData", Actions') # {}
  <2>1. LastOf("metaData", Actions) # {} \/ \E i \in DOMAIN e.actions : e.actions[i].kind = "metaData"
    <3>1. CASE n = 0
      BY <3>1
    <3>2. CASE n > 0
      <4>1. log # <<>>
        BY <3>2 DEF Grown
      <4> QED  BY <4>1 DEF IInv
    <3> QED  BY <3>1, <3>2
  <2>2. PICK l, q : l = Actions /\ q = Actions'
    OBVIOUS
  <2>3. /\ DOMAIN l = 1 .. n /\ DOMAIN q = 1 .. n + 1
        /\ \A v \in 1 .. n : q[v] = l[v]
        /\ q[n + 1] = e.actions
    BY <2>2 DEF Grown
  <2>4. IsSeq(q[n + 1]) /\ (LastOf("metaData", l) # {} \/ \E i \in DOMAIN q[n + 1] : q[n + 1][i].kind = "metaData")
    BY <2>1, <2>2, <2>3
  <2>5. LastOf("metaData", q) # {}
    BY <2>3, <2>4, LastOfGrows
  <2> QED  BY <2>2, <2>5
<1>9. LastOf("metaData", Actions)' # {}
  BY <1>8 DEF LastOf, IsLast
<1> QED  BY <1>5, <1>7, <1>9 DEF IInv

LEMMA InitIInv == Init => IInv
<1> SUFFICES ASSUME Init PROVE IInv
  OBVIOUS
<1>1. log = <<>> /\ sent = <<>> /\ answer.status = "none" /\ answer.request = <<>>
  BY DEF Init
<1>2. IsSeq(<<>>) /\ DOMAIN <<>> = {} /\ Len(<<>>) = 0
  BY DEF IsSeq
<1>3. IsRequest(<<>>)
  BY <1>2 DEF IsRequest
<1>4. map_actions(<<>>) # {}
  BY <1>2 DEF map_actions
<1>5. TypeOK
  BY <1>1, <1>2, <1>3 DEF TypeOK
<1>6. ServiceCommits = {}
  BY <1>1, <1>2 DEF ServiceCommits
<1> QED  BY <1>1, <1>4, <1>5, <1>6 DEF IInv

(* Commit, of whatever a client can send.                                  *)
LEMMA CommitIInv ==
    ASSUME IInv, NEW r, IsRequest(r), commit(r)
    PROVE  IInv'
<1>1. ASSUME NEW status, Reply(r, status)
      PROVE  answer'.request = r /\ answer'.status = status
  BY <1>1 DEF Reply
<1>2. CASE /\ map_actions(r) = {}
           /\ Reply(r, "INVALID_ARGUMENT")
           /\ UNCHANGED <<log, sent>>
  <2>1. answer'.request = r /\ answer'.status = "INVALID_ARGUMENT" /\ log' = log /\ sent' = sent
    BY <1>1, <1>2
  <2>2. TypeOK'
    BY <2>1 DEF IInv, TypeOK, Logged
  <2> QED  BY <1>2, <2>1, <2>2 DEF IInv, ServiceCommits, Actions
<1>3. ASSUME NEW actions \in map_actions(r), Reply(r, "FAILED_PRECONDITION"), UNCHANGED <<log, sent>>
      PROVE  IInv'
  <2>1. answer'.request = r /\ answer'.status = "FAILED_PRECONDITION" /\ log' = log /\ sent' = sent
    BY <1>1, <1>3
  <2>2. TypeOK'
    BY <2>1 DEF IInv, TypeOK, Logged
  <2>3. map_actions(r) # {}
    BY <1>3
  <2> QED  BY <2>1, <2>2, <2>3 DEF IInv, ServiceCommits, Actions
<1>4. ASSUME NEW actions \in map_actions(r),
             log = <<>> => CanCreate(actions),
             NEW e, e = [writer |-> "service", actions |-> actions,
                         op |-> IF log = <<>> THEN [kind |-> "Create"] ELSE build_operation(actions)],
             log' = Append(log, e), sent' = Append(sent, r), Reply(r, "OK")
      PROVE  IInv'
  <2>1. TypeOK
    BY DEF IInv
  <2>2. PICK n \in Nat : Grown(n, e, r)
    BY <1>4, <2>1, LogGrows
  <2>3. e.writer = "service" /\ e.actions = actions
    BY <1>4
  <2>4. log # <<>> => e.op = build_operation(actions)
    BY <1>4
  <2>5. map_actions(r) = {actions} /\ IsSeq(actions)
    BY <1>4, MapActions
  <2>6. Logged(n + 1)'
    <3>1. ASSUME NEW i \in DOMAIN actions, actions[i].kind = "add" PROVE IsLoggedFile(actions[i])
      <4>1. i \in DOMAIN r /\ ~Bad(r[i]) /\ map_action(r[i]) = {actions[i]} /\ IsWireAction(r[i])
        BY <2>5, <3>1, MapActions DEF IsRequest
      <4>2. Corresponds(r[i], actions[i])
        BY <4>1, MappedCorresponds
      <4> QED  BY <3>1, <4>2, CorrespondingFile
    <3> QED  BY <2>2, <2>3, <2>5, <3>1 DEF Logged, Grown
  <2>7. n > 0 => log # <<>>
    BY <2>2 DEF Grown
  <2>8. n = 0 => \E i \in DOMAIN actions : actions[i].kind = "metaData"
    <3> SUFFICES ASSUME n = 0 PROVE \E i \in DOMAIN actions : actions[i].kind = "metaData"
      OBVIOUS
    <3>1. log = <<>>
      <4>1. IsSeq(log) /\ Len(log) = 0
        BY <2>1, <2>2 DEF TypeOK, Grown
      <4> QED  BY <4>1, EmptySeq DEF IsSeq
    <3>2. Of("metaData", actions) # {}
      BY <1>4, <3>1 DEF CanCreate
    <3> QED  BY <3>2 DEF Of
  <2>9. answer'.request = r /\ answer'.status = "OK"
    BY <1>1, <1>4
  <2>10. IsRequest(answer.request)'
    BY <2>9
  <2> QED  BY <2>2, <2>3, <2>4, <2>5, <2>6, <2>7, <2>8, <2>9, <2>10, GrownInv
<1> QED  BY <1>2, <1>3, <1>4 DEF commit

LEMMA ForeignIInv ==
    ASSUME IInv, NEW f \in ForeignFiles, ForeignCommit(f)
    PROVE  IInv'
<1>1. PICK e : e = [writer |-> "other", actions |-> <<f>>, op |-> Write]
  OBVIOUS
<1>2. PICK g : g = <<[kind |-> "foreign", path |-> f.path]>>
  OBVIOUS
<1>3. log' = Append(log, e) /\ sent' = Append(sent, g) /\ answer' = answer /\ Len(log) >= 1
  BY <1>1, <1>2 DEF ForeignCommit
<1>4. TypeOK
  BY DEF IInv
<1>5. PICK n \in Nat : Grown(n, e, g)
  BY <1>3, <1>4, LogGrows
<1>6. e.writer = "other" /\ e.actions = <<f>>
  BY <1>1
<1>7. Logged(n + 1)'
  <2>1. IsLoggedFile(f) /\ DOMAIN <<f>> = {1} /\ <<f>>[1] = f
    BY ForeignFilesInTheLog, OneElement
  <2> QED  BY <1>2, <1>5, <1>6, <2>1 DEF Logged, Grown
<1>8. n # 0
  BY <1>3, <1>5 DEF Grown
<1>9. IsSeq(e.actions)
  BY <1>6, OneElement
<1>10. /\ IsRequest(answer.request)'
       /\ answer'.status \in {"none", "OK", "INVALID_ARGUMENT", "FAILED_PRECONDITION"}
       /\ answer'.status = "INVALID_ARGUMENT" <=> map_actions(answer'.request) = {}
  BY <1>3 DEF IInv, TypeOK
<1> QED  BY <1>5, <1>6, <1>7, <1>8, <1>9, <1>10, GrownInv

LEMMA ListedMember ==
    ASSUME NEW f, NEW C, C = PartitionColumns(Actions)
    PROVE  f \in list_active_files <=>
               \E v \in DOMAIN Actions : \E i \in DOMAIN Actions[v] :
                  /\ Holds(Actions, v, i) /\ Actions[v][i].kind = "add"
                  /\ f = FileView(C, Actions[v][i])
<1>1. f \in list_active_files <=>
          \E a : a \in Latest(Actions) /\ a.kind = "add" /\ f = FileView(C, a)
  BY DEF list_active_files
<1> QED  BY <1>1, LatestMember

(* What is listed was logged as an Add, and can be sent.                   *)
LEMMA LoggedFiles ==
    ASSUME TypeOK, NEW v \in DOMAIN Actions, NEW i \in DOMAIN Actions[v], Actions[v][i].kind = "add"
    PROVE  IsLoggedFile(Actions[v][i])
<1>1. v \in DOMAIN log /\ Actions[v] = log[v].actions
  BY DEF Actions
<1> QED  BY <1>1 DEF TypeOK, Logged

LEMMA ListedFiles ==
    ASSUME TypeOK, NEW f \in list_active_files, NEW C, C = PartitionColumns(Actions)
    PROVE  /\ f.kind = "add" /\ IsWireAction(f) /\ ~Bad(f) /\ AsSent(C, f) = f
           /\ TypedColumns(C) /\ IsRequest(<<f>>)
<1>1. PICK v \in DOMAIN Actions : \E i \in DOMAIN Actions[v] :
          Actions[v][i].kind = "add" /\ f = FileView(C, Actions[v][i])
  BY ListedMember
<1>2. PICK i \in DOMAIN Actions[v] : Actions[v][i].kind = "add" /\ f = FileView(C, Actions[v][i])
  BY <1>1
<1>3. IsLoggedFile(Actions[v][i])
  BY <1>2, LoggedFiles
<1>4. TypedColumns(C)
  BY SentAndLogged, ColumnsSent
<1>5. f.kind = "add" /\ IsWireAction(f) /\ ~Bad(f) /\ AsSent(C, f) = f
  BY <1>2, <1>3, <1>4, ListedFile
<1>6. IsSeq(<<f>>) /\ DOMAIN <<f>> = {1} /\ <<f>>[1] = f
  BY OneElement
<1>7. \A x, y \in DOMAIN <<f>> : x = y
  BY <1>6
<1> QED  BY <1>4, <1>5, <1>6, <1>7 DEF IsRequest

LEMMA NextIInv == IInv /\ [Next]_vars => IInv'
<1> SUFFICES ASSUME IInv, [Next]_vars PROVE IInv'
  OBVIOUS
<1>1. ASSUME NEW r \in Requests, commit(r) PROVE IInv'
  BY <1>1, CommitIInv, RequestsOnTheWire
<1>2. ASSUME NEW f \in ForeignFiles, ForeignCommit(f) PROVE IInv'
  BY <1>2, ForeignIInv
<1>3. CASE Copy
  <2>1. PICK f \in list_active_files : commit(<<f>>)
    BY <1>3 DEF Copy
  <2>2. IsRequest(<<f>>)
    BY ListedFiles DEF IInv
  <2> QED  BY <2>1, <2>2, CommitIInv
<1>4. CASE UNCHANGED vars
  <2>1. log' = log /\ sent' = sent /\ answer' = answer
    BY <1>4 DEF vars
  <2>2. TypeOK'
    BY <2>1 DEF IInv, TypeOK, Logged
  <2> QED  BY <2>1, <2>2 DEF IInv, ServiceCommits, Actions
<1> QED  BY <1>1, <1>2, <1>3, <1>4 DEF Next

(* The log holds, version by version and action by action, what the        *)
(* mapping makes of the requests; every commit's operation is the one its  *)
(* actions call for; a table has its Metadata.                             *)
THEOREM InvariantCorrect == Spec => []IInv
  BY InitIInv, NextIInv, PTL DEF Spec

----------------------------------------------------------------------------
LEMMA IInvAllOrNothing == IInv => AllOrNothing
<1> SUFFICES ASSUME IInv PROVE AllOrNothing
  OBVIOUS
<1>1. TypeOK
  BY DEF IInv
<1>2. (answer.status = "INVALID_ARGUMENT") = \E a \in ToSet(answer.request) : Bad(a)
  <2>1. map_actions(answer.request) = {} <=> \E i \in DOMAIN answer.request : Bad(answer.request[i])
    BY <1>1, MapActions DEF TypeOK
  <2>2. answer.status = "INVALID_ARGUMENT" <=> map_actions(answer.request) = {}
    BY DEF IInv
  <2>3. (\E a \in ToSet(answer.request) : Bad(a)) <=> \E i \in DOMAIN answer.request : Bad(answer.request[i])
    BY DEF ToSet
  <2> QED  BY <2>1, <2>2, <2>3
<1>3. ASSUME NEW v \in DOMAIN log, log[v].writer = "service"
      PROVE  /\ Len(log[v].actions) = Len(sent[v])
             /\ \A i \in DOMAIN sent[v] :
                   LET a == sent[v][i]  b == log[v].actions[i] IN
                   /\ a.kind = b.kind
                   /\ a.kind \in {"add", "remove"} =>
                         a.path = b.path /\ b.data_change = (a.data_change = 1)
  <2>1. IsRequest(sent[v]) /\ map_actions(sent[v]) = {log[v].actions}
    BY <1>1, <1>3 DEF TypeOK, Logged
  <2>2. /\ Len(log[v].actions) = Len(sent[v])
        /\ \A i \in DOMAIN sent[v] : ~Bad(sent[v][i]) /\ map_action(sent[v][i]) = {log[v].actions[i]}
    BY <2>1, MapActions
  <2>3. ASSUME NEW i \in DOMAIN sent[v]
        PROVE  LET a == sent[v][i]  b == log[v].actions[i] IN
               /\ a.kind = b.kind
               /\ a.kind \in {"add", "remove"} =>
                     a.path = b.path /\ b.data_change = (a.data_change = 1)
    <3>1. PICK a, b : a = sent[v][i] /\ b = log[v].actions[i]
      OBVIOUS
    <3>2. IsWireAction(a) /\ ~Bad(a) /\ map_action(a) = {b}
      BY <2>1, <2>2, <3>1 DEF IsRequest
    <3>3. PICK c : /\ map_action(a) = {c} /\ c.kind = a.kind
                   /\ a.kind \in {"add", "remove"} => c.path = a.path /\ c.data_change = (a.data_change = 1)
      BY <3>2, MapAction
    <3>4. b = c
      BY <3>2, <3>3
    <3> QED  BY <3>1, <3>3, <3>4, Zenon
  <2> QED  BY <2>2, <2>3
<1> QED  BY <1>2, <1>3 DEF AllOrNothing

(* mapping.rs:30-36, 203-217: a Commit is refused as invalid exactly if    *)
(* one of its actions is bad; otherwise every action is in the log, in its *)
(* place.                                                                  *)
THEOREM AllOrNothingCorrect == Spec => []AllOrNothing
  BY InvariantCorrect, IInvAllOrNothing, PTL

----------------------------------------------------------------------------
(* The operation of a commit.                                              *)
LEMMA StringParam ==
    ASSUME NEW m, NEW k
    PROVE  string_param(map_json_map(m), k) = Get(m, k)
<1>1. CASE DOMAIN m = {}
  <2>1. map_json_map(m) = {} /\ Get(m, k) = {}
    BY <1>1, GetCases DEF map_json_map
  <2> QED  BY <2>1 DEF string_param, Param
<1>2. CASE DOMAIN m # {}
  <2>1. PICK q : q = [x \in DOMAIN m |-> [j |-> "string", v |-> m[x]]]
    OBVIOUS
  <2>2. map_json_map(m) = {q} /\ DOMAIN q = DOMAIN m
    BY <1>2, <2>1 DEF map_json_map
  <2>3. UNION {Get(n, k) : n \in {q}} = Get(q, k)
    OBVIOUS
  <2>4. string_param({q}, k) = {w.v : w \in {w \in Get(q, k) : w.j = "string"}}
    BY <2>3 DEF string_param, Param
  <2>5. CASE k \in DOMAIN m
    <3>1. PICK w : w = [j |-> "string", v |-> m[k]]
      OBVIOUS
    <3>2. q[k] = w /\ w.j = "string" /\ w.v = m[k]
      BY <2>1, <2>5, <3>1
    <3>3. Get(q, k) = {w} /\ Get(m, k) = {m[k]}
      BY <2>2, <2>5, <3>2, GetCases
    <3>4. string_param({q}, k) = {m[k]}
      BY <2>4, <3>2, <3>3
    <3> QED  BY <2>2, <3>3, <3>4
  <2>6. CASE k \notin DOMAIN m
    <3>1. Get(q, k) = {} /\ Get(m, k) = {}
      BY <2>2, <2>6, GetCases
    <3>2. string_param({q}, k) = {}
      BY <2>4, <3>1
    <3> QED  BY <2>2, <3>1, <3>2
  <2> QED  BY <2>5, <2>6
<1> QED  BY <1>1, <1>2

(* Enum to word to DeltaOperation: both translations agree.                *)
LEMMA DeclaredOperation ==
    ASSUME NEW ci, NEW op, op = OperationOf(map_commit_info(ci))
    PROVE  /\ op.kind = Variant(ci.operation)
           /\ op.kind \in {"Merge", "Update", "Delete", "Optimize"} =>
                 op.predicate = Get(ci.operation_parameters, "predicate")
<1>1. PICK w : w = map_commit_info(ci)
  OBVIOUS
<1>2. /\ w.operation = {ci.operation} \ {"UNSPECIFIED", "99"}
      /\ w.operation_parameters = map_json_map(ci.operation_parameters)
  BY <1>1 DEF map_commit_info, map_commit_operation
<1>3. string_param(w.operation_parameters, "predicate") = Get(ci.operation_parameters, "predicate")
  BY <1>2, StringParam
<1>4. op = OperationOf(w)
  BY <1>1
<1>5. CASE ci.operation = "MERGE"
  <2>1. w.operation = {"MERGE"}
    BY <1>2, <1>5
  <2>2. op.kind = "Merge" /\ op.predicate = string_param(w.operation_parameters, "predicate")
    BY <1>4, <2>1 DEF OperationOf
  <2> QED  BY <1>3, <1>5, <2>2 DEF Variant
<1>6. CASE ci.operation = "UPDATE"
  <2>1. w.operation = {"UPDATE"}
    BY <1>2, <1>6
  <2>2. op.kind = "Update" /\ op.predicate = string_param(w.operation_parameters, "predicate")
    BY <1>4, <2>1 DEF OperationOf
  <2> QED  BY <1>3, <1>6, <2>2 DEF Variant
<1>7. CASE ci.operation = "DELETE"
  <2>1. w.operation = {"DELETE"}
    BY <1>2, <1>7
  <2>2. op.kind = "Delete" /\ op.predicate = string_param(w.operation_parameters, "predicate")
    BY <1>4, <2>1 DEF OperationOf
  <2> QED  BY <1>3, <1>7, <2>2 DEF Variant
<1>8. CASE ci.operation = "OPTIMIZE"
  <2>1. w.operation = {"OPTIMIZE"}
    BY <1>2, <1>8
  <2>2. op.kind = "Optimize" /\ op.predicate = string_param(w.operation_parameters, "predicate")
    BY <1>4, <2>1 DEF OperationOf
  <2> QED  BY <1>3, <1>8, <2>2 DEF Variant
<1>9. CASE ci.operation = "VACUUM"
  <2>1. w.operation = {"VACUUM"}
    BY <1>2, <1>9
  <2>2. op.kind = "VacuumStart"
    BY <1>4, <2>1 DEF OperationOf
  <2> QED  BY <1>9, <2>2 DEF Variant
<1>10. CASE ci.operation = "RESTORE"
  <2>1. w.operation = {"RESTORE"}
    BY <1>2, <1>10
  <2>2. op.kind = "Restore"
    BY <1>4, <2>1 DEF OperationOf
  <2> QED  BY <1>10, <2>2 DEF Variant
<1>11. CASE ci.operation \notin {"MERGE", "UPDATE", "DELETE", "OPTIMIZE", "VACUUM", "RESTORE"}
  <2>1. \A x \in {"MERGE", "UPDATE", "DELETE", "OPTIMIZE", "VACUUM", "RESTORE"} : w.operation # {x}
    BY <1>2, <1>11
  <2>2. op = Write
    BY <1>4, <2>1 DEF OperationOf
  <2>3. op.kind = "Write"
    BY <2>2 DEF Write
  <2> QED  BY <1>11, <2>3 DEF Variant
<1> QED  BY <1>5, <1>6, <1>7, <1>8, <1>9, <1>10, <1>11

LEMMA FirstIsOne ==
    ASSUME NEW k, NEW t, NEW n \in Nat, DOMAIN t = 1 .. n, NEW x \in Of(k, t)
    PROVE  Of(k, t) = {x}
<1>1. \A y \in Of(k, t) : \E i \in 1 .. n : y = t[i] /\ t[i].kind = k /\ \A j \in 1 .. i - 1 : t[j].kind # k
  BY DEF Of
<1>2. ASSUME NEW y \in Of(k, t) PROVE y = x
  <2>1. PICK i \in 1 .. n : y = t[i] /\ t[i].kind = k /\ \A j \in 1 .. i - 1 : t[j].kind # k
    BY <1>1
  <2>2. PICK e \in 1 .. n : x = t[e] /\ t[e].kind = k /\ \A j \in 1 .. e - 1 : t[j].kind # k
    BY <1>1
  <2>3. i \notin 1 .. e - 1 /\ e \notin 1 .. i - 1
    BY <2>1, <2>2
  <2>4. i = e
    BY <2>3
  <2> QED  BY <2>1, <2>2, <2>4
<1> QED  BY <1>2

(* The first CommitInfo of the log's actions is the first one sent.        *)
LEMMA FirstCommitInfo ==
    ASSUME NEW n \in Nat, NEW r, DOMAIN r = 1 .. n, NEW t, DOMAIN t = 1 .. n,
           \A i \in 1 .. n : map_action(r[i]) = {t[i]} /\ t[i].kind = r[i].kind
    PROVE  /\ Of("commitInfo", r) = {} => Of("commitInfo", t) = {}
           /\ \A ci \in Of("commitInfo", r) : Of("commitInfo", t) = {map_commit_info(ci)}
<1>1. \A i \in 1 .. n : \A j \in 1 .. i - 1 : j \in 1 .. n
  OBVIOUS
<1>2. ASSUME NEW i \in 1 .. n
      PROVE  (r[i].kind = "commitInfo" /\ \A j \in 1 .. i - 1 : r[j].kind # "commitInfo") <=>
             (t[i].kind = "commitInfo" /\ \A j \in 1 .. i - 1 : t[j].kind # "commitInfo")
  BY <1>1
<1>3. Of("commitInfo", r) = {} => Of("commitInfo", t) = {}
  BY <1>2 DEF Of
<1>4. ASSUME NEW ci \in Of("commitInfo", r)
      PROVE  Of("commitInfo", t) = {map_commit_info(ci)}
  <2>1. PICK i \in 1 .. n : /\ ci = r[i] /\ r[i].kind = "commitInfo"
                            /\ \A j \in 1 .. i - 1 : r[j].kind # "commitInfo"
    BY DEF Of
  <2>2. t[i] \in Of("commitInfo", t)
    BY <1>2, <2>1 DEF Of
  <2>3. map_action(r[i]) = {map_commit_info(r[i])}
    BY <2>1 DEF map_action
  <2>4. t[i] = map_commit_info(ci)
    BY <2>1, <2>3
  <2> QED  BY <2>2, <2>4, FirstIsOne
<1> QED  BY <1>3, <1>4

LEMMA IInvOperation == IInv => OperationAsDeclared
<1> SUFFICES ASSUME IInv, NEW v \in ServiceCommits
             PROVE  /\ Info(v) = {} => log[v].op = Write
                    /\ \A ci \in Info(v) :
                          /\ log[v].op.kind = Variant(ci.operation)
                          /\ log[v].op.kind \in {"Merge", "Update", "Delete", "Optimize"} =>
                                log[v].op.predicate = Get(ci.operation_parameters, "predicate")
  BY DEF OperationAsDeclared
<1>1. v \in DOMAIN log /\ log[v].writer = "service" /\ log[v].op = build_operation(log[v].actions)
  BY DEF ServiceCommits, IInv
<1>2. IsRequest(sent[v]) /\ map_actions(sent[v]) = {log[v].actions}
  BY <1>1 DEF IInv, TypeOK, Logged
<1>3. PICK r, t : r = sent[v] /\ t = log[v].actions
  OBVIOUS
<1>4. PICK n \in Nat : DOMAIN r = 1 .. n
  BY <1>2, <1>3, SeqFacts DEF IsRequest
<1>5. DOMAIN t = 1 .. n /\ \A i \in 1 .. n : map_action(r[i]) = {t[i]} /\ t[i].kind = r[i].kind
  BY <1>2, <1>3, <1>4, MapActions
<1>6. Info(v) = Of("commitInfo", r)
  BY <1>3 DEF Info
<1>7. log[v].op = OrDefault(Write, {OperationOf(ci) : ci \in Of("commitInfo", t)})
  BY <1>1, <1>3 DEF build_operation
<1>8. ASSUME Info(v) = {} PROVE log[v].op = Write
  <2>1. Of("commitInfo", t) = {}
    BY <1>4, <1>5, <1>6, <1>8, FirstCommitInfo
  <2>2. {OperationOf(ci) : ci \in Of("commitInfo", t)} = {}
    BY <2>1
  <2> QED  BY <1>7, <2>2, OrDefaultCases
<1>9. ASSUME NEW ci \in Info(v)
      PROVE  log[v].op = OperationOf(map_commit_info(ci))
  <2>1. Of("commitInfo", t) = {map_commit_info(ci)}
    BY <1>4, <1>5, <1>6, <1>9, FirstCommitInfo
  <2>2. {OperationOf(x) : x \in Of("commitInfo", t)} = {OperationOf(map_commit_info(ci))}
    BY <2>1
  <2> QED  BY <1>7, <2>2, OrDefaultCases
<1> QED  BY <1>8, <1>9, DeclaredOperation

(* commit.rs:65-81: CommitBuilder is told the operation the client's first *)
(* CommitInfo names, with its predicate, and of a Write if there is none.  *)
THEOREM OperationCorrect == Spec => []OperationAsDeclared
  BY InvariantCorrect, IInvOperation, PTL

----------------------------------------------------------------------------
LEMMA IInvMetadata == IInv => MetadataReadBack
<1> SUFFICES ASSUME IInv, log # <<>>
             PROVE  /\ LastOf("metaData", Actions) # {}
                    /\ {build_metadata_and_protocol(m) : m \in LastOf("metaData", Actions)} =
                          {[m EXCEPT !.schema_string = Canonical(@)] : m \in LastOf("metaData", sent)}
  BY DEF MetadataReadBack
<1>1. SamePlaces(sent, Actions)
  BY SentAndLogged DEF IInv
<1>2. PICK l, q : l = sent /\ q = Actions
  OBVIOUS
<1>3. SamePlaces(l, q)
  BY <1>1, <1>2
<1>4. ASSUME NEW v \in DOMAIN l, NEW i \in DOMAIN l[v], IsLast("metaData", l, v, i)
      PROVE  build_metadata_and_protocol(q[v][i]) = [l[v][i] EXCEPT !.schema_string = Canonical(@)]
  <2>1. PICK a, b : a = l[v][i] /\ b = q[v][i]
    OBVIOUS
  <2>2. a.kind = "metaData"
    BY <1>4, <2>1 DEF IsLast
  <2>3. IsMetadata(a) /\ b = map_metadata(a)
    BY <1>3, <2>1, <2>2, MetadataPlace
  <2>4. build_metadata_and_protocol(b) = [a EXCEPT !.schema_string = Canonical(@)]
    BY <2>3, MetadataThereAndBack
  <2> QED  BY <2>1, <2>4
<1>5. ASSUME NEW m \in LastOf("metaData", l)
      PROVE  \E b \in LastOf("metaData", q) :
                build_metadata_and_protocol(b) = [m EXCEPT !.schema_string = Canonical(@)]
  <2>1. PICK v \in DOMAIN l : \E i \in DOMAIN l[v] : IsLast("metaData", l, v, i) /\ m = l[v][i]
    BY LastOfMember
  <2>2. PICK i \in DOMAIN l[v] : IsLast("metaData", l, v, i) /\ m = l[v][i]
    BY <2>1
  <2>3. IsLast("metaData", q, v, i) /\ v \in DOMAIN q /\ i \in DOMAIN q[v]
    BY <1>3, <2>2, LastPlaces DEF SamePlaces
  <2>4. q[v][i] \in LastOf("metaData", q)
    BY <2>3, LastOfMember
  <2> QED  BY <1>4, <2>2, <2>4
<1>6. ASSUME NEW b \in LastOf("metaData", q)
      PROVE  \E m \in LastOf("metaData", l) :
                build_metadata_and_protocol(b) = [m EXCEPT !.schema_string = Canonical(@)]
  <2>1. PICK v \in DOMAIN q : \E i \in DOMAIN q[v] : IsLast("metaData", q, v, i) /\ b = q[v][i]
    BY LastOfMember
  <2>2. PICK i \in DOMAIN q[v] : IsLast("metaData", q, v, i) /\ b = q[v][i]
    BY <2>1
  <2>3. v \in DOMAIN l /\ i \in DOMAIN l[v]
    BY <1>3, <2>2 DEF SamePlaces
  <2>4. IsLast("metaData", l, v, i)
    BY <1>3, <2>2, <2>3, LastPlaces
  <2>5. l[v][i] \in LastOf("metaData", l)
    BY <2>3, <2>4, LastOfMember
  <2> QED  BY <1>4, <2>2, <2>3, <2>4, <2>5
<1>7. {build_metadata_and_protocol(m) : m \in LastOf("metaData", q)} =
        {[m EXCEPT !.schema_string = Canonical(@)] : m \in LastOf("metaData", l)}
  BY <1>5, <1>6
<1> QED  BY <1>2, <1>7 DEF IInv

(* mapping.rs:321-336, server.rs:185-194: an existing table has Metadata,  *)
(* and GetTable reports the one that was sent last, as it was sent.        *)
THEOREM MetadataCorrect == Spec => []MetadataReadBack
  BY InvariantCorrect, IInvMetadata, PTL

----------------------------------------------------------------------------
(* Of the actions about one path, at most one holds.                       *)
LEMMA OneHolds ==
    ASSUME NEW l, NEW n \in Nat, DOMAIN l = 1 .. n,
           \A v \in 1 .. n : IsSeq(l[v]),
           NEW v \in 1 .. n, NEW i \in DOMAIN l[v], Holds(l, v, i),
           NEW w \in 1 .. n, NEW j \in DOMAIN l[w], Holds(l, w, j),
           l[v][i].path = l[w][j].path
    PROVE  v = w /\ i = j
<1>1. i \in Nat /\ j \in Nat
  BY SeqFacts
<1>2. ~Replaces(w, j, v, i) /\ ~Replaces(v, i, w, j)
  BY DEF Holds
<1> QED  BY <1>1, <1>2 DEF Replaces

LEMMA IInvFiles == IInv => FilesReadBack
<1> SUFFICES ASSUME IInv PROVE FilesReadBack
  OBVIOUS
<1> DEFINE foreign == {a.path : a \in {a \in Latest(sent) : a.kind = "foreign"}}
           adds == {a \in Latest(sent) : a.kind = "add"}
<1>1. TypeOK /\ SamePlaces(sent, Actions)
  BY SentAndLogged DEF IInv
<1>2. PICK n \in Nat : DOMAIN log = 1 .. n /\ DOMAIN sent = 1 .. n /\ DOMAIN Actions = 1 .. n
  BY <1>1, LogDomains
<1>3. \A v \in 1 .. n : IsSeq(sent[v])
  BY <1>1, <1>2, PlacesCorrespond
<1>4. PICK l, q : l = sent /\ q = Actions
  OBVIOUS
<1>c. PICK C : C = PartitionColumns(Actions)
  OBVIOUS
<1>s. C = PartitionColumns(sent)
  BY <1>1, <1>c, ColumnsSent
<1>5. SamePlaces(l, q) /\ DOMAIN l = 1 .. n /\ DOMAIN q = 1 .. n /\ \A v \in 1 .. n : IsSeq(l[v])
  BY <1>1, <1>2, <1>3, <1>4
<1>6. ASSUME NEW v \in 1 .. n, NEW i \in DOMAIN l[v], l[v][i].kind = "add"
      PROVE  /\ q[v][i].kind = "add" /\ q[v][i].path = l[v][i].path
             /\ FileView(C, q[v][i]) = AsSent(C, l[v][i])
             /\ FileView(C, q[v][i]).path = l[v][i].path
  <2>1. PICK a, b : a = l[v][i] /\ b = q[v][i]
    OBVIOUS
  <2>2. a.kind = "add" /\ Corresponds(a, b)
    BY <1>5, <1>6, <2>1 DEF SamePlaces
  <2>3. IsAddFile(a) /\ map_action(a) = {b} /\ b.kind = "add" /\ b.path = a.path
    BY <2>2 DEF Corresponds, IsWireAction, AboutFiles
  <2>4. FileView(C, b) = AsSent(C, a)
    BY <2>2, <2>3, FileThereAndBack
  <2>5. FileView(C, b).path = a.path
    BY <2>3, FileViewPath
  <2> QED  BY <2>1, <2>3, <2>4, <2>5
<1>7. ASSUME NEW f \in list_active_files, f.path \notin foreign
      PROVE  \E a \in adds : f = AsSent(C, a)
  <2>1. PICK v \in 1 .. n : \E i \in DOMAIN q[v] :
            Holds(q, v, i) /\ q[v][i].kind = "add" /\ f = FileView(C, q[v][i])
    BY <1>4, <1>5, <1>c, ListedMember
  <2>2. PICK i \in DOMAIN q[v] : Holds(q, v, i) /\ q[v][i].kind = "add" /\ f = FileView(C, q[v][i])
    BY <2>1
  <2>3. i \in DOMAIN l[v] /\ Corresponds(l[v][i], q[v][i])
    BY <1>5, <2>2 DEF SamePlaces
  <2>4. Holds(l, v, i)
    BY <1>5, <2>2, <2>3, HoldingPlaces
  <2>5. l[v][i] \in Latest(l)
    BY <1>5, <2>3, <2>4, LatestMember
  <2>6. f.path = q[v][i].path
    BY <2>2, FileViewPath
  <2>7. l[v][i].kind # "foreign"
    <3>1. ASSUME l[v][i].kind = "foreign" PROVE FALSE
      <4>1. q[v][i].path = l[v][i].path
        BY <2>3, <3>1 DEF Corresponds, AboutFiles
      <4>2. l[v][i].path \in foreign
        BY <1>4, <2>5, <3>1
      <4> QED  BY <1>7, <2>6, <4>1, <4>2
    <3> QED  BY <3>1
  <2>8. l[v][i].kind = "add"
    BY <2>2, <2>3, <2>7 DEF Corresponds
  <2>9. f = AsSent(C, l[v][i])
    BY <1>6, <2>2, <2>3, <2>8
  <2> QED  BY <1>4, <2>5, <2>8, <2>9
<1>8. ASSUME NEW a \in adds
      PROVE  AsSent(C, a) \in list_active_files /\ AsSent(C, a).path \notin foreign
  <2>1. PICK v \in 1 .. n : \E i \in DOMAIN l[v] : Holds(l, v, i) /\ a = l[v][i]
    BY <1>4, <1>5, LatestMember
  <2>2. PICK i \in DOMAIN l[v] : Holds(l, v, i) /\ a = l[v][i]
    BY <2>1
  <2>3. /\ q[v][i].kind = "add" /\ FileView(C, q[v][i]) = AsSent(C, a)
        /\ AsSent(C, a).path = a.path
    BY <1>6, <2>2
  <2>4. i \in DOMAIN q[v] /\ Holds(q, v, i)
    BY <1>5, <2>2, HoldingPlaces DEF SamePlaces
  <2>5. AsSent(C, a) \in list_active_files
    BY <1>4, <1>5, <2>3, <2>4, <1>c, ListedMember
  <2>6. ASSUME a.path \in foreign PROVE FALSE
    <3>1. PICK b \in Latest(l) : b.kind = "foreign" /\ b.path = a.path
      BY <1>4, <2>6
    <3>2. PICK w \in 1 .. n : \E j \in DOMAIN l[w] : Holds(l, w, j) /\ b = l[w][j]
      BY <1>5, LatestMember
    <3>3. PICK j \in DOMAIN l[w] : Holds(l, w, j) /\ b = l[w][j]
      BY <3>2
    <3>4. v = w /\ i = j
      BY <1>5, <2>2, <3>1, <3>3, OneHolds
    <3>5. a = b
      BY <2>2, <3>3, <3>4
    <3> QED  BY <3>1, <3>5
  <2> QED  BY <2>3, <2>5, <2>6
<1>9. {f \in list_active_files : f.path \notin foreign} = {AsSent(C, a) : a \in adds}
  <2> HIDE DEF foreign, adds
  <2> QED  BY <1>7, <1>8
<1> QED  BY <1>s, <1>9 DEF FilesReadBack, AsSent

(* mapping.rs:49-55, 77-83, 251-255, server.rs:283-316: every listed file  *)
(* that is not another writer's is the one its client sent last, with its  *)
(* partition values as values of the table's columns, and none of those is *)
(* missing.                                                                *)
THEOREM FilesCorrect == Spec => []FilesReadBack
  BY InvariantCorrect, IInvFiles, PTL

----------------------------------------------------------------------------
(* One more version that adds one file replaces what held for its path.    *)
OneMore(n, l, q, b) ==
    /\ DOMAIN l = 1 .. n /\ \A v \in 1 .. n : IsSeq(l[v])
    /\ DOMAIN q = 1 .. n + 1 /\ \A v \in 1 .. n : q[v] = l[v]
    /\ DOMAIN q[n + 1] = {1} /\ b = q[n + 1][1] /\ b.kind = "add"

LEMMA HoldsGrows ==
    ASSUME NEW n \in Nat, NEW l, NEW q, NEW b, OneMore(n, l, q, b)
    PROVE  /\ Holds(q, n + 1, 1)
           /\ \A v \in 1 .. n : \A i \in DOMAIN l[v] :
                 /\ Holds(q, v, i) => Holds(l, v, i) /\ l[v][i].path # b.path
                 /\ Holds(l, v, i) /\ l[v][i].path # b.path => Holds(q, v, i)
<1> USE DEF OneMore
<1>0. n + 1 \in DOMAIN q /\ \A v \in 1 .. n : v \in DOMAIN q /\ n + 1 > v
  OBVIOUS
<1>1. Holds(q, n + 1, 1)
  <2>1. ASSUME NEW w \in DOMAIN q, NEW j \in DOMAIN q[w] PROVE ~Replaces(w, j, n + 1, 1)
    <3>1. CASE w = n + 1
      BY <3>1, <2>1 DEF Replaces
    <3>2. CASE w \in 1 .. n
      BY <3>2 DEF Replaces
    <3> QED  BY <3>1, <3>2
  <2> QED  BY <2>1 DEF Holds, AboutFiles
<1>2. ASSUME NEW v \in 1 .. n, NEW i \in DOMAIN l[v], Holds(q, v, i)
      PROVE  Holds(l, v, i) /\ l[v][i].path # b.path
  <2>1. Replaces(n + 1, 1, v, i)
    BY <1>0 DEF Replaces
  <2>2. 1 \in DOMAIN q[n + 1] /\ b.kind \in AboutFiles
    BY DEF AboutFiles
  <2>3. q[n + 1][1].path # q[v][i].path
    BY <1>0, <1>2, <2>1, <2>2 DEF Holds
  <2>4. q[v][i] = l[v][i] /\ l[v][i].kind \in AboutFiles
    BY <1>2 DEF Holds
  <2>5. \A w \in 1 .. n : \A j \in DOMAIN l[w] :
            Replaces(w, j, v, i) /\ l[w][j].kind \in AboutFiles => l[w][j].path # l[v][i].path
    BY <1>0, <1>2, <2>4 DEF Holds
  <2>6. Holds(l, v, i)
    BY <2>4, <2>5 DEF Holds
  <2> QED  BY <2>3, <2>4, <2>6
<1>3. ASSUME NEW v \in 1 .. n, NEW i \in DOMAIN l[v], Holds(l, v, i), l[v][i].path # b.path
      PROVE  Holds(q, v, i)
  <2>1. q[v][i] = l[v][i] /\ q[v][i].kind \in AboutFiles
    BY <1>3 DEF Holds
  <2>2. ASSUME NEW w \in DOMAIN q, NEW j \in DOMAIN q[w], Replaces(w, j, v, i), q[w][j].kind \in AboutFiles
        PROVE  q[w][j].path # q[v][i].path
    <3>1. CASE w = n + 1
      BY <1>3, <2>1, <2>2, <3>1
    <3>2. CASE w \in 1 .. n
      BY <1>3, <2>1, <2>2, <3>2 DEF Holds
    <3> QED  BY <3>1, <3>2
  <2> QED  BY <2>1, <2>2 DEF Holds
<1> QED  BY <1>1, <1>2, <1>3

(* ... and leaves the last action of another kind.                         *)
LEMMA LastOfStays ==
    ASSUME NEW k, k # "add", NEW n \in Nat, NEW l, DOMAIN l = 1 .. n,
           NEW q, DOMAIN q = 1 .. n + 1, \A v \in 1 .. n : q[v] = l[v],
           DOMAIN q[n + 1] = {1}, q[n + 1][1].kind = "add"
    PROVE  LastOf(k, q) = LastOf(k, l)
<1>0. \A v \in 1 .. n : v \in DOMAIN q
  OBVIOUS
<1>1. ASSUME NEW x \in LastOf(k, q) PROVE x \in LastOf(k, l)
  <2>1. PICK v \in DOMAIN q : \E i \in DOMAIN q[v] : IsLast(k, q, v, i) /\ x = q[v][i]
    BY LastOfMember
  <2>2. PICK i \in DOMAIN q[v] : IsLast(k, q, v, i) /\ x = q[v][i]
    BY <2>1
  <2>3. v # n + 1
    BY <2>2 DEF IsLast
  <2>4. v \in 1 .. n /\ q[v] = l[v]
    BY <2>3
  <2>5. IsLast(k, l, v, i)
    BY <1>0, <2>2, <2>4 DEF IsLast
  <2> QED  BY <2>2, <2>4, <2>5, LastOfMember
<1>2. ASSUME NEW x \in LastOf(k, l) PROVE x \in LastOf(k, q)
  <2>1. PICK v \in DOMAIN l : \E i \in DOMAIN l[v] : IsLast(k, l, v, i) /\ x = l[v][i]
    BY LastOfMember
  <2>2. PICK i \in DOMAIN l[v] : IsLast(k, l, v, i) /\ x = l[v][i]
    BY <2>1
  <2>3. v \in DOMAIN q /\ q[v] = l[v]
    BY <1>0
  <2>4. ASSUME NEW w \in DOMAIN q, NEW j \in DOMAIN q[w], After(w, j, v, i) PROVE q[w][j].kind # k
    <3>1. CASE w = n + 1
      BY <2>4, <3>1
    <3>2. CASE w \in 1 .. n
      BY <2>2, <2>4, <3>2 DEF IsLast
    <3> QED  BY <3>1, <3>2
  <2>5. IsLast(k, q, v, i)
    BY <2>2, <2>3, <2>4 DEF IsLast
  <2> QED  BY <2>2, <2>3, <2>5, LastOfMember
<1> QED  BY <1>1, <1>2

(* What becomes of a listed file that is committed again.                  *)
LEMMA CopiedFile ==
    ASSUME TypeOK, NEW f \in list_active_files, NEW actions \in map_actions(<<f>>),
           NEW C, C = PartitionColumns(Actions)
    PROVE  /\ DOMAIN actions = {1} /\ actions[1].kind = "add" /\ actions[1].path = f.path
           /\ FileView(C, actions[1]) = f
<1>1. f.kind = "add" /\ IsWireAction(f) /\ AsSent(C, f) = f /\ TypedColumns(C) /\ IsRequest(<<f>>)
  BY ListedFiles
<1>2. DOMAIN <<f>> = {1} /\ <<f>>[1] = f
  BY OneElement
<1>3. PICK r : r = <<f>>
  OBVIOUS
<1>4. IsRequest(r) /\ DOMAIN r = {1} /\ r[1] = f /\ actions \in map_actions(r)
  BY <1>1, <1>2, <1>3
<1>5. map_actions(r) = {actions}
  BY <1>4, MapActions
<1>6. DOMAIN actions = {1} /\ map_action(f) = {actions[1]}
  BY <1>4, <1>5, MapActions
<1>7. IsAddFile(f)
  BY <1>1 DEF IsWireAction
<1>8. IsLoggedFile(actions[1]) /\ FileView(C, actions[1]) = f
  BY <1>1, <1>6, <1>7, FileThereAndBack
<1>9. f.path = actions[1].path
  BY <1>8, FileViewPath
<1> QED  BY <1>6, <1>8, <1>9 DEF IsLoggedFile

LEMMA CopyStep ==
    ASSUME IInv, Copy
    PROVE  list_active_files' = list_active_files
<1>1. PICK f \in list_active_files : commit(<<f>>)
  BY DEF Copy
<1>c. PICK C : C = PartitionColumns(Actions)
  OBVIOUS
<1>2. CASE log' = log
  <2>1. Actions' = Actions
    BY <1>2 DEF Actions
  <2> QED  BY <2>1 DEF list_active_files, Latest, Holds, PartitionColumns, LastOf, IsLast
<1>3. ASSUME NEW actions \in map_actions(<<f>>),
             NEW e, e = [writer |-> "service", actions |-> actions,
                         op |-> IF log = <<>> THEN [kind |-> "Create"] ELSE build_operation(actions)],
             log' = Append(log, e), sent' = Append(sent, <<f>>)
      PROVE  list_active_files' = list_active_files
  <2>1. TypeOK
    BY DEF IInv
  <2>2. PICK n \in Nat : Grown(n, e, <<f>>)
    BY <1>3, <2>1, LogGrows
  <2>3. e.actions = actions
    BY <1>3
  <2>4. PICK l, q, b : l = Actions /\ q = Actions' /\ b = actions[1]
    OBVIOUS
  <2>5. b.kind = "add" /\ b.path = f.path /\ FileView(C, b) = f
    BY <1>c, <1>3, <2>1, <2>4, CopiedFile
  <2>6. /\ DOMAIN l = 1 .. n /\ DOMAIN q = 1 .. n + 1
        /\ (\A v \in 1 .. n : q[v] = l[v])
        /\ DOMAIN q[n + 1] = {1} /\ b = q[n + 1][1]
    <3>1. DOMAIN actions = {1}
      BY <1>c, <1>3, <2>1, CopiedFile
    <3> QED  BY <2>2, <2>3, <2>4, <3>1 DEF Grown
  <2>7. \A v \in 1 .. n : IsSeq(l[v])
    <3>1. \A v \in 1 .. n : v \in DOMAIN log /\ l[v] = log[v].actions
      BY <2>2, <2>4 DEF Grown, Actions
    <3> QED  BY <2>1, <3>1, PlacesCorrespond
  <2>8. /\ Holds(q, n + 1, 1)
        /\ \A v \in 1 .. n : \A i \in DOMAIN l[v] :
              /\ Holds(q, v, i) => Holds(l, v, i) /\ l[v][i].path # b.path
              /\ Holds(l, v, i) /\ l[v][i].path # b.path => Holds(q, v, i)
    <3>1. OneMore(n, l, q, b)
      BY <2>5, <2>6, <2>7 DEF OneMore
    <3> QED  BY <3>1, HoldsGrows
  <2>9. \A x : x \in list_active_files <=>
           \E v \in DOMAIN l : \E i \in DOMAIN l[v] :
              Holds(l, v, i) /\ l[v][i].kind = "add" /\ x = FileView(C, l[v][i])
    BY <1>c, <2>4, ListedMember
  <2>10. list_active_files' = {FileView(C, a) : a \in {a \in Latest(q) : a.kind = "add"}}
    <3>1. LastOf("metaData", q) = LastOf("metaData", l)
      BY <2>5, <2>6, LastOfStays
    <3>2. PartitionColumns(q) = C
      BY <1>c, <2>4, <3>1 DEF PartitionColumns
    <3>3. list_active_files' =
            {FileView(PartitionColumns(q), a) : a \in {a \in Latest(q) : a.kind = "add"}}
      BY <2>4 DEF list_active_files, Latest, Holds, PartitionColumns, LastOf, IsLast
    <3> QED  BY <3>2, <3>3
  <2>11. ASSUME NEW x
         PROVE  x \in list_active_files' <=>
           \E v \in DOMAIN q : \E i \in DOMAIN q[v] :
              Holds(q, v, i) /\ q[v][i].kind = "add" /\ x = FileView(C, q[v][i])
    <3>1. x \in list_active_files' <=> \E a : a \in Latest(q) /\ a.kind = "add" /\ x = FileView(C, a)
      BY <2>10
    <3> QED  BY <3>1, LatestMember
  <2>12. n + 1 \in DOMAIN q /\ \A v \in 1 .. n : v \in DOMAIN q
    BY <2>6
  <2>13. f \in list_active_files'
    <3>1. 1 \in DOMAIN q[n + 1] /\ q[n + 1][1].kind = "add" /\ f = FileView(C, q[n + 1][1])
      BY <2>5, <2>6
    <3> QED  BY <2>8, <2>11, <2>12, <3>1
  <2>14. ASSUME NEW x \in list_active_files PROVE x \in list_active_files'
    <3>1. PICK v \in 1 .. n : \E i \in DOMAIN l[v] :
              Holds(l, v, i) /\ l[v][i].kind = "add" /\ x = FileView(C, l[v][i])
      BY <2>6, <2>9
    <3>2. PICK i \in DOMAIN l[v] : Holds(l, v, i) /\ l[v][i].kind = "add" /\ x = FileView(C, l[v][i])
      BY <3>1
    <3>3. CASE l[v][i].path # b.path
      <4>1. Holds(q, v, i) /\ q[v] = l[v] /\ v \in DOMAIN q
        BY <2>6, <2>8, <2>12, <3>2, <3>3
      <4> QED  BY <2>11, <3>2, <4>1
    <3>4. CASE l[v][i].path = b.path
      <4>1. PICK w \in 1 .. n : \E j \in DOMAIN l[w] :
                Holds(l, w, j) /\ f = FileView(C, l[w][j])
        BY <2>6, <2>9
      <4>2. PICK j \in DOMAIN l[w] : Holds(l, w, j) /\ f = FileView(C, l[w][j])
        BY <4>1
      <4>3. l[v][i].path = l[w][j].path
        <5>1. f.path = l[w][j].path
          BY <4>2, FileViewPath
        <5> QED  BY <2>5, <3>4, <5>1
      <4>4. v = w /\ i = j
        <5>1. DOMAIN l = 1 .. n /\ Holds(l, v, i) /\ Holds(l, w, j)
          BY <2>6, <3>2, <4>2
        <5> QED  BY <2>7, <4>3, <5>1, OneHolds, Zenon
      <4>5. x = f
        BY <3>2, <4>2, <4>4
      <4> QED  BY <2>13, <4>5
    <3> QED  BY <3>3, <3>4
  <2>15. ASSUME NEW x \in list_active_files' PROVE x \in list_active_files
    <3>1. PICK v \in 1 .. n + 1 : \E i \in DOMAIN q[v] :
              Holds(q, v, i) /\ q[v][i].kind = "add" /\ x = FileView(C, q[v][i])
      BY <2>6, <2>11
    <3>2. PICK i \in DOMAIN q[v] : Holds(q, v, i) /\ q[v][i].kind = "add" /\ x = FileView(C, q[v][i])
      BY <3>1
    <3>3. CASE v = n + 1
      <4>1. i = 1
        BY <2>6, <3>2, <3>3
      <4>2. x = f
        BY <2>5, <2>6, <3>2, <3>3, <4>1
      <4> QED  BY <4>2
    <3>4. CASE v \in 1 .. n
      <4>1. q[v] = l[v] /\ v \in DOMAIN l
        BY <2>6, <3>4
      <4>2. i \in DOMAIN l[v] /\ Holds(l, v, i) /\ l[v][i].kind = "add" /\ x = FileView(C, l[v][i])
        BY <2>8, <3>2, <3>4, <4>1
      <4> QED  BY <2>9, <4>1, <4>2
    <3> QED  BY <3>3, <3>4
  <2> QED  BY <2>14, <2>15
<1>4. log' = log \/ \E actions \in map_actions(<<f>>) :
          /\ log' = Append(log, [writer |-> "service", actions |-> actions,
                              op |-> IF log = <<>> THEN [kind |-> "Create"] ELSE build_operation(actions)])
          /\ sent' = Append(sent, <<f>>)
  BY <1>1 DEF commit
<1> QED  BY <1>2, <1>3, <1>4

(* mapping.rs:77-83, 219-223: committing a listed file again, as it was    *)
(* listed, changes nothing a reader sees, whoever wrote it first.          *)
THEOREM CopyCorrect == Spec => CopyIsStable
<1>1. IInv /\ [Next]_vars => [Copy => list_active_files' = list_active_files]_vars
  BY CopyStep
<1> QED  BY <1>1, InvariantCorrect, PTL DEF Spec, CopyIsStable
=============================================================================
