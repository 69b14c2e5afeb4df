----------------------------- MODULE MCMapping -----------------------------
(* Commits over small sets of values: every shape of a column's statistics,*)
(* every operation, and lists with a bad action in each place.             *)
EXTENDS Mapping, TLC

V(t, v) == [t |-> t, v |-> v]
Values == {V("int", "1"), V("double", "1.0"), V("double", "NaN"), V("string", "a"), V("bool", "true")}

Some(S) == {{}} \cup {{v} : v \in S}
Column(min, max, nulls) == [min_value |-> min, max_value |-> max, null_count |-> nulls]
Columns ==
    {Column(min, max, 0) : min \in Some(Values), max \in Some({V("double", "Infinity"), V("int", "2")})}
        \cup {Column({}, {}, 3), Column({V("int", "1")}, {V("int", "2")}, 3)}
Stats ==
    Some({[num_records |-> 0, columns |-> NoMap]}
        \cup {[num_records |-> 5, columns |-> "c" :> col] : col \in Columns}
        \cup {[num_records |-> 5, columns |-> "c" :> Column({}, {}, 5) @@ "d" :> Column({V("int", "1")}, {}, 0)]})

AddFile(p, values, dc, stats, tags) ==
    [kind |-> "add", path |-> p, attrs |-> "a", partition_values |-> values,
     data_change |-> dc, stats |-> stats, tags |-> tags]
RemoveFile(p, dc) == [kind |-> "remove", path |-> p, attrs |-> "a", data_change |-> dc]
Metadata(name, description, schema, partitioning, time) ==
    [kind |-> "metaData", attrs |-> "a", name |-> name, description |-> description,
     schema_string |-> schema, partitioning |-> partitioning, created_time |-> time]
ProtocolAction == [kind |-> "protocol", attrs |-> "1/2"]
Missing == [kind |-> "missing"]
CommitInfo(op, params, name, version, user, time) ==
    [kind |-> "commitInfo", engine_name |-> name, engine_version |-> version, operation |-> op,
     operation_parameters |-> params, user_metadata |-> user, timestamp |-> time]

Creates ==
    {<<ProtocolAction, Metadata(m[1], m[2], m[3], m[4], m[5])>> :
        m \in {<<"", "", "loose", NoMap, 0>>, <<"n", "", "canonical", "year" :> "integer", 7>>,
               <<"", "d", "loose", "year" :> "string", 7>>, <<"n", "d", "canonical", "year" :> "integer", 0>>}}
Adds == {<<AddFile("p", NoMap, 1, s, NoMap)>> : s \in Stats}
Region == "region" :> "US"
Year(text) == "year" :> text
Operations == {"UNSPECIFIED", "WRITE", "MERGE", "UPDATE", "DELETE", "OPTIMIZE", "VACUUM", "RESTORE", "CONVERT", "99"}
Parameters == "predicate" :> "x" @@ "target_size" :> "42" @@ "version" :> "42"
Declared ==
    {<<CommitInfo(op, Parameters, "e", "", NoMap, 0), RemoveFile("p", 2)>> : op \in Operations}
        \cup {<<CommitInfo(op, NoMap, "", "1", NoMap, 0)>> : op \in {"MERGE", "OPTIMIZE"}}
        \cup {<<CommitInfo("DELETE", NoMap, "e", "1", Region, 9), CommitInfo("OPTIMIZE", NoMap, "", "", NoMap, 0)>>}
Mixed ==
    {<<RemoveFile("p", 1), AddFile("q", Year("2024"), 2, {}, Region)>>, <<AddFile("q", Year("02024"), 1, {}, NoMap)>>,
     <<AddFile("q", Year("") @@ "month" :> "2024", 1, {}, NoMap)>>,
     <<RemoveFile("q", 1), AddFile("q", Year("2024"), 1, {}, NoMap), AddFile("p", NoMap, 1, {}, NoMap)>>,
     <<AddFile("q", NoMap, 1, {}, NoMap), AddFile("p", NoMap, 0, {}, NoMap)>>,
     <<Missing, RemoveFile("q", 1)>>, <<RemoveFile("p", 7)>>, <<ProtocolAction>>, <<>>}
Lists == Creates \cup Adds \cup Declared \cup Mixed

(* What other writers' statistics may hold: numbers beyond an i64, nested  *)
(* objects, no numRecords, no JSON at all.                                 *)
J(j, v) == [j |-> j, v |-> v]
ForeignTexts ==
    {{},
     {[numRecords |-> {}, minValues |-> "c" :> J("float", "1.0"), maxValues |-> "c" :> J("uint", "2e19"),
       nullCount |-> NoMap]},
     {[numRecords |-> {J("int", 4)}, minValues |-> "s" :> J("object", "o"), maxValues |-> "c" :> J("null", "n"),
       nullCount |-> "s" :> J("object", "o") @@ "c" :> J("int", 4)]}}
Foreign ==
    {[kind |-> "add", path |-> "f", attrs |-> "b", partition_values |-> "year" :> y,
      data_change |-> TRUE, stats |-> s, tags |-> {}] : s \in Some(ForeignTexts), y \in {{}, {"02024"}}}

Numerals == "42" :> 42

(* What a column of integers and a column of strings make of a text.       *)
ColumnTypes == {"integer", "string"}
ColumnTexts == {"", "2024", "02024"}
Scalars ==
    [t \in ColumnTypes |-> [x \in ColumnTexts |->
        IF x = "" THEN {} ELSE IF t = "integer" THEN {"2024"} ELSE {x}]]
=============================================================================
