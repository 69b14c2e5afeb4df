------------------------------ MODULE Mapping ------------------------------
(***************************************************************************)
(* What becomes of the contents of a Commit on its way into the table's    *)
(* log and back out to a reader: grpc/mapping.rs in both directions,       *)
(* build_operation of delta/commit.rs, and build_metadata_and_protocol of  *)
(* grpc/server.rs.  One table; its commits come one after the other, from  *)
(* this service and from other Delta writers.                              *)
(*                                                                         *)
(* A protobuf map is a function.  An Option or a Result is a set of at    *)
(* most one element: {} is None, an unset field or an Err, {v} is Some(v)  *)
(* or Ok(v); so {f(v) : v \in o} is map and UNION is and_then.  Fields     *)
(* that are carried along together and never looked at are one field       *)
(* (`attrs`).  A JSON value is a record of its JSON type `j` and its       *)
(* value; a text is the set of the JSON value it parses to.                *)
(***************************************************************************)
EXTENDS Integers, Sequences, FiniteSets, SequencesExt

CONSTANTS
    Requests,      \* the action lists clients send
    ForeignFiles,  \* the Add actions other writers commit
    Numeral,       \* the numbers that strings denote
    Types, Texts,  \* the types of partition columns, the texts of their values
    Scalar,        \* a text read as a value of a type and written again
    MaxCommits     \* bound: commits to the table

VARIABLES
    log,     \* the table's log: of each version the actions, the operation
             \* given to CommitBuilder and the writer
    sent,    \* (history) the wire actions of each version; what another
             \* writer put there is of kind "foreign"
    answer   \* the last Commit and its status

vars == <<log, sent, answer>>

NoMap == [k \in {} |-> {}]
Unwrap(o) == CHOOSE v \in o : TRUE
OrDefault(x, o) == IF o = {} THEN x ELSE Unwrap(o)
Get(m, k) == {m[x] : x \in {k} \cap DOMAIN m}

(* The first action of a kind.                                             *)
Of(k, s) ==
    {s[i] : i \in {i \in DOMAIN s : s[i].kind = k /\ \A j \in 1 .. i - 1 : s[j].kind # k}}

----------------------------------------------------------------------------
(* Statistics, protobuf to JSON.  A number JSON cannot hold is left out.   *)
NonFinite == {"NaN", "Infinity"}

map_column_value(o) ==
    {[j |-> IF v.t = "double" THEN "float" ELSE v.t, v |-> v.v] :
        v \in {v \in o : v.t = "double" => v.v \notin NonFinite}}

Present(m) == [c \in {c \in DOMAIN m : m[c] # {}} |-> Unwrap(m[c])]

map_file_stats_NullsIfAny(o) ==
    {{[numRecords |-> {[j |-> "int", v |-> s.num_records]},
       minValues  |-> Present([c \in DOMAIN s.columns |-> map_column_value(s.columns[c].min_value)]),
       maxValues  |-> Present([c \in DOMAIN s.columns |-> map_column_value(s.columns[c].max_value)]),
       nullCount  |-> Present([c \in DOMAIN s.columns |->
                         {[j |-> "int", v |-> n] : n \in {s.columns[c].null_count} \ {0}}])]} :
        s \in o}

map_file_stats(o) ==
    {{[numRecords |-> {[j |-> "int", v |-> s.num_records]},
       minValues  |-> Present([c \in DOMAIN s.columns |-> map_column_value(s.columns[c].min_value)]),
       maxValues  |-> Present([c \in DOMAIN s.columns |-> map_column_value(s.columns[c].max_value)]),
       nullCount  |-> [c \in DOMAIN s.columns |-> [j |-> "int", v |-> s.columns[c].null_count]]]} :
        s \in o}

(* JSON to protobuf: an i64 if it is one, else a double; anything that is  *)
(* no scalar is left out.                                                  *)
value_to_pb_Narrowed(w) ==
    CASE w.j \in {"int", "string", "bool"} -> {[t |-> w.j, v |-> w.v]}
      [] w.j = "float" -> {[t |-> "double", v |-> w.v]}
      [] w.j = "uint" -> {[t |-> "double", v |-> "Infinity"]}
      [] OTHER -> {}

value_to_pb(w) ==
    CASE w.j \in {"int", "string", "bool"} -> {[t |-> w.j, v |-> w.v]}
      [] w.j \in {"float", "uint"} -> {[t |-> "double", v |-> w.v]}
      [] OTHER -> {}

as_i64(o) == {w.v : w \in {w \in o : w.j = "int"}}

(* A column of any of the maps has an entry.                               *)
ColumnToPb(w, c) ==
    [min_value  |-> UNION {value_to_pb(x) : x \in Get(w.minValues, c)},
     max_value  |-> UNION {value_to_pb(x) : x \in Get(w.maxValues, c)},
     null_count |-> OrDefault(0, as_i64(Get(w.nullCount, c)))]

(* Text that is no JSON has no statistics.                                 *)
map_stats_json_to_pb(o) ==
    {[num_records |-> OrDefault(0, as_i64(w.numRecords)),
      columns     |-> [c \in DOMAIN w.minValues \cup DOMAIN w.maxValues \cup DOMAIN w.nullCount |->
                          ColumnToPb(w, c)]] :
        w \in UNION o}

----------------------------------------------------------------------------
(* DATA_CHANGE_TRUE and _FALSE; unspecified and unknown values are errors. *)
map_data_change(dc) == CASE dc = 1 -> {TRUE} [] dc = 2 -> {FALSE} [] OTHER -> {}

map_string_map(m) == [k \in DOMAIN m |-> {m[k]}]

map_optional_string_map(m) == IF DOMAIN m = {} THEN {} ELSE {map_string_map(m)}

(* An empty string and a zero time stand for "not set".                    *)
NoneIf(x, v) == {v} \ {x}

map_metadata_NameTwice(m) ==
    [m EXCEPT !.name = NoneIf("", @), !.description = NoneIf("", m.name), !.created_time = NoneIf(0, @)]

map_metadata(m) ==
    [m EXCEPT !.name = NoneIf("", @), !.description = NoneIf("", @), !.created_time = NoneIf(0, @)]

map_commit_operation_OtherWord(op) ==
    IF op = "OPTIMIZE" THEN {"COMPACT"} ELSE {op} \ {"UNSPECIFIED", "99"}

(* The enum value becomes Delta's word for it; unknown values become none. *)
map_commit_operation(op) == {op} \ {"UNSPECIFIED", "99"}

(* Every parameter is a JSON string.                                       *)
map_json_map(m) ==
    IF DOMAIN m = {} THEN {} ELSE {[k \in DOMAIN m |-> [j |-> "string", v |-> m[k]]]}

(* "name/version", or the half that is there.                              *)
map_engine_info(name, version) ==
    NoneIf(<<>>, SelectSeq(<<name, version>>, LAMBDA x : x # ""))

(* user_metadata is stored as one JSON text.                               *)
map_user_metadata(m) == IF DOMAIN m = {} THEN {} ELSE {{m}}

map_commit_info(ci) ==
    [kind |-> "commitInfo",
     operation |-> map_commit_operation(ci.operation),
     operation_parameters |-> map_json_map(ci.operation_parameters),
     engine_info |-> map_engine_info(ci.engine_name, ci.engine_version),
     user_metadata |-> map_user_metadata(ci.user_metadata),
     timestamp |-> NoneIf(0, ci.timestamp)]

map_action(a) ==
    CASE a.kind = "add" ->
            {[kind |-> "add", path |-> a.path, attrs |-> a.attrs,
              partition_values |-> map_string_map(a.partition_values), data_change |-> dc,
              stats |-> map_file_stats(a.stats), tags |-> map_optional_string_map(a.tags)] :
                dc \in map_data_change(a.data_change)}
      [] a.kind = "remove" ->
            {[kind |-> "remove", path |-> a.path, attrs |-> a.attrs, data_change |-> dc] :
                dc \in map_data_change(a.data_change)}
      [] a.kind = "protocol" -> {a}
      [] a.kind = "metaData" -> {map_metadata(a)}
      [] a.kind = "commitInfo" -> {map_commit_info(a)}
      [] OTHER -> {}

(* Every action, in order, or none.                                        *)
map_actions_SkipsBad(s) ==
    LET good == SelectSeq(s, LAMBDA a : map_action(a) # {}) IN
    {[i \in DOMAIN good |-> Unwrap(map_action(good[i]))]}

map_actions(s) ==
    IF \E i \in DOMAIN s : map_action(s[i]) = {} THEN {}
    ELSE {[i \in DOMAIN s |-> Unwrap(map_action(s[i]))]}

----------------------------------------------------------------------------
(* A parameter of the wanted JSON type, else none.                         *)
Param(params, k, type) ==
    {w.v : w \in {w \in UNION {Get(m, k) : m \in params} : w.j = type}}
string_param(params, k) == Param(params, k, "string")
int_param(params, k) == Param(params, k, "int")
uint_param(params, k) == {n \in int_param(params, k) : n >= 0}

Write == [kind |-> "Write"]

(* The operation CommitBuilder is told of, from a CommitInfo ...           *)
OperationOf(ci) ==
    LET P(k) == string_param(ci.operation_parameters, k)
        N(k) == int_param(ci.operation_parameters, k)
    IN CASE ci.operation = {"MERGE"} ->
              [kind |-> "Merge", predicate |-> P("predicate"), merge_predicate |-> P("merge_predicate")]
         [] ci.operation = {"UPDATE"} -> [kind |-> "Update", predicate |-> P("predicate")]
         [] ci.operation = {"DELETE"} -> [kind |-> "Delete", predicate |-> P("predicate")]
         [] ci.operation = {"OPTIMIZE"} ->
              [kind |-> "Optimize", predicate |-> P("predicate"),
               target_size |-> OrDefault(0, N("target_size"))]
         [] ci.operation = {"VACUUM"} ->
              [kind |-> "VacuumStart",
               specified_retention_millis |-> N("specified_retention_millis"),
               default_retention_millis |-> OrDefault(0, N("default_retention_millis"))]
         [] ci.operation = {"RESTORE"} ->
              [kind |-> "Restore", version |-> uint_param(ci.operation_parameters, "version"),
               datetime |-> N("datetime")]
         [] OTHER -> Write

(* ... the first one, if there is any.                                     *)
build_operation(actions) ==
    OrDefault(Write, {OperationOf(ci) : ci \in Of("commitInfo", actions)})

----------------------------------------------------------------------------
(* Log replay (delta-rs), over a sequence l of action lists: an action     *)
(* about a path holds until a later commit has one about it.  Which of two *)
(* in one commit holds is left open: then none does, and the path is among *)
(* no files here.                                                          *)
Replaces(w, j, v, i) == w > v \/ (w = v /\ j # i)

AboutFiles == {"add", "remove", "foreign"}
Holds(l, v, i) ==
    /\ l[v][i].kind \in AboutFiles
    /\ \A w \in DOMAIN l : \A j \in DOMAIN l[w] :
          Replaces(w, j, v, i) /\ l[w][j].kind \in AboutFiles => l[w][j].path # l[v][i].path
Latest(l) == UNION {{l[v][i] : i \in {i \in DOMAIN l[v] : Holds(l, v, i)}} : v \in DOMAIN l}

(* The last action of a kind.                                              *)
After(w, j, v, i) == w > v \/ (w = v /\ j > i)
IsLast(k, l, v, i) ==
    /\ l[v][i].kind = k
    /\ \A w \in DOMAIN l : \A j \in DOMAIN l[w] : After(w, j, v, i) => l[w][j].kind # k
LastOf(k, l) == UNION {{l[v][i] : i \in {i \in DOMAIN l[v] : IsLast(k, l, v, i)}} : v \in DOMAIN l}

Actions == [v \in DOMAIN log |-> log[v].actions]

(* The partition columns and their types, as the last metadata has them.   *)
PartitionColumns(l) == OrDefault(NoMap, {m.partitioning : m \in LastOf("metaData", l)})

(* A file's partition values come typed, for the table's columns and no    *)
(* others; each one that is there and not null is written as text again.   *)
partition_values(columns, a) ==
    [k \in DOMAIN columns |->
        UNION {Scalar[columns[k]][text] : text \in UNION Get(a.partition_values, k)}]

(* One active file as ListActiveFiles reports it.                          *)
map_active_file_to_pb(a, values) ==
    [kind |-> "add", path |-> a.path, attrs |-> a.attrs,
     partition_values |-> [k \in DOMAIN values |-> OrDefault("", values[k])],
     data_change |-> 1, stats |-> map_stats_json_to_pb(a.stats), tags |-> NoMap]

FileView(columns, a) == map_active_file_to_pb(a, partition_values(columns, a))

list_active_files ==
    {FileView(PartitionColumns(Actions), a) : a \in {a \in Latest(Actions) : a.kind = "add"}}

(* GetTable's metadata; the schema is parsed and written anew.             *)
Canonical(schema) == IF schema = "loose" THEN "canonical" ELSE schema

build_metadata_and_protocol(m) ==
    [m EXCEPT !.name = OrDefault("", @), !.description = OrDefault("", @),
              !.created_time = OrDefault(0, @), !.schema_string = Canonical(@)]

----------------------------------------------------------------------------
(* What goes over the wire and what the log holds, as far as the mappings  *)
(* depend on it.                                                           *)
IsSeq(s) == s \in Seq(ToSet(s))
IsMap(m) == m = [k \in DOMAIN m |-> m[k]]
IsOption(o) == \A x, y \in o : x = y

IsValue(v) == v = [t |-> v.t, v |-> v.v] /\ v.t \in {"int", "double", "string", "bool"}
IsColumn(c) ==
    /\ c = [min_value |-> c.min_value, max_value |-> c.max_value, null_count |-> c.null_count]
    /\ IsOption(c.min_value) /\ IsOption(c.max_value)
    /\ \A v \in c.min_value \cup c.max_value : IsValue(v)
IsStats(s) ==
    /\ s = [num_records |-> s.num_records, columns |-> s.columns]
    /\ IsMap(s.columns) /\ \A c \in DOMAIN s.columns : IsColumn(s.columns[c])
IsAddFile(a) ==
    /\ a = [kind |-> "add", path |-> a.path, attrs |-> a.attrs, partition_values |-> a.partition_values,
            data_change |-> a.data_change, stats |-> a.stats, tags |-> a.tags]
    /\ IsMap(a.partition_values)
    /\ \A k \in DOMAIN a.partition_values : a.partition_values[k] \in Texts
    /\ IsOption(a.stats) /\ \A s \in a.stats : IsStats(s)
IsMetadata(a) ==
    /\ a = [kind |-> "metaData", attrs |-> a.attrs, name |-> a.name, description |-> a.description,
            schema_string |-> a.schema_string, partitioning |-> a.partitioning,
            created_time |-> a.created_time]
    /\ IsMap(a.partitioning) /\ \A k \in DOMAIN a.partitioning : a.partitioning[k] \in Types
IsWireAction(a) ==
    /\ a.kind \in {"add", "remove", "protocol", "metaData", "commitInfo", "missing"}
    /\ a.kind = "add" => IsAddFile(a)
    /\ a.kind = "metaData" => IsMetadata(a)

(* The numbers of a JSON text are finite; a file without tags has no map   *)
(* of tags.                                                                *)
IsJson(w) == w.j \in {"float", "uint"} => w.v \notin NonFinite
IsJsonMap(m) == \A c \in DOMAIN m : IsJson(m[c])
IsLoggedFile(a) ==
    /\ a.kind = "add" /\ NoMap \notin a.tags
    /\ \A k \in DOMAIN a.partition_values :
          IsOption(a.partition_values[k]) /\ a.partition_values[k] \subseteq Texts
    /\ IsOption(a.stats) /\ \A text \in a.stats : IsOption(text)
    /\ \A w \in UNION a.stats : IsJsonMap(w.minValues) /\ IsJsonMap(w.maxValues)

(* A commit has at most one Metadata.                                      *)
IsRequest(r) ==
    /\ IsSeq(r) /\ \A i \in DOMAIN r : IsWireAction(r[i])
    /\ \A i, j \in DOMAIN r : r[i].kind = "metaData" /\ r[j].kind = "metaData" => i = j

(* Every text considered can be read as a value of every type considered,  *)
(* or as null; the text of a value is read as that value.                  *)
ASSUME ScalarAssumption ==
    /\ "" \in Texts
    /\ \A t \in Types :
          /\ Scalar[t][""] \subseteq {""}
          /\ \A x \in Texts :
                /\ IsOption(Scalar[t][x]) /\ Scalar[t][x] \subseteq Texts
                /\ \A y \in Scalar[t][x] : Scalar[t][y] = {y}

ASSUME RequestsOnTheWire == \A r \in Requests : IsRequest(r)
ASSUME ForeignFilesInTheLog == \A f \in ForeignFiles : IsLoggedFile(f)

----------------------------------------------------------------------------
Init ==
    /\ log = <<>>
    /\ sent = <<>>
    /\ answer = [request |-> <<>>, status |-> "none"]

Reply(r, status) == answer' = [request |-> r, status |-> status]

CanCreate_ProtocolOnly(actions) == Of("protocol", actions) # {}

(* The first Commit creates the table, and must bring its Protocol and     *)
(* Metadata.                                                               *)
CanCreate(actions) == {} \notin {Of("protocol", actions), Of("metaData", actions)}

(* Commit: the actions are mapped before anything else.                    *)
commit(r) ==
    \/ /\ map_actions(r) = {}
       /\ Reply(r, "INVALID_ARGUMENT")
       /\ UNCHANGED <<log, sent>>
    \/ \E actions \in map_actions(r) :
       /\ log = <<>> /\ ~CanCreate(actions)
       /\ Reply(r, "FAILED_PRECONDITION")
       /\ UNCHANGED <<log, sent>>
    \/ \E actions \in map_actions(r) :
       /\ Len(log) < MaxCommits
       /\ log = <<>> => CanCreate(actions)
       /\ log' = Append(log, [writer |-> "service", actions |-> actions,
                              op |-> IF log = <<>> THEN [kind |-> "Create"] ELSE build_operation(actions)])
       /\ sent' = Append(sent, r)
       /\ Reply(r, "OK")

(* Another writer adds a file to an existing table.                        *)
ForeignCommit(f) ==
    /\ Len(log) \in 1 .. MaxCommits - 1
    /\ log' = Append(log, [writer |-> "other", actions |-> <<f>>, op |-> Write])
    /\ sent' = Append(sent, <<[kind |-> "foreign", path |-> f.path]>>)
    /\ UNCHANGED answer

(* A client commits a file again, just as it was listed.                   *)
Copy == \E f \in list_active_files : commit(<<f>>)

Next ==
    \/ \E r \in Requests : commit(r)
    \/ \E f \in ForeignFiles : ForeignCommit(f)
    \/ Copy
    \/ Len(log) = MaxCommits /\ UNCHANGED vars

Spec == Init /\ [][Next]_vars

----------------------------------------------------------------------------
ServiceCommits == {v \in DOMAIN log : v > 1 /\ log[v].writer = "service"}

(* The actions of a version are those of its writer, in delta-rs's form.   *)
Logged(v) ==
    /\ \/ /\ log[v].writer = "service"
          /\ IsRequest(sent[v]) /\ map_actions(sent[v]) = {log[v].actions}
       \/ /\ log[v].writer = "other"
          /\ \E f \in ForeignFiles : /\ log[v].actions = <<f>>
                                    /\ sent[v] = <<[kind |-> "foreign", path |-> f.path]>>
    /\ \A i \in DOMAIN log[v].actions :
          log[v].actions[i].kind = "add" => IsLoggedFile(log[v].actions[i])

TypeOK ==
    /\ IsSeq(log) /\ IsSeq(sent) /\ Len(log) = Len(sent)
    /\ \A v \in DOMAIN log : Logged(v)
    /\ answer.status \in {"none", "OK", "INVALID_ARGUMENT", "FAILED_PRECONDITION"}
    /\ IsRequest(answer.request)

(* mapping.rs:35, server.rs:406-413, commit.rs:106: only what cannot be    *)
(* mapped is refused as invalid, every commit's operation is the one its   *)
(* own actions call for, and a table, once there, has its Metadata.        *)
IInv ==
    /\ TypeOK
    /\ answer.status = "INVALID_ARGUMENT" <=> map_actions(answer.request) = {}
    /\ \A v \in ServiceCommits : log[v].op = build_operation(log[v].actions)
    /\ log # <<>> => LastOf("metaData", Actions) # {}

----------------------------------------------------------------------------
(* mapping.rs:203-209: a data_change that does not say true or false.      *)
Bad(a) ==
    \/ a.kind = "missing"
    \/ a.kind \in {"add", "remove"} /\ a.data_change \notin {1, 2}

(* mapping.rs:30-36, 203-217: a Commit with one bad action changes         *)
(* nothing, wherever that action is and whatever comes before it; without  *)
(* one, every action is in the log, in its place, saying of data_change    *)
(* what its client said.                                                   *)
AllOrNothing ==
    /\ (answer.status = "INVALID_ARGUMENT") = \E a \in ToSet(answer.request) : Bad(a)
    /\ \A v \in DOMAIN log : log[v].writer = "service" =>
          /\ Len(log[v].actions) = Len(sent[v])
          /\ \A i \in DOMAIN sent[v] :
                LET a == sent[v][i]  b == log[v].actions[i] IN
                /\ a.kind = b.kind
                /\ a.kind \in {"add", "remove"} =>
                      a.path = b.path /\ b.data_change = (a.data_change = 1)

Finite(o) == {v \in o : v.t = "double" => v.v \notin NonFinite}
FiniteStats(o) ==
    {[s EXCEPT !.columns = [c \in DOMAIN s.columns |->
        [s.columns[c] EXCEPT !.min_value = Finite(@), !.max_value = Finite(@)]]] : s \in o}

(* A client's partition values, as the table's columns have them: what is  *)
(* no column is gone, what was not sent is empty.                          *)
AsTyped(columns, m) ==
    [k \in DOMAIN columns |->
        IF k \in DOMAIN m THEN OrDefault("", Scalar[columns[k]][m[k]]) ELSE ""]

(* mapping.rs:49-55, 77-83, 251-255, server.rs:283-316: a listed file is   *)
(* the one its last commit added, no file is missing and none that was     *)
(* removed is there: statistics come back with their types, columns        *)
(* without minimum and maximum too, and the partition values are those     *)
(* sent, as values of the columns that the last metadata declared.  Not    *)
(* kept are data_change, tags and numbers JSON cannot hold.  Paths with    *)
(* two actions in their last commit are left out.                          *)
FilesReadBack ==
    LET files == Latest(sent)
        columns == PartitionColumns(sent)
        foreign == {a.path : a \in {a \in files : a.kind = "foreign"}}
    IN {f \in list_active_files : f.path \notin foreign} =
       {[a EXCEPT !.data_change = 1, !.tags = NoMap, !.stats = FiniteStats(@),
                  !.partition_values = AsTyped(columns, @)] :
            a \in {a \in files : a.kind = "add"}}

(* mapping.rs:321-336, server.rs:185-194: GetTable reports the metadata    *)
(* that was sent last, empty names and a zero time included, although the  *)
(* log holds neither.                                                      *)
MetadataReadBack ==
    log # <<>> =>
        /\ LastOf("metaData", Actions) # {}
        /\ {build_metadata_and_protocol(m) : m \in LastOf("metaData", Actions)} =
              {[m EXCEPT !.schema_string = Canonical(@)] : m \in LastOf("metaData", sent)}

(* Reading and writing are inverse on what readers see: a file that is     *)
(* committed again as it was listed, whoever wrote its statistics first,   *)
(* is listed as before (mapping.rs:77-83, 219-223).                        *)
CopyIsStable == [][Copy => list_active_files' = list_active_files]_vars

(* The operations that conflict detection tells apart.                     *)
Variant(op) ==
    CASE op = "MERGE" -> "Merge" [] op = "UPDATE" -> "Update" [] op = "DELETE" -> "Delete"
      [] op = "OPTIMIZE" -> "Optimize" [] op = "VACUUM" -> "VacuumStart"
      [] op = "RESTORE" -> "Restore" [] OTHER -> "Write"

Info(v) == Of("commitInfo", sent[v])

(* commit.rs:65-81: CommitBuilder is told the operation the client named   *)
(* in its first CommitInfo, so an isolation level is lowered only for a    *)
(* declared OPTIMIZE or VACUUM; and its predicate comes along.  The wire   *)
(* contract denies both (delta_txn.proto:165-170, 319-323).                *)
OperationAsDeclared ==
    \A v \in ServiceCommits :
        LET op == log[v].op IN
        /\ Info(v) = {} => op = Write
        /\ \A ci \in Info(v) :
              /\ op.kind = Variant(ci.operation)
              /\ op.kind \in {"Merge", "Update", "Delete", "Optimize"} =>
                    op.predicate = Get(ci.operation_parameters, "predicate")

(* commit.rs:288-306: the target_size a client gives its OPTIMIZE is the   *)
(* one CommitBuilder is told of.                                           *)
TargetSizeAsDeclared ==
    \A v \in ServiceCommits : \A ci \in Info(v) :
        log[v].op.kind = "Optimize" /\ "target_size" \in DOMAIN ci.operation_parameters =>
            log[v].op.target_size = Numeral[ci.operation_parameters["target_size"]]
=============================================================================
