------------------------------ MODULE TableUri ------------------------------
(***************************************************************************)
(* What a process does with the table_uri of a request before anything     *)
(* else: the allowlist of DELTA_TXN_ALLOWED_TABLE_PREFIXES                 *)
(* (config/storage.rs), the two checks around ensure_table_uri             *)
(* (grpc/server.rs, normalize_and_check_table_uri), and for a Commit the   *)
(* table lock taken under the normalised URI.                              *)
(*                                                                         *)
(* One table can be spelled in many ways: relative or absolute, with or    *)
(* without a scheme, with a trailing slash or dot segments.  The text of a *)
(* URI is a sequence of tokens, where "/" separates segments and a name is *)
(* one or more tokens, so that one name can start with another.            *)
(* ensure_table_uri is delta-rs's and external.                            *)
(***************************************************************************)
EXTENDS Naturals, Sequences, FiniteSets, SequencesExt

CONSTANTS
    Requests,       \* the calls
    Uris,           \* the table_uris they carry
    Settings,       \* the values of DELTA_TXN_ALLOWED_TABLE_PREFIXES considered
    Cwd,            \* the process's working directory, a sequence of segments
    KnownSchemes,   \* schemes with a registered object store
    Tokens,         \* what names are made of; ".." alone is the parent
    Unset, Blank    \* no such variable; an entry of nothing but spaces

ASSUME TokensAssumption == "/" \notin Tokens

Chars == Tokens \cup {"/"}
Names == Seq(Tokens) \ {<<>>}

(* A URI: its scheme, "none" for a path, and the text after "scheme:".     *)
IsUri(u) == u.text \in Seq(Chars)

ASSUME CwdAssumption == Cwd \in Seq(Names)
ASSUME SettingsAssumption ==
    \A s \in Settings \ {Unset} : \A i \in DOMAIN s : s[i] = Blank \/ IsUri(s[i])
ASSUME SchemesAssumption == KnownSchemes \cap {"none", "file"} = {}

VARIABLES
    setting,    \* the environment variable of this process
    allowlist,  \* DeltaTxnGrpcServer.allowed_table_prefixes
    uri,        \* the table_uri of each request
    rpc,        \* "commit" or "read"
    status,     \* what normalize_and_check_table_uri answered, "none" before
    key,        \* the key of the request's table lock
    dirs,       \* local directories that ensure_table_uri has made
    line,       \* the table locks, as KeyLock has them
    holding,    \* the Commits inside their locked section
    answered    \* the calls that were answered; for a read, handed on

lockVars == <<key, line, holding>>
vars == <<setting, allowlist, uri, rpc, status, dirs, lockVars, answered>>

----------------------------------------------------------------------------
(* load_allowed_table_prefixes: blank entries are dropped, and a list of   *)
(* nothing is no list.  The Option is a set of at most one list.           *)
load_allowed_table_prefixes(s) ==
    IF s = Unset \/ ToSet(s) \subseteq {Blank} THEN {} ELSE {ToSet(s) \ {Blank}}

StripSlash(t) == IF t # <<>> /\ Last(t) = "/" THEN Front(t) ELSE t

(* is_table_uri_allowed, one prefix: the text itself, or the text followed *)
(* by "/", whether or not the operator wrote a final slash.                *)
MatchesPrefix_CharPrefix(p, u) == p.scheme = u.scheme /\ IsPrefix(StripSlash(p.text), u.text)

MatchesPrefix(p, u) ==
    /\ p.scheme = u.scheme
    /\ LET prefix == StripSlash(p.text) IN
          u.text = prefix \/ IsPrefix(prefix \o <<"/">>, u.text)

(* Without a list every table_uri is permitted.                            *)
is_table_uri_allowed(u) ==
    \A prefixes \in allowlist : \E p \in prefixes : MatchesPrefix(p, u)

----------------------------------------------------------------------------
(* The segments of a text, read token by token; empty ones do not count.   *)
Words(s) == IF s.word = <<>> THEN s.words ELSE Append(s.words, s.word)
Read(s, c) ==
    IF c = "/" THEN [words |-> Words(s), word |-> <<>>]
    ELSE [words |-> s.words, word |-> Append(s.word, c)]
Scan(t) ==
    LET seen[i \in 0 .. Len(t)] ==
          IF i = 0 THEN [words |-> <<>>, word |-> <<>>] ELSE Read(seen[i - 1], t[i])
    IN  seen
Segments(t) == Words(Scan(t)[Len(t)])

(* Segments followed one by one, starting from the directory `base`.       *)
Enter(dir, s) ==
    IF s # <<"..">> THEN Append(dir, s) ELSE IF dir = <<>> THEN dir ELSE Front(dir)
Walk(base, segments) ==
    LET at[i \in 0 .. Len(segments)] ==
          IF i = 0 THEN base ELSE Enter(at[i - 1], segments[i])
    IN  at
Resolve(base, segments) == Walk(base, segments)[Len(segments)]

(* Segments written with a slash between them.                             *)
Glue(t, s) == IF t = <<>> THEN s ELSE t \o <<"/">> \o s
Write(segments) ==
    LET upto[i \in 0 .. Len(segments)] ==
          IF i = 0 THEN <<>> ELSE Glue(upto[i - 1], segments[i])
    IN  upto
Joined(segments) == Write(segments)[Len(segments)]

IsLocal(u) == u.scheme \in {"none", "file"}
IsRelative(u) == u.scheme = "none" /\ (u.text = <<>> \/ Head(u.text) # "/")

(* Where a URI points.  The first segment of a remote one is its bucket.   *)
Location(u) ==
    LET s == Segments(u.text) IN
    [scheme   |-> IF IsLocal(u) THEN "file" ELSE u.scheme,
     segments |-> IF IsLocal(u) THEN Resolve(IF IsRelative(u) THEN Cwd ELSE <<>>, s)
                  ELSE IF s = <<>> THEN s ELSE <<Head(s)>> \o Resolve(<<>>, Tail(s))]

(* The text of an absolute URI: "//", for a file "///", and its segments,  *)
(* no final slash.                                                         *)
Root(scheme) == IF scheme = "file" THEN <<"/", "/", "/">> ELSE <<"/", "/">>
Absolute(scheme, segments) == Root(scheme) \o Joined(segments)

(* The URI ensure_table_uri gives a location.                              *)
Normalized(u) ==
    LET l == Location(u) IN
    [scheme |-> l.scheme, text |-> Absolute(l.scheme, l.segments)]

(* A URI with a scheme, written with single slashes; a final one may       *)
(* follow its last segment.                                                *)
Tidy(u) ==
    LET s == Segments(u.text) IN
    \/ u.text = Absolute(u.scheme, s)
    \/ s # <<>> /\ u.text = Absolute(u.scheme, s) \o <<"/">>

(* The text holds "://".  A file URI need not: "file:/srv" is one too.     *)
HasSchemeMark(u) == u.scheme # "none" /\ IsPrefix(<<"/", "/">>, u.text)

(* What delta-rs makes of an empty segment behind "://" is not considered, *)
(* nor a remote URI without it.                                            *)
ASSUME UrisAssumption ==
    \A u \in Uris :
        /\ IsUri(u)
        /\ HasSchemeMark(u) => Tidy(u)
        /\ ~HasSchemeMark(u) => IsLocal(u)

(* ensure_table_uri fails on a scheme nobody knows, and may fail to make a *)
(* local directory or, once it is made, to look up its full path.          *)
MayFail(u) == IsLocal(u) \/ u.scheme \notin KnownSchemes
MaySucceed(u) == IsLocal(u) \/ u.scheme \in KnownSchemes

----------------------------------------------------------------------------
Keys == {Normalized(u) : u \in Uris} \cup Uris

Lock == INSTANCE KeyLock WITH Tasks <- Requests

(* The key of the table's lock.                                            *)
LockKey_Raw(u) == u
LockKey(u) == Normalized(u)

(* One type invariant: every variable keeps its shape.                     *)
TypeOK ==
    /\ setting \in Settings
    /\ \A prefixes \in allowlist : \A p \in prefixes : IsUri(p)
    /\ uri \in [Requests -> Uris]
    /\ rpc \in [Requests -> {"commit", "read"}]
    /\ status \in [Requests -> {"none", "OK", "INVALID_ARGUMENT", "PERMISSION_DENIED"}]
    /\ key \in [Requests -> Keys]
    /\ \A d \in dirs : d.scheme = "file"
    /\ line \in [Keys -> Seq(Requests)]
    /\ holding \subseteq Requests
    /\ answered \subseteq Requests

Init ==
    /\ setting \in Settings
    /\ allowlist = load_allowed_table_prefixes(setting)
    /\ uri \in [Requests -> Uris]
    /\ rpc \in [Requests -> {"commit", "read"}]
    /\ status = [r \in Requests |-> "none"]
    /\ key = uri
    /\ dirs = {}
    /\ line = [k \in Keys |-> <<>>]
    /\ holding = {}
    /\ answered = {}

(* The verdict; only a Commit that passed goes on.                         *)
Answer(r, code) ==
    /\ status' = [status EXCEPT ![r] = code]
    /\ answered' = IF code = "OK" /\ rpc[r] = "commit" THEN answered ELSE answered \cup {r}

(* A URI with "://" is checked as it was sent, before ensure_table_uri.    *)
RawRefused_NeverLooked(u) == FALSE
RawRefused(u) == HasSchemeMark(u) /\ ~is_table_uri_allowed(u)

(* The directory ensure_table_uri makes.                                   *)
Made(u) == IF IsLocal(u) THEN {Location(u)} ELSE {}

(* The normalised URI decides.                                             *)
Refused(u) == ~is_table_uri_allowed(Normalized(u))

(* normalize_and_check_table_uri, at the top of every handler; no await,   *)
(* so one step.                                                            *)
normalize_and_check_table_uri(r) ==
    /\ status[r] = "none"
    /\ LET u == uri[r] IN
       \/ /\ RawRefused(u)
          /\ Answer(r, "PERMISSION_DENIED")
          /\ UNCHANGED dirs
       \/ /\ ~RawRefused(u) /\ MayFail(u)
          /\ Answer(r, "INVALID_ARGUMENT")
          /\ dirs' \in {dirs, dirs \cup Made(u)}
       \/ /\ ~RawRefused(u) /\ MaySucceed(u)
          /\ dirs' = dirs \cup Made(u)
          /\ Answer(r, IF Refused(u) THEN "PERMISSION_DENIED" ELSE "OK")
    /\ UNCHANGED <<setting, allowlist, uri, rpc, lockVars>>

lock_for_BeforeCheck(r) ==
    /\ status[r] \in {"none", "OK"} /\ r \notin answered
    /\ key' = [key EXCEPT ![r] = LockKey(uri[r])]
    /\ Lock!Join(r, key'[r])
    /\ UNCHANGED <<setting, allowlist, uri, rpc, status, dirs, answered>>

(* commit: lock_for on the normalised URI, then lock.                      *)
lock_for(r) ==
    /\ status[r] = "OK" /\ r \notin answered
    /\ key' = [key EXCEPT ![r] = LockKey(uri[r])]
    /\ Lock!Join(r, key'[r])
    /\ UNCHANGED <<setting, allowlist, uri, rpc, status, dirs, answered>>

lock(r) ==
    /\ Lock!Enter(r, key[r])
    /\ UNCHANGED <<setting, allowlist, uri, rpc, status, key, dirs, answered>>

(* The Commit is answered.                                                 *)
Done(r) ==
    /\ r \in holding
    /\ Lock!Leave(r, key[r])
    /\ answered' = answered \cup {r}
    /\ UNCHANGED <<setting, allowlist, uri, rpc, status, key, dirs>>

Finished == answered = Requests

Next ==
    \/ \E r \in Requests :
          normalize_and_check_table_uri(r) \/ lock_for(r) \/ lock(r) \/ Done(r)
    \/ Finished /\ UNCHANGED vars

Spec == Init /\ [][Next]_vars

----------------------------------------------------------------------------
(* A configured prefix covers a location segment by segment.               *)
Covers(p, l) == p.scheme = l.scheme /\ IsPrefix(Segments(p.text), l.segments)
Unlisted == setting = Unset \/ ToSet(setting) \subseteq {Blank}
Covered(l) ==
    Unlisted \/ \E i \in DOMAIN setting : setting[i] # Blank /\ Covers(setting[i], l)
TidilyCovered(l) ==
    Unlisted \/ \E i \in DOMAIN setting :
                   setting[i] # Blank /\ Tidy(setting[i]) /\ Covers(setting[i], l)
HasDots(u) == Contains(Segments(u.text), <<"..">>)

(* storage.rs:43-55: what is served lies at or below a configured prefix,  *)
(* never beside it, however it was spelled; and what lies there is never   *)
(* refused if the operator wrote the prefix with single slashes, with or   *)
(* without a final one, and the client sent no "://" or no dot segments.   *)
AllowlistExact ==
    \A r \in Requests :
        /\ status[r] = "OK" => Covered(Location(uri[r]))
        /\ status[r] = "PERMISSION_DENIED" /\ (~HasSchemeMark(uri[r]) \/ ~HasDots(uri[r]))
              => ~TidilyCovered(Location(uri[r]))

(* server.rs:129-148: a directory outside the list is there only because   *)
(* of a refused or failed request that the check as sent could not stop:   *)
(* its URI has no "://", or has dot segments, which that check does not    *)
(* follow.  The comment claims it of every URI with "://"; those with dot  *)
(* segments are why it cannot be stated here.                              *)
NoDirectoryForRefused ==
    \A d \in dirs :
        \/ Covered(d)
        \/ \E r \in Requests :
              /\ status[r] \in {"PERMISSION_DENIED", "INVALID_ARGUMENT"} /\ Location(uri[r]) = d
              /\ ~HasSchemeMark(uri[r]) \/ HasDots(uri[r])

(* server.rs:369-378: two Commits to one table exclude each other, also    *)
(* when their clients spell its URI differently.                           *)
OneCommitPerLocation ==
    \A a, b \in holding : Location(uri[a]) = Location(uri[b]) => a = b

----------------------------------------------------------------------------
(* A Commit has one place in the lines, that of the key it asked for, once *)
(* its URI has passed; who holds a lock is at the front of its line.       *)
LineSound ==
    /\ \A k \in Keys :
          /\ \A i, j \in 1 .. Len(line[k]) : line[k][i] = line[k][j] => i = j
          /\ \A i \in 1 .. Len(line[k]) :
                LET r == line[k][i] IN key[r] = k /\ LockKey(uri[r]) = k /\ status[r] = "OK"
    /\ \A r \in holding : line[key[r]] # <<>> /\ line[key[r]][1] = r

(* A verdict is the one that the list read at the start gives, and a       *)
(* directory is there because of a URI that passed the check as sent.      *)
VerdictSound ==
    /\ allowlist = load_allowed_table_prefixes(setting)
    /\ \A r \in Requests :
          /\ status[r] = "OK" => ~Refused(uri[r])
          /\ status[r] = "PERMISSION_DENIED" => RawRefused(uri[r]) \/ Refused(uri[r])
    /\ \A d \in dirs : \E r \in Requests :
          status[r] # "none" /\ Location(uri[r]) = d /\ ~RawRefused(uri[r])

(* The inductive invariant of the URI check and the lock.                  *)
IInv == TypeOK /\ LineSound /\ VerdictSound
=============================================================================
