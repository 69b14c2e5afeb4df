----------------------------- MODULE MCTableUri -----------------------------
(* Spellings of a few tables, local and remote, and settings of the        *)
(* allowlist with and without final slashes and blank entries, of all of a *)
(* store, and untidy ones.                                                 *)
EXTENDS TableUri, TLC

U(s, t) == [scheme |-> s, text |-> IF s = "none" THEN t ELSE Root(s) \o t]

WorkingDirectory == << <<"srv">> >>

Remote ==
    {U("s3", <<"b", "/", "t">>), U("s3", <<"b", "/", "t", "/">>), U("s3", <<"b", "/", "t", "/", "x">>),
     U("s3", <<"b", "/", "t", "-new">>), U("s3", <<"b", "/", "x", "/", "..", "/", "t">>),
     U("s3", <<"b", "/", "t", "/", "..", "/", "x">>), U("gopher", <<"b", "/", "t">>)}
Local ==
    {U("file", <<"srv", "/", "d">>), U("file", <<"srv", "/", "d", "/">>), U("file", <<"srv", "/", "e">>),
     U("file", <<"srv", "/", "d", "/", "..", "/", "e">>), U("file", <<"srv", "/", "e", "/", "..", "/", "d">>),
     [scheme |-> "file", text |-> <<"/", "srv", "/", "e">>], [scheme |-> "file", text |-> <<"/", "srv", "/", "d">>],
     U("none", <<"d">>), U("none", <<"e">>), U("none", <<"/", "srv", "/", "d">>),
     U("none", <<"e", "/", "..", "/", "d">>)}
AllUris == Remote \cup Local

AllSettings ==
    {Unset, <<Blank>>,
     <<U("s3", <<"b", "/", "t">>)>>,
     <<U("s3", <<"b", "/", "t", "/">>), Blank>>,
     <<U("file", <<"srv", "/", "d">>), U("s3", <<"b", "/", "x">>)>>,
     <<U("none", <<"d">>)>>,
     <<U("s3", <<>>)>>,
     <<U("s3", <<"b", "/", "/", "t">>), U("file", <<"srv", "/", "..">>)>>}

Symmetry == Permutations(Requests)
=============================================================================
