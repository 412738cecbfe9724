----------------------------- MODULE MCTreeGate -----------------------------
(* A workspace of a directory with two files, a protected and a platform file. *)
EXTENDS TreeProperties

MCPath == {<<"src">>, <<"src", "f">>, <<"src", "g">>, <<"SRC">>, <<"lock">>, <<"AGENTS">>, <<"dist">>, <<"dist", "f">>}
MCPathOrder == << <<"AGENTS">>, <<"dist">>, <<"dist", "f">>, <<"lock">>, <<"SRC">>, <<"src">>, <<"src", "f">>,
                  <<"src", "g">> >>
MCFoldName == [n \in {"src", "SRC", "f", "g", "lock", "AGENTS", "dist"} |-> IF n = "SRC" THEN "src" ELSE n]
MCManaged == {<<"AGENTS">>}
MCProtected == {<<"lock">>}
MCSize == "none" :> 0 @@ "old" :> 1 @@ "new" :> 2 @@ "big" :> 3
MCDatum == {"old", "new", "big"}
MCFile(d) == [kind |-> "file", writable |-> TRUE, data |-> d]
MCWorkspace == <<"src">> :> Directory
               @@ [p \in {<<"src", "f">>, <<"src", "g">>, <<"lock">>, <<"AGENTS">>} |-> MCFile("old")]
MCWritable == {Directory, MCFile("new"), MCFile("big")}
              \cup {[kind |-> k, writable |-> TRUE, data |-> "new"] : k \in {"symlink", "special"}}
MCLimit == "scanned" :> 7 @@ "scannedBytes" :> 7 @@ "bytes" :> 3 @@ [b \in Budgets |-> 2]
MCCheck(s, e) == [id |-> "c", status |-> s, exit |-> e, timedOut |-> FALSE]
MCCheckLists ==
    {<<>>, <<MCCheck("PASS", 0)>>, <<MCCheck("FAIL", 1)>>, <<MCCheck("PASS", 0), MCCheck("PASS", 0)>>}
=============================================================================
