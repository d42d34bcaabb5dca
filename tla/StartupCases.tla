---------------------------- MODULE StartupCases ----------------------------
(* Command lines, configuration files and disks, and what Startup makes of *)
(* all of them.                                                            *)
EXTENDS Integers, SequencesExt, FiniteSets, TLC

Opt(s, l, t, f) == [short |-> s, long |-> l, type |-> t, field |-> f]

\* The table of initProgram
MCOptions == {
    Opt("b", "backup", "string", "backup"), Opt("t", "threads", "integer", "maxThreads"),
    Opt("c", "config", "string", "configDir"), Opt("l", "log", "string", "log"),
    Opt("m", "max-files", "integer", "maxFilesInSlice"), Opt("h", "help", "boolean", "help"),
    Opt("", "buffer-size", "integer", "fileBufferSize"), Opt("r", "roption", "string", "options"),
    Opt("", "verbose", "boolean", "verbose"), Opt("s", "slices", "integer", "maxSlices"),
    Opt("", "same-disks", "boolean", "allowSameDevices"), Opt("", "sqliteMode", "string", "sqliteMode"),
    Opt("v", "verify", "boolean", "verify"), Opt("", "dry", "string", "dryOption")}

Dir(name) == <<"/", name>>

S == INSTANCE Startup WITH
       MaxDisks <- 10, Options <- MCOptions,
       Switches <- <<"acl", "allowSameDevices", "verbose", "verify", "help">>,
       Number <- [x \in {"4", "20"} |-> IF x = "4" THEN 4 ELSE 20],
       UUIDs <- <<"U1">> :> Dir("d2") @@ <<"U2">> :> <<>>,
       Device <- Dir("b") :> 1 @@ Dir("d1") :> 2 @@ Dir("d2") :> 3 @@ Dir("x") :> 4 @@ Dir("on b") :> 1,
       ConfigAt <- {<<"/", "parity-backup/">>, <<"/", "b", ".parity-backup/">>}

Word(w) == <<w>>

----------------------------------------------------------------------------
\* Options with their values in each form
OptionArgs == {
    <<<<"-", "v">>>>, <<<<"-", "-", "no-", "verify">>>>, <<<<"-", "-", "same-disks">>>>,
    <<<<"-", "v", "l", "4">>>>, <<<<"-", "l">>, Word("log")>>, <<<<"-", "-", "dry", "=", "h">>>>,
    <<<<"-", "-", "dry">>, Word("r")>>, <<<<"-", "t">>, Word("4")>>, <<<<"-", "-", "threads">>, Word("x")>>,
    <<<<"-", "q">>>>, <<<<"-", "v", "q">>>>, <<<<"-", "-", "quit">>>>}
Words == {<<Word("sync")>>, <<<<"D", "1">>>>, <<<<"-">>>>}

Same(p, q) == (p.exit /\ q.exit) \/ (p.out = q.out /\ p.opt = q.opt /\ p.sw = q.sw)

\* Command lines whose meaning changes when a group of options trades places with a word
Displaced == {<<o1, o2, w1, w2>> \in OptionArgs \X OptionArgs \X Words \X Words :
                LET parse(argv) == S!argparse_parse(argv, {"acl"})
                IN \/ ~Same(parse(o1 \o o2 \o w1 \o w2), parse(w1 \o o1 \o w2 \o o2))
                   \/ ~Same(parse(o1 \o o2 \o w1 \o w2), parse(o1 \o w1 \o w2 \o o2))}

----------------------------------------------------------------------------
Line(key, val) == [key |-> key, eq |-> TRUE, val |-> val]

BackupLines == {Line(<<"b">>, Dir("b")), Line(<<"b">>, Dir("absent")), Line(<<"B">>, <<"U2">>)}
OtherLines  == {Line(<<"d", "1">>, Dir("d1")), Line(<<"d", "2">>, <<"U1">>), Line(<<"D", "0", "2">>, Dir("x")),
                Line(<<"d", "2">>, <<"U2">>), Line(<<"d", "2">>, Dir("on b")), Line(<<"d", "3">>, Dir("x")),
                [key |-> <<"d", "1">>, eq |-> FALSE, val |-> <<>>], Line(<<"#">>, <<>>), Line(<<"d", "1", "0">>, Dir("x"))}
\* One disk in every cell there is
Nine == <<Line(<<"b">>, Dir("b"))>> \o [i \in 1..9 |-> Line(S!P!diskId(i - 1), Dir("d1"))]

Files == UNION {[1..n -> OtherLines] : n \in 0..2}
ConfigFiles == {<<b>> \o f : b \in BackupLines, f \in Files} \cup Files \cup {Nine}

Calls == {
    <<Word("sync")>>, <<Word("sync"), Word("conf"), <<"-", "-", "same-disks">>>>,
    <<Word("plan"), Word("conf")>>, <<Word("show"), Word("u")>>, <<Word("restore")>>,
    <<Word("sync"), <<"-", "b">>, Dir("b")>>, <<Word("plan"), <<"-", "b">>, Dir("absent")>>,
    <<Word("sync"), <<"-", "b">>, Dir("b"), <<"-", "-", "dry", "=", "r">>>>,
    <<Word("sync"), <<"-", "-", "dry">>, Word("h")>>, <<Word("sync"), <<"-", "-", "dry">>, Word("x")>>,
    <<Word("sync"), <<"-", "-", "sqliteMode">>, Word("r")>>,
    <<Word("restore"), <<"D", "1", "=", "/", "x">>>>, <<Word("restore"), <<"d", "1", "=", "/", "x">>>>,
    <<Word("restore"), <<"D", "1">>>>, <<Word("restore"), <<"D", "9", "=", "/", "x">>>>,
    <<Word("restore"), <<"D", "2", "=", "/", "x">>, <<"-", "r">>, <<"flat", ",", "repl">>>>,
    <<Word("restore"), <<"D", "1", "=", "/", "x">>, <<"-", "r">>, <<"zero">>>>,
    <<Word("plan"), <<"-", "-", "buffer-size">>, Word("20")>>, <<Word("run")>>, <<<<"-", "h">>>>}

Results == [a \in Calls |-> [f \in ConfigFiles |-> S!initProgram(a, TRUE, f)]]

Result(a, f) == Results[a][f]

Consistent(r) ==
    LET disk == r.diskDesc
        all  == 0..r.disks
    IN /\ disk[r.disks].id = <<"BCK">> /\ r.workDir # <<>>
       /\ disk[r.disks].mounted => r.workDir = disk[r.disks].path
       /\ r.cmd = "sync" => \A i \in all :
            /\ disk[i].mounted
            /\ S!On(r.arg, "allowSameDevices") \/ \A k \in all : disk[k].f_sid = disk[i].f_sid => k = i
       /\ r.cmd = "restore" => \E lost \in 0..(r.disks - 1) :
            /\ disk[lost].path = r.restoreDest /\ disk[r.disks + 1].mounted
            /\ \A i \in all \ {lost} : disk[i].mounted
            /\ disk[lost].id = r.restoreDiskId

Inconsistent == {<<a, f>> \in Calls \X ConfigFiles : Result(a, f).end = "ready" /\ ~Consistent(Result(a, f))}

Excused(r, f) ==
    \/ r.cmd = "restore" /\ (r.restoreDest = <<>> \/ r.disks = 9)
    \/ \E i \in DOMAIN f : f[i].val \in {Dir("absent"), <<"U2">>}

Unexplained == {<<a, f>> \in Calls \X ConfigFiles :
                  Result(a, f).end = "undefined" /\ ~Excused(Result(a, f), f)}

OrderDependent == {<<a, f>> \in Calls \X {g \in ConfigFiles : Len(g) = 3} :
                     LET r == Result(a, f)
                         q == S!initProgram(a, TRUE, Reverse(f))
                     IN \/ r.end # q.end
                        \/ r.end = "ready" /\ (r.diskDesc # q.diskDesc \/ r.workDir # q.workDir)}
=============================================================================
