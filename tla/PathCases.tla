----------------------------- MODULE PathCases -----------------------------
(* Names, patterns and shell words for Paths, and what it makes of them.  *)
EXTENDS Paths, TLC

Links == INSTANCE Links WITH Chars <- <<"%", ".", "/", "1", "2", "D", "a", "b", "d", "e", "f", "g", "l", "m", "s", "t", "x">>

\* A separator more is the same path
OneSep(s) == SelectSeq([i \in DOMAIN s |-> IF i > 1 /\ s[i] = Sep /\ s[i - 1] = Sep THEN "" ELSE s[i]],
                       LAMBDA c : c # "")

\* The first disk is scanned; the second one may be mounted in a directory of it
DiskPaths == {[i \in 0..1 |-> IF i = 0 THEN <<"/", "a", "/">> ELSE second]
                : second \in {<<"/", "m", "/">>, <<"/", "a", "/", "b", "/">>}}

Entry(type, name, inode, target) ==
    [type |-> type, path |-> <<"/", "a", "/">> \o name, inode |-> inode, readable |-> TRUE, target |-> target]

\* Files with several names, links to a file of this disk, of the second one and of none,
\* directories with and without files
Tree(second) == <<
    Entry("d", <<>>, 9, <<>>), Entry("f", <<"f">>, 1, <<>>), Entry("f", <<"d", "/", "g">>, 1, <<>>),
    Entry("f", <<"d", "/", "x">>, 2, <<>>), [Entry("f", <<"s">>, 8, <<>>) EXCEPT !.readable = FALSE],
    Entry("l", <<"l">>, 3, second \o <<"f">>), Entry("l", <<"d", "/", "l">>, 4, <<"/", "a", "/", "f">>),
    Entry("l", <<"t">>, 5, <<>>), Entry("d", <<"d">>, 6, <<>>), Entry("d", <<"e">>, 7, <<>>)>>

Lists(second) == {SelectSeq(Tree(second), LAMBDA e : e \in S) : S \in SUBSET Range(Tree(second))}

All == [patterns |-> <<>>, regex |-> <<>>]

\* Restored to dest instead of /a/
Moved(p, dest) == IF isPrefix(<<"/", "a", "/">>, p) THEN dest \o From(p, 4) ELSE p

\* What symlink and link are called for, from the list of the disk alone
Expected(list, dest) ==
    {[path |-> Moved(e.path, dest), to |-> Moved(e.target, dest), hard |-> FALSE] :
        e \in {q \in Range(list) : q.type = "l" /\ q.target # <<>>}}
    \cup {[path |-> Moved(list[k].path, dest), to |-> Moved(list[k - 1].path, dest), hard |-> TRUE] :
        k \in {j \in 2..Len(list) : list[j].inode = list[j - 1].inode}}

\* Directories with no file in newfiles below them
Bare(list) ==
    {<<"D", "1">> \o From(e.path, 3) :
        e \in {q \in Range(list) : /\ q.type = "d" /\ Len(q.path) > 3
                                   /\ ~\E k \in DOMAIN list : /\ isPrefix(Append(q.path, Sep), list[k].path)
                                                              /\ list[k].type = "f"
                                                              /\ k = 1 \/ list[k].inode # list[k - 1].inode}}

\* What the destination has already: only itself, or the directory of the tree too
AtDest(dest) == {{UpTo(dest, 2)}, {UpTo(dest, 2), dest \o <<"d">>}}

\* symlink and link: what they are called for, and what they make
Restored(disk, list, dest, dirs) ==
    LET scan  == Links!loadFileList(disk, 0, list)
        links == Links!loadLinks(<<Links!Line("l", <<"D", "1", "/", "m">>, <<"x">>)>>, 0, scan.lnk)
        done  == Links!restoreSpecial(links, <<"D", "1">>, All, -1, [r \in {l.link : l \in Range(links)} |-> 0],
                                      [disk EXCEPT ![0] = dest], <<"/", "x">>, dest, dirs)
        same(calls) == {[c EXCEPT !.to = OneSep(@)] : c \in calls}
    IN [calls |-> same(done.calls), made |-> same(done.made)]

LinkCases ==
    UNION {UNION {{<<disk, dest, dirs>> : dirs \in AtDest(dest)} :
               dest \in {<<"/", "a", "/">>} \cup (IF disk[1] = <<"/", "m", "/">> THEN {<<"/", "g", "/">>} ELSE {})} :
           disk \in DiskPaths}

WrongLinks ==
    {<<c, list>> \in UNION {{d} \X Lists(d[1][1]) : d \in LinkCases} :
        LET expected == Expected(list, c[2])
            listed   == {l \in Range(Links!loadFileList(c[1], 0, list).lnk) : l.ftype = "d"}
        IN \/ Restored(c[1], list, c[2], c[3]) #
                 [calls |-> expected, made |-> {e \in expected : Links!dirname(e.path) \in c[3]}]
           \/ {r.link : r \in listed} # Bare(list)}

----------------------------------------------------------------------------
Arguments == {
    <<"f">>, <<"/", "d">>, <<"*", "x">>, <<"d", "/", "?">>,
    <<"apos", "f", "apos">>, <<"r", "quot", "x", "quot">>, <<"r", "apos", "d", "apos">>, <<"r">>, <<"quot", "f", "apos">>}
Quoted(arg) == arg[1] \in Quotes \/ (arg[1] = "r" /\ Len(arg) > 1)

Prefix == <<"D", "1", "/">>
\* name -> owner
Owner == (Prefix \o <<"f">>) :> 0 @@ (Prefix \o <<"f", "x">>) :> 1 @@ (Prefix \o <<"d", "/", "x">>) :> 0
           @@ (Prefix \o <<"d", "/", ".">>) :> 1 @@ (<<"D", "2", "/", "f">>) :> 1

Selected(args, owner) ==
    LET filter == savePatterns(args, Prefix)
    IN {s \in DOMAIN Owner : pathMatchPattern(filter, s, owner, Owner[s])}

Fatal(args) == savePatterns(args, Prefix).fatal

Mixed == {<<p, q, owner>> \in Arguments \X Arguments \X {-1, 0, 1} :
            /\ ~Fatal(<<p>>) /\ ~Fatal(<<q>>)
            /\ Quoted(p) => Quoted(q)
            /\ \/ Fatal(<<p, q>>)
               \/ Selected(<<p, q>>, owner) # {s \in Selected(<<p>>, -1) \cup Selected(<<q>>, -1) :
                                                  owner >= 0 => Owner[s] = owner}}

----------------------------------------------------------------------------
\* The words a shell reads: inside apostrophes everything but an apostrophe is plain, inside
\* quotation marks everything is plain here, and a blank outside ends the word
ShellWords(s) ==
    LET step(st, c) ==
          CASE st.mode = c -> [st EXCEPT !.mode = ""]
            [] st.mode \notin {c, ""} -> [st EXCEPT !.words = Append(Front(@), Append(Last(@), c))]
            [] st.mode = "" /\ c \in {"apos", "quot"} -> [st EXCEPT !.mode = c]
            [] st.mode = "" /\ c = " " -> [st EXCEPT !.words = Append(@, <<>>)]
            [] OTHER -> [st EXCEPT !.words = Append(Front(@), Append(Last(@), c))]
        end == FoldLeft(step, [mode |-> "", words |-> <<<<>>>>], s)
    IN IF end.mode = "" THEN end.words ELSE <<>>

ShellSize == 20
ShellTexts == UNION {[1..n -> {"a", " ", "apos", "quot"}] : n \in 1..4}

Broken == {s \in ShellTexts :
             LET r == path4shell(s, ShellSize)
             IN /\ Len(s) + 4 * Cardinality(Places(s, "apos")) < ShellSize - 3
                /\ ~(r.len = Len(r.text) /\ ShellWords(r.text) = <<s>>)}
=============================================================================
