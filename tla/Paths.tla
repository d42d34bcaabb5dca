------------------------------- MODULE Paths -------------------------------
(***************************************************************************)
(* Names of files: in the archive a file is D<idx>/path, on a disk it is   *)
(* the disk's path followed by path; patterns of the command line select   *)
(* names; and a name given to the shell is quoted.  A text is a sequence   *)
(* of characters.                                                          *)
(***************************************************************************)
EXTENDS Integers, SequencesExt, FiniteSetsExt

Sep    == "/"
Digits == <<"0", "1", "2", "3", "4", "5", "6", "7", "8", "9">>
Digit  == [c \in Range(Digits) |-> (CHOOSE i \in 1..10 : Digits[i] = c) - 1]
IsDigit(s, i) == i <= Len(s) /\ s[i] \in DOMAIN Digit

From(s, i) == SubSeq(s, i, Len(s))
UpTo(s, i) == SubSeq(s, 1, i)

\* Places of c in s; strchr and strrchr
Places(s, c) == {i \in DOMAIN s : s[i] = c}
strchr(s, c) == From(s, Min(Places(s, c)))

isPrefix(p, s) == IsPrefix(p, s)

findAnyChar(s, chars) == \E c \in chars : Places(s, c) # {}

fileBasename(p) == IF Places(p, Sep) = {} THEN p ELSE From(p, Max(Places(p, Sep)) + 1)

addPathSeparator(p) == IF Last(p) = Sep THEN p ELSE Append(p, Sep)

isUUID(s, hex) == Range(s) \subseteq hex \cup {"-"}

\* home: pw_dir of the effective user; dir = <<>>: NULL
normPath(name, dir, home) ==
    CASE name[1] = Sep -> name
      [] name[1] = "~" -> home \o Tail(name)
      [] name[1] \notin {Sep, "~"} /\ dir # <<>> /\ dir[1] = "~" -> home \o Tail(dir) \o name
      [] OTHER -> dir \o name

----------------------------------------------------------------------------
(* D<idx>/path                                                             *)

\* -1: not a disk; a second digit is taken into rv += rv * 10 + digit
getDiskIndex(s) ==
    LET two == IsDigit(s, 3)
        rv  == Digit[s[2]]
        at  == IF two THEN 4 ELSE 3
    IN IF Len(s) < 2 \/ s[1] # "D" \/ ~IsDigit(s, 2) THEN -1
       ELSE IF at <= Len(s) /\ s[at] \notin {Sep, "="} THEN -1
       ELSE (IF two THEN rv + rv * 10 + Digit[s[3]] ELSE rv) - 1

diskId(i) == <<"D", Digits[i + 2]>>     \* below ten

\* disk: paths of the data disks by index, each with a separator at its end
prefix2path(disk, s) ==
    LET i == getDiskIndex(s)
    IN IF i >= 0 THEN disk[i] \o strchr(s, Sep) ELSE s

\* The disk's path is longer than its id: it is not the root directory
disk2prefix(disk, i, s) == diskId(i) \o From(s, Len(disk[i]))

\* Every disk is tried, the first one on the name given, the next ones on what came of it
path2prefix(disk, s) ==
    FoldLeft(LAMBDA p, i : IF isPrefix(disk[i], p) THEN disk2prefix(disk, i, p) ELSE p,
             s, [k \in 1..Cardinality(DOMAIN disk) |-> k - 1])

----------------------------------------------------------------------------
(* Patterns: names or parts of them, wildcards, and r'regular expressions' *)

\* Apostrophe, quotation mark and backquote, by their names
Quotes      == {"apos", "quot", "back"}
Wildcards   == {"?", "*"}
MaxPatterns == 20

\* patterns and regex of CONFIG; quot is set by the first quoted argument and stays set.
\* strchr(QUOTAS, 0) finds the end of QUOTAS: "r" alone is taken for a quotation not closed.
savePatterns(args, prefix) ==
    LET one(st, arg) ==
          LET reg    == arg[1] = "r" /\ Len(arg) > 1 /\ arg[2] \in Quotes
              quoted == reg \/ arg[1] \in Quotes
              quot   == st.quot \/ quoted
              inner  == IF reg THEN From(arg, 3) ELSE IF quoted THEN Tail(arg) ELSE arg
              rel    == IF inner # <<>> /\ inner[1] = Sep THEN Tail(inner) ELSE inner
              text   == prefix \o rel
              pat    == IF quot THEN Front(text) ELSE text
          IN IF arg = <<"r">> \/ (quoted /\ Last(arg) # arg[IF reg THEN 2 ELSE 1])
             THEN [st EXCEPT !.fatal = TRUE]
             ELSE [st EXCEPT !.quot = quot,
                             !.regex    = IF reg THEN Append(@, pat) ELSE @,
                             !.patterns = IF reg THEN @ ELSE Append(@, pat)]
    IN FoldLeft(one, [patterns |-> <<>>, regex |-> <<>>, quot |-> FALSE,
                       fatal |-> Len(args) + 2 >= MaxPatterns], args)

\* fnmatch with FNM_PATHNAME and FNM_PERIOD: * and ? match neither a separator nor a
\* period at the start of a name
fnmatch(pattern, s) ==
    LET plain(j) == s[j] # Sep /\ ~(s[j] = "." /\ (j = 1 \/ s[j - 1] = Sep))
        m[i \in 1..(Len(pattern) + 1), j \in 1..(Len(s) + 1)] ==
          CASE i > Len(pattern) -> j > Len(s)
            [] i <= Len(pattern) /\ pattern[i] = "*" ->
                 m[i + 1, j] \/ (j <= Len(s) /\ plain(j) /\ m[i, j + 1])
            [] OTHER -> /\ j <= Len(s)
                        /\ pattern[i] = s[j] \/ (pattern[i] = "?" /\ plain(j))
                        /\ m[i + 1, j + 1]
    IN m[1, 1]

\* A regular expression is a text to be found, regexec is not anchored
regexec(r, s) == \E i \in 0..(Len(s) - Len(r)) : SubSeq(s, i + 1, i + Len(r)) = r

matchesPattern(p, s) ==
    LET name == IF p[1] = Sep THEN strchr(s, Sep) ELSE s
    IN IF findAnyChar(p, Wildcards) THEN fnmatch(p, name) ELSE isPrefix(p, name)

\* Mutant: a regular expression selects the files of every owner
pathMatchAnyOwner(filter, s, owner, ownerOf) ==
    \/ filter.patterns = <<>> /\ filter.regex = <<>> /\ owner < 0
    \/ \E i \in DOMAIN filter.regex : regexec(filter.regex[i], s)
    \/ /\ \E i \in DOMAIN filter.patterns : matchesPattern(filter.patterns[i], s)
       /\ owner >= 0 => ownerOf = owner

\* ownerOf: getFileOwner of the file.  The array of patterns has no NULL at its end: what is
\* behind it is taken for no match here.
pathMatchPattern(filter, s, owner, ownerOf) ==
    \/ filter.patterns = <<>> /\ filter.regex = <<>> /\ owner < 0
    \/ /\ \/ \E i \in DOMAIN filter.patterns : matchesPattern(filter.patterns[i], s)
          \/ \E i \in DOMAIN filter.regex : regexec(filter.regex[i], s)
       /\ owner >= 0 => ownerOf = owner

----------------------------------------------------------------------------
(* Text for the shell                                                      *)

\* Every from in s, left to right; -1 if the result does not fit
replaceStr(s, size, from, to) ==
    LET n == Len(from)
        r[i \in 1..(Len(s) + 1)] ==
          CASE i > Len(s) -> <<>>
            [] i <= Len(s) /\ SubSeq(s, i, i + n - 1) = from /\ i + n - 1 <= Len(s) -> to \o r[i + n]
            [] OTHER -> <<s[i]>> \o r[i + 1]
    IN IF Len(r[1]) >= size THEN [len |-> -1, text |-> s] ELSE [len |-> Len(r[1]), text |-> r[1]]

\* Mutant: an apostrophe is escaped inside apostrophes
path4shellEscaped(s, size) ==
    LET sub == IF Places(s, "apos") = {} THEN [len |-> Len(s), text |-> s]
               ELSE replaceStr(s, size, <<"apos">>, <<"\\", "apos">>)
    IN IF sub.len >= 0 /\ sub.len < size - 3
       THEN [len |-> sub.len + 2, text |-> <<"apos">> \o sub.text \o <<"apos">>]
       ELSE sub

\* Apostrophes are put between quotation marks; quoted if it still fits into size
path4shell(s, size) ==
    LET sub == IF Places(s, "apos") = {} THEN [len |-> Len(s), text |-> s]
               ELSE replaceStr(s, size, <<"apos">>, <<"apos", "quot", "apos", "quot", "apos">>)
    IN IF sub.len >= 0 /\ sub.len < size - 3
       THEN [len |-> sub.len + 2, text |-> <<"apos">> \o sub.text \o <<"apos">>]
       ELSE sub

\* Paths left out of the file list: one phrase for each, "$PATH" stands for it
expandPhrases(s, size, phrase, paths) ==
    FoldLeft(LAMBDA st, p :
               IF st.len < 0 THEN st
               ELSE replaceStr(UpTo(st.text \o phrase \o <<" ">>, size - 1), size, <<"$PATH">>, p),
             [len |-> Len(s), text |-> s], paths)

\* Sub-directory of a path without its separators
excludeSysPath(dir) ==
    LET end == IF Last(dir) = Sep THEN Len(dir) - 1 ELSE Len(dir)
    IN SubSeq(dir, IF dir[1] = Sep THEN 2 ELSE 1, end)
=============================================================================
