------------------------------ MODULE Listings ------------------------------
(***************************************************************************)
(* show changed and show unrecover: files that changed after their slice   *)
(* was saved, and files of other disks that cannot be computed any more    *)
(* because of them (createTempTables).  A row is one of slpos: disk,       *)
(* start, fsize, sid, fpath, mtime, state and owner.                       *)
(***************************************************************************)
EXTENDS Integers, FiniteSets, SequencesExt

\* Only the first word of the owner column is compared: a text.  What updateOwners stores ends
\* with the newline of its line, so a row written by it belongs to nobody here.
OwnedBy(r, user) == r.owner = <<user>>

\* Mutant: files that overlap a changed one with their first byte only
overlapFirst(t, p) == t.start <= p.start /\ p.start < t.start + t.fsize

\* Ranges that overlap, or touch
overlap(t, p) == p.start <= t.start + t.fsize /\ t.start <= p.start + p.fsize

\* heads: state of each slice; user, euser: real and effective user
createTempTables(slpos, heads, user, euser) ==
    LET tmp == {p \in slpos : /\ heads[p.sid] = "D*" /\ p.state = "*"
                              /\ user # euser => OwnedBy(p, user)}
    IN [tmp  |-> tmp,
        tmp2 |-> {p \in slpos : \E t \in tmp : t.sid = p.sid /\ t.disk # p.disk /\ overlap(t, p)}]

\* ORDER BY disk, sid, start, fsize DESC, where path is not selected by its name.  A row of
\* the report: the slice is named where it differs from that of the line before
listResult(rows, matches) ==
    LET sorted == SetToSortSeq({r \in rows : matches[r.fpath]},
                    LAMBDA p, q : \/ p.disk < q.disk
                                  \/ p.disk = q.disk /\ p.sid < q.sid
                                  \/ p.disk = q.disk /\ p.sid = q.sid /\ p.start < q.start
                                  \/ p.disk = q.disk /\ p.sid = q.sid /\ p.start = q.start /\ p.fsize > q.fsize)
    IN [lines |-> [k \in DOMAIN sorted |->
                     [row   |-> sorted[k],
                      gap   |-> k > 1 /\ sorted[k].disk # sorted[k - 1].disk,
                      named |-> k = 1 \/ sorted[k].sid # sorted[k - 1].sid]],
        count |-> Len(sorted),
        sum   |-> FoldLeft(LAMBDA n, r : n + r.fsize, 0, sorted)]

\* Where the report is opened
openRaportFile(user, euser) == IF user # euser THEN "cwd" ELSE "workDir"

\* reports: a function from directories and names to a report (NoReport: no file).  An empty
\* one is deleted, but always the one in the working directory.
Report(reports, name, rows, matches, user, euser, NoReport) ==
    LET r   == listResult(rows, matches)
        new == [reports EXCEPT ![openRaportFile(user, euser), name] = r]
    IN IF r.count > 0 THEN new ELSE [new EXCEPT !["workDir", name] = NoReport]

listChanged(reports, slpos, heads, matches, user, euser, NoReport) ==
    Report(reports, "changed", createTempTables(slpos, heads, user, euser).tmp, matches, user, euser, NoReport)

listUnrecover(reports, slpos, heads, matches, user, euser, NoReport) ==
    Report(reports, "unrecover", createTempTables(slpos, heads, user, euser).tmp2, matches, user, euser, NoReport)
=============================================================================
