----------------------------- MODULE HeaderCases -----------------------------
(* Slices with files of two disks, and what SliceHeader makes of them.     *)
EXTENDS SliceHeader, TLC

Disks == 2

\* A name of one word and one of several
Name(d, n) == IF n = 1 THEN <<Word(IF d = 0 THEN "D1/a" ELSE "D2/a")>>
              ELSE <<Word(IF d = 0 THEN "D1/b" ELSE "D2/b"), Word("of"), Word("EOH")>>
diskOf == (Word("D1/a") :> 0) @@ (Word("D1/b") :> 0) @@ (Word("D2/a") :> 1) @@ (Word("D2/b") :> 1)
width == [name \in {Name(d, n) : d \in 0..1, n \in 1..2} |-> Len(name) * 5]

Sid == Word("slc-1")

\* One row for each name of S, with sizes that differ from disk to disk
Rows(S, size) ==
    {LET d == p[1]  n == p[2]
     IN [disk |-> d, dseq |-> n + 2 * d, fsize |-> (size + n + d) % 3,
         start |-> IF n = 2 /\ <<d, 1>> \in S THEN (size + 1 + d) % 3 ELSE 0,
         mtime |-> Word(IF n = d THEN "early" ELSE "late"), name |-> Name(d, n)] : p \in S}

Total(rows, d) == FoldSet(LAMBDA r, n : n + r.fsize, 0, {q \in rows : q.disk = d})

Slice(rows) ==
    [sliceId |-> Sid, fillFactor |-> 98, filesCount |-> Cardinality(rows),
     sliceSize |-> IF Total(rows, 0) > Total(rows, 1) THEN Total(rows, 0) ELSE Total(rows, 1),
     hash |-> [f \in {<<r.disk, r.dseq>> : r \in {q \in rows : q.fsize > 0}} |-> Word("hash")],
     headerSize |-> 0]

Unchanged(rows) == [name \in {r.name : r \in rows} |->
                      LET r == CHOOSE q \in rows : q.name = name IN [size |-> r.fsize, mtime |-> r.mtime]]

Slices == {Rows(S, size) : S \in SUBSET ((0..1) \X (1..2)) \ {{}}, size \in 0..2}

\* The slice as createSliceFile leaves it: the second header over the first one up to line
\* done, a tail or none
Written(rows, init, final, done, tail) ==
    [lines |-> [k \in DOMAIN init.lines |-> IF k <= done THEN final.lines[k] ELSE init.lines[k]],
     tail  |-> IF tail THEN [at |-> init.hs + Slice(rows).sliceSize, sid |-> Sid]
               ELSE [at |-> 0, sid |-> Word("")]]

HeadRow(rows) == [sid |-> Sid, ssize |-> Slice(rows).sliceSize, files |-> Cardinality(rows)]

ReadsBack(rows, init, final, file) ==
    LET sorted  == InOrder(rows)
        Seen(r) == [r EXCEPT !.dseq = 0]
        Is(db)  == checkSliceHeader(file, Sid, diskOf, Disks, db)
    IN /\ final.hs = init.hs /\ init.hs % 8 = 0
       /\ \E read \in {loadSliceHeader(file, Sid, diskOf, Disks)} :
             /\ ~read.bad /\ read.headerSize = init.hs
             /\ [k \in DOMAIN read.rows |-> Seen(read.rows[k])] = [k \in DOMAIN sorted |-> Seen(sorted[k])]
             /\ \A k \in DOMAIN sorted : read.hash[k] = Word(IF sorted[k].fsize > 0 THEN "hash" ELSE "0")
       /\ Is(rows) /\ \A q \in rows : ~Is((rows \ {q}) \cup {[q EXCEPT !.mtime = Word("later")]})
       /\ verifySliceFiles(<<file, [file EXCEPT !.lines = <<>>]>>, {HeadRow(rows)}) = "verified"

\* Interrupted: a header not finished, or a slice without its tail
Refused(rows, init, final) ==
    \A done \in 0..(Cardinality(rows) + 2), tail \in BOOLEAN :
        done < Cardinality(rows) + 2 \/ ~tail =>
            LET file == Written(rows, init, final, done, tail)
            IN /\ loadSliceHeader(file, Sid, diskOf, Disks).bad
               /\ ~checkSliceHeader(file, Sid, diskOf, Disks, rows)

\* The headers are bound to variables: TLC computes them once
Faithful(rows) ==
    LET write(cs, mode) == writeHeader(cs, mode, rows, Unchanged(rows), width)
    IN \E init \in {write(Slice(rows), HEADER_INIT)} :
         \E final \in {write([Slice(rows) EXCEPT !.headerSize = init.hs], HEADER_WRITE)} :
           /\ ReadsBack(rows, init, final, Written(rows, init, final, Cardinality(rows) + 2, TRUE))
           /\ Refused(rows, init, final)

Unfaithful == {rows \in Slices : ~Faithful(rows)}
=============================================================================
