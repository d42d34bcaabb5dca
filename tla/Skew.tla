-------------------------------- MODULE Skew --------------------------------
(***************************************************************************)
(* Which saved slices a SYNC takes apart because they are filled too       *)
(* unevenly (planer.cpp prepareForPlan), with the statistics of a slice    *)
(* the planner keeps.  The archive's model takes any of them apart; this   *)
(* is how the code chooses.                                                *)
(*                                                                         *)
(* A slice is the sum of its files on each disk (sumFilesLen), its fill    *)
(* factor and its longest disk.  A row is what a saved slice has on one    *)
(* disk: sid, disk, fsize, and the slice's ssize and fill.                 *)
(***************************************************************************)
EXTENDS Integers, SequencesExt, FiniteSets, Texts

BALANCED_DISK_FILL_LIMIT == 95

Longest(sizes)  == CHOOSE i \in DOMAIN sizes : /\ \A j \in DOMAIN sizes : sizes[j] <= sizes[i]
                                               /\ \A j \in 1..(i - 1) : sizes[j] < sizes[i]
Shortest(sizes) == CHOOSE i \in DOMAIN sizes : /\ \A j \in DOMAIN sizes : sizes[j] >= sizes[i]
                                               /\ \A j \in 1..(i - 1) : sizes[j] > sizes[i]
SumOf(sizes)    == FoldLeft(+, 0, sizes)

\* In percents of the place a slice of the longest size would have, -1 if there is no size
computeFillFactor(sizes) ==
    IF sizes[Longest(sizes)] = 0 THEN -1
    ELSE Rounded(100 * SumOf(sizes), Len(sizes) * sizes[Longest(sizes)])

\* Sizes added: kept if the disks are filled better by them, or as well and without a longer
\* one.  minfd: 0 if not kept.
sidChanged(st, dsizes) ==
    LET sum  == [i \in DOMAIN dsizes |-> dsizes[i] + st.sizes[i]]
        fill == computeFillFactor(sum)
        kept == fill > st.fill \/ (fill = st.fill /\ sum[Longest(sum)] = st.sizes[Longest(sum)])
    IN IF kept THEN [st |-> [st EXCEPT !.fill = fill, !.sizes = sum], minfd |-> Shortest(sum)]
       ELSE [st |-> st, minfd |-> 0]

\* The next file of a disk: the largest one that was not taken
fetchNextSize(files) == SetToSortSeq({f \in files : f.state = ""}, LAMBDA f, g : f.seq > g.seq)

\* Rows of slices that fit into the hole between the longest and the shortest disk
Scan(ondisk, hole) ==
    SetToSortSeq({r \in ondisk : r.ssize <= hole},
       LAMBDA p, q : \/ p.fill < q.fill
                     \/ p.fill = q.fill /\ p.ssize > q.ssize
                     \/ p.fill = q.fill /\ p.ssize = q.ssize /\ p.sid < q.sid
                     \/ p.fill = q.fill /\ p.ssize = q.ssize /\ p.sid = q.sid /\ p.disk < q.disk)

Hole(st, minDisk) == st.sizes[Longest(st.sizes)] - st.sizes[minDisk]

\* Mutant: the sizes of the slice before are kept
sizesKept(st, r) == [i \in DOMAIN st.sizes |-> IF i = r.disk THEN r.fsize ELSE st.dsizes[i]]
\* The sizes of the slice with those of the row that came
sizesWith(st, r) ==
    [i \in DOMAIN st.sizes |-> IF i = r.disk THEN r.fsize ELSE IF r.sid = st.csid THEN st.dsizes[i] ELSE 0]

\* A slice is judged when the row of another one comes.  If it is taken the scan starts again
\* with the new hole, and the row that came, the first one of its slice, is followed by the
\* first one of the new scan.  The slice of the last row is not judged.
\* Of the row that came the name of the disk is read after the scan was reset; here it is
\* still there.
RECURSIVE optimise(_, _)
optimise(st, rows) ==
    IF rows = <<>> THEN st
    ELSE LET r      == Head(rows)
             judged == r.sid # st.csid /\ st.csid # 0
             res    == IF judged THEN sidChanged(st, st.dsizes) ELSE [st |-> st, minfd |-> 0]
             taken  == res.minfd # 0
             ondisk == IF taken THEN {q \in st.ondisk : q.sid # st.csid} ELSE st.ondisk
             new    == [res.st EXCEPT !.ondisk = ondisk, !.csid = r.sid,
                                      !.dsizes = sizesWith(st, r),
                                      !.removed = IF taken THEN Append(@, [sid |-> st.csid, sizes |-> st.dsizes])
                                                  ELSE @]
         IN IF taken /\ new.fill >= BALANCED_DISK_FILL_LIMIT THEN new
            ELSE optimise(new, IF taken THEN Scan(ondisk, Hole(new, res.minfd)) ELSE Tail(rows))

\* newfiles: the sum of the files to save on each disk.  Slices that are removed, in order,
\* each with the sizes it was judged by.
prepareForPlan(newfiles, saved) ==
    LET st0   == [sizes |-> [i \in DOMAIN newfiles |-> 0], fill |-> 0, csid |-> 0,
                  dsizes |-> [i \in DOMAIN newfiles |-> 0], ondisk |-> {}, removed |-> <<>>]
        first == sidChanged(st0, newfiles)
        skew  == {r \in saved : r.fill < BALANCED_DISK_FILL_LIMIT}
    IN IF first.minfd = 0 \/ first.st.fill >= BALANCED_DISK_FILL_LIMIT \/ skew = {} THEN <<>>
       ELSE optimise([first.st EXCEPT !.ondisk = skew], Scan(skew, Hole(first.st, first.minfd))).removed
=============================================================================
