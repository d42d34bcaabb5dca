------------------------------ MODULE Progress ------------------------------
(***************************************************************************)
(* What a saving or restoring run keeps beside its slices: the queue of    *)
(* slices to read, the counters of the status bar (TCA), the report of     *)
(* exceptions and the target of the restored files.                        *)
(***************************************************************************)
EXTENDS Integers, SequencesExt, FiniteSets, Texts

CONSTANTS MaxJobs   \* places of the job queue: MAX_JOBS

----------------------------------------------------------------------------
(* The queue.  A row is one of slpos joined with its slhead: rowid, state, *)
(* disk, fsize and matches (pathMatchPattern with the owner to restore)    *)

Sum(rows) == FoldLeft(LAMBDA n, r : n + r.fsize, 0, rows)

ByRowid(rows) == SetToSortSeq(rows, LAMBDA p, q : p.rowid < q.rowid \/ (p.rowid = q.rowid /\ p.seq < q.seq))

\* Slices of the rows of a disk that match, saved or only planned.  At the first slice that
\* does not fit any more the search ends.
filterByPath(rows, disk) ==
    LET found == ByRowid({r \in rows : r.disk = disk /\ r.matches})
        Slices(k) == {found[j].rowid : j \in 1..k}
        fits  == SelectSeq(found, LAMBDA r : Cardinality({q.rowid : q \in {x \in Range(found) : x.rowid <= r.rowid}})
                                             <= MaxJobs)
    IN [queue |-> SetToSortSeq(Slices(Len(fits)), <), bytes |-> Sum(fits), files |-> Len(fits)]

\* Saved slices with files of the disk, the one with most of its data first.  A slice that does
\* not fit is counted all the same.
load2queue(rows, disk) ==
    LET saved  == {r \in rows : r.disk = disk /\ r.saved}
        of(id) == SetToSeq({r \in saved : r.rowid = id})
        order  == SetToSortSeq({r.rowid : r \in saved},
                               LAMBDA i, j : Sum(of(i)) > Sum(of(j)) \/ (Sum(of(i)) = Sum(of(j)) /\ i < j))
        read   == SubSeq(order, 1, MaxJobs + 1)
    IN [queue |-> SubSeq(order, 1, MaxJobs),
        bytes |-> FoldLeft(LAMBDA n, id : n + Sum(of(id)), 0, read),
        files |-> FoldLeft(LAMBDA n, id : n + Len(of(id)), 0, read)]

getRestorePath(config) ==
    IF config.restoreDest # "none" THEN config.restoreDest ELSE config.diskDesc[config.restoreDisk].path

\* The disk a file goes to, by the disk its name starts with
getRestoreDest(config, disk) ==
    IF config.restoreDest # "none" THEN config.restoreDest ELSE config.diskDesc[disk].path

----------------------------------------------------------------------------
(* The counters                                                            *)

\* A tick of the bar is a hundredth of the data, at least 1 MB and at most 1 GB
Tick(bytes) == IF bytes \div 100 > GIGA THEN GIGA ELSE IF bytes \div 100 < MEGA THEN MEGA ELSE bytes \div 100

initTCA(files, bytes, now) ==
    [files2process |-> files, data2process |-> bytes, filesProcessed |-> 0, filesSkipped |-> 0,
     dataProcessed |-> 0, lastProcessed |-> 0, start |-> now, lastTime |-> now,
     speedStartTime |-> now, speedBytesStart |-> 0, dataTick |-> Tick(bytes),
     operationCanceled |-> FALSE, raport |-> 3]

\* Lines of the report: three to start with, at least three for an exception
addException(tca, lines) == [tca EXCEPT !.raport = @ + 3 + lines]

\* The report stays if it names an exception
exitTCA(tca) == [exceptions |-> IF tca.raport > 3 THEN tca.raport \div 3 - 1 ELSE 0, kept |-> tca.raport > 3]

\* Mean speed, at the end and as long as the time of the speed is the start of the run, or the
\* speed of the last 10 seconds or 2 GB.  A tca with the speed next to it.
AtEnd(tca) == tca.files2process = tca.filesProcessed
Speed(tca, bspeed, now) ==
    LET bytes == tca.dataProcessed - tca.speedBytesStart
        td    == now - tca.speedStartTime
    IN IF now = tca.start THEN [tca |-> tca, bspeed |-> bspeed]
       ELSE IF AtEnd(tca) \/ tca.speedStartTime = tca.start
       THEN [tca |-> tca, bspeed |-> tca.dataProcessed \div (now - tca.start)]
       ELSE IF bytes \div 2 > GIGA \/ td > 10
       THEN [tca |-> [tca EXCEPT !.speedStartTime = now, !.speedBytesStart = tca.dataProcessed],
             bspeed |-> bytes \div td]
       ELSE [tca |-> tca, bspeed |-> bspeed]

\* A new line of the bar: when a tick is done, once a second, and at the end
Due(tca, now) == tca.dataProcessed - tca.lastProcessed > tca.dataTick \/ now # tca.lastTime \/ AtEnd(tca)

\* line: <<>> or what is shown.  Without data the percentage is that of 0 / 0: undefined.
statusBar(tca, bspeed, now, showStatusBar) ==
    IF tca.operationCanceled \/ (~showStatusBar /\ ~AtEnd(tca)) \/ ~Due(tca, now)
    THEN [tca |-> tca, bspeed |-> bspeed, line |-> <<>>]
    ELSE LET sp   == Speed([tca EXCEPT !.lastTime = now, !.lastProcessed = tca.dataProcessed], bspeed, now)
             etas == IF sp.bspeed = 0 THEN 0
                     ELSE (tca.data2process - tca.dataProcessed) \div sp.bspeed
         IN [tca |-> sp.tca, bspeed |-> sp.bspeed,
             line |-> IF ~showStatusBar THEN <<>>
                      ELSE <<[files |-> tca.filesProcessed, of |-> tca.files2process, skipped |-> tca.filesSkipped,
                              percent |-> IF tca.data2process = 0 THEN "undefined"
                                          ELSE Rounded(100 * tca.dataProcessed, tca.data2process),
                              eta |-> sec2hours(etas), speed |-> sp.bspeed \div MEGA]>>]

----------------------------------------------------------------------------
(* The run                                                                 *)

\* filtered: patterns, expressions or an owner are given.  Slices are read when there is
\* something to restore; links and directories are restored in any case, except to a flat
\* directory; threads: 0 if the slices are read by the program itself.
restoreFromArchive(config, rows, disk, filtered, now) ==
    LET r == IF filtered THEN filterByPath(rows, disk) ELSE load2queue(rows, disk)
        some == r.bytes > 0 \/ r.files > 0
    IN [queue   |-> IF some THEN r.queue ELSE <<>>,
        tca     |-> IF some THEN <<initTCA(r.files, r.bytes, now)>> ELSE <<>>,
        threads |-> IF some /\ config.maxThreads >= 1 THEN config.maxThreads ELSE 0,
        waits   |-> config.maxThreads > 1,
        dest    |-> getRestorePath(config),
        special |-> ~config.restoreFlat]
=============================================================================
