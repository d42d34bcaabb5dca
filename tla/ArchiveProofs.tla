--------------------------- MODULE ArchiveProofs ---------------------------
(***************************************************************************)
(* Theorems about Archive, for every set of files, disks, versions, slice  *)
(* ids, threads and program points at which Ctrl-C or a crash may hit.     *)
(***************************************************************************)
EXTENDS Archive, TLAPS

----------------------------------------------------------------------------
(* What the operators on tables return.                                    *)

\* Deleting the rows of the slices in S leaves the rows of every other slice alone.
LEMMA DropRows ==
    ASSUME NEW p \in [Sids -> Rows], NEW S
    PROVE  /\ Drop(p, S) \in [Sids -> Rows]
           /\ \A s \in Sids : Drop(p, S)[s] = IF s \in S THEN Absent ELSE p[s]
BY DEF Drop, Absent, Rows, MayVer

\* The same for the heads.
LEMMA DropHeads ==
    ASSUME NEW h \in [Sids -> HeadStates], NEW S
    PROVE  /\ DropHead(h, S) \in [Sids -> HeadStates]
           /\ \A s \in Sids : DropHead(h, S)[s] = IF s \in S THEN "none" ELSE h[s]
BY DEF DropHead, HeadStates

\* The empty row and the empty tables are well typed.
LEMMA EmptyTables == Absent \in Rows /\ Nothing \in [Sids -> Rows]
BY DEF Absent, Nothing, Rows, MayVer

\* Clearing marks only ever takes marks away.
LEMMA RecalculateMarks ==
    ASSUME NEW p PROVE recalculateNewfiles(p) \subseteq nfMark
BY DEF recalculateNewfiles

----------------------------------------------------------------------------
(* Type correctness.  The scan of a disk must be known to be inside the    *)
(* loop over the disks.                                                    *)

ScanningDisk == pc \in {"list", "compare"} => disk \in Disks

TypeInv == TypeOK /\ ScanningDisk

LEMMA TypeInit == Init => TypeInv
<1> SUFFICES ASSUME Init PROVE TypeInv
    OBVIOUS
<1>1. 1 \in 1..(NDisks + 1)
    BY DisksAssumption
<1>2. QED
    BY <1>1, EmptyTables
       DEF Init, TypeInv, TypeOK, ScanningDisk, Phases, HeadStates

\* The variables of a process that is gone.
LEMMA TypeGone ==
    ASSUME TypeInv, Gone, fs' \in Rows, sfile' \in [Sids -> Rows], marker' \in BOOLEAN,
           newer' \in SUBSET Sids, nfVer' \in Rows, nfMark' \in SUBSET Files,
           pos' \in [Sids -> Rows], head' \in [Sids -> HeadStates], dirty' \in BOOLEAN
    PROVE  TypeInv'
<1>1. 1 \in 1..(NDisks + 1)
    BY DisksAssumption
<1>2. QED
    BY <1>1, EmptyTables DEF Gone, TypeInv, TypeOK, ScanningDisk, Phases

LEMMA TypeStart == TypeInv /\ Start => TypeInv'
<1> SUFFICES ASSUME TypeInv,
                    NEW c \in {"SHOW", "PLAN", "SYNC"}, NEW mode \in Modes,
                    NEW m \in SUBSET Disks, startSqlite(c, mode, m)
             PROVE  TypeInv'
    BY DEF Start
<1>1. MustRebuild(mode) \in BOOLEAN
    BY DEF MustRebuild, TypeInv, TypeOK
<1>2. QED
    BY <1>1, EmptyTables
       DEF startSqlite, TypeInv, TypeOK, ScanningDisk, Phases, HeadStates,
           userVars, diskVars, nfVars, slVars, saveVars

LEMMA TypeRefresh == TypeInv /\ Refresh => TypeInv'
<1> SUFFICES ASSUME TypeInv, Refresh PROVE TypeInv'
    OBVIOUS
<1> USE DEF TypeInv, TypeOK, ScanningDisk, Phases, userVars, diskVars, nfVars, slVars,
            dbVars, argVars, saveVars
<1>1. CASE openDB
    BY <1>1 DEF openDB
<1>2. CASE refreshFromBackup
    <2>1. OnDisk \subseteq Sids
        BY DEF OnDisk
    <2>2. generateRefreshList \subseteq Sids
        BY <2>1 DEF generateRefreshList
    <2>3. QED
        BY <1>2, <2>2 DEF refreshFromBackup, AfterRefresh
<1>3. CASE markSyncEnd
    BY <1>3 DEF markSyncEnd
<1>4. CASE checkDuplicated
    <2>1. Duplicated \subseteq Sids
        BY DEF Duplicated
    <2>2. QED
        BY <1>4, <2>1 DEF checkDuplicated, AfterRefresh
<1>5. CASE dedupHead
    BY <1>5, DropHeads DEF dedupHead
<1>6. CASE dedupFile
    BY <1>6, DropRows DEF dedupFile
<1>7. CASE dedupDone
    BY <1>7, RecalculateMarks DEF dedupDone, AfterRefresh
<1>8. ASSUME NEW s \in Sids, loadSliceHeader(s) PROVE TypeInv'
    BY <1>8 DEF loadSliceHeader, HeadStates
<1>9. ASSUME NEW s \in Sids, dedupPositions(s) PROVE TypeInv'
    BY <1>9, DropRows DEF dedupPositions
<1>10. QED
    BY <1>1, <1>2, <1>3, <1>4, <1>5, <1>6, <1>7, <1>8, <1>9 DEF Refresh

LEMMA TypeLoadDataFiles == TypeInv /\ LoadDataFiles => TypeInv'
<1> SUFFICES ASSUME TypeInv, LoadDataFiles PROVE TypeInv'
    OBVIOUS
<1> USE DisksAssumption
        DEF TypeInv, TypeOK, ScanningDisk, Phases, Disks, userVars, diskVars, nfVars,
            slVars, dbVars, argVars, saveVars
<1>1. CASE clearFileList
    BY <1>1 DEF clearFileList, Rows, MayVer
<1>2. CASE loadFileList
    BY <1>2 DEF loadFileList, Rows, MayVer
<1>3. CASE skipDisk
    BY <1>3 DEF skipDisk
<1>4. CASE refreshState
    <2>1. head' \in [Sids -> HeadStates]
        BY <1>4 DEF refreshState, Star, HeadStates
    <2>2. pos' \in [Sids -> Rows]
        BY <1>4, DropRows DEF refreshState
    <2>3. disk' \in 1..(NDisks + 1)
        BY <1>4 DEF refreshState
    <2>4. QED
        BY <1>4, <2>1, <2>2, <2>3 DEF refreshState
<1>5. CASE loadDataFilesDone
    <2>1. Starred \subseteq Sids
        BY DEF Starred
    <2>2. QED
        BY <1>5, <2>1 DEF loadDataFilesDone
<1>6. QED
    BY <1>1, <1>2, <1>3, <1>4, <1>5 DEF LoadDataFiles

LEMMA TypePrepareForSync == TypeInv /\ PrepareForSync => TypeInv'
<1> SUFFICES ASSUME TypeInv, PrepareForSync PROVE TypeInv'
    OBVIOUS
<1> USE DEF TypeInv, TypeOK, ScanningDisk, Phases, userVars, diskVars, nfVars, slVars,
            dbVars, argVars, saveVars
<1>1. ASSUME NEW s \in Sids, pruneUnlink(s) PROVE TypeInv'
    BY <1>1, DropRows DEF pruneUnlink
<1>2. CASE pruneRows
    BY <1>2, DropRows, DropHeads, RecalculateMarks DEF pruneRows
<1>3. CASE checkIfExists
    BY <1>3, DropRows, DropHeads, RecalculateMarks DEF checkIfExists
<1>4. QED
    BY <1>1, <1>2, <1>3 DEF PrepareForSync

LEMMA TypeCreateSlices == TypeInv /\ CreateSlices => TypeInv'
<1> SUFFICES ASSUME TypeInv, CreateSlices PROVE TypeInv'
    OBVIOUS
<1> USE DEF TypeInv, TypeOK, ScanningDisk, Phases, userVars, diskVars, nfVars, slVars,
            dbVars, argVars, saveVars
<1>1. CASE sourceNotChanged
    BY <1>1 DEF sourceNotChanged, AfterPlan
<1>2. ASSUME NEW S \in SUBSET Sids, prepareForPlan(S) PROVE TypeInv'
    BY <1>2, DropRows, DropHeads, RecalculateMarks DEF prepareForPlan
<1>3. ASSUME NEW s \in Sids, optimiseUnlink(s) PROVE TypeInv'
    BY <1>3, DropRows DEF optimiseUnlink
<1>4. CASE optimiseCommit
    BY <1>4, DropRows, DropHeads DEF optimiseCommit
<1>5. CASE optimiseRecalculate
    BY <1>5, RecalculateMarks DEF optimiseRecalculate
<1>6. ASSUME NEW s \in Sids, NEW G \in SUBSET Files, planSlice(s, G) PROVE TypeInv'
    <2>1. [f \in Files |-> IF f \in G THEN nfVer[f] ELSE NoFile] \in Rows
        BY DEF Rows, MayVer
    <2>2. QED
        BY <1>6, <2>1 DEF planSlice, HeadStates
<1>7. CASE createSlicesDone
    BY <1>7 DEF createSlicesDone, AfterPlan
<1>8. QED
    BY <1>1, <1>2, <1>3, <1>4, <1>5, <1>6, <1>7 DEF CreateSlices

LEMMA TypeSaveSlices == TypeInv /\ SaveSlices => TypeInv'
<1> SUFFICES ASSUME TypeInv, SaveSlices PROVE TypeInv'
    OBVIOUS
<1> USE DEF TypeInv, TypeOK, ScanningDisk, Phases, userVars, diskVars, nfVars, slVars,
            dbVars, argVars, saveVars
<1>1. CASE nothingToSave
    BY <1>1 DEF nothingToSave
<1>2. CASE load2queue
    BY <1>2 DEF load2queue, Unsaved
<1>3. CASE saveSlicesDone
    BY <1>3, EmptyTables DEF saveSlicesDone
<1>4. ASSUME NEW s \in Sids, pop(s) PROVE TypeInv'
    BY <1>4, EmptyTables DEF pop
<1>5. ASSUME NEW s \in Sids, exitSliceFile(s) PROVE TypeInv'
    <2>1. [f \in Files |-> IF Member(s, f) THEN fs[f] ELSE NoFile] \in Rows
        BY DEF Rows, MayVer
    <2>2. QED
        BY <1>5, <2>1 DEF exitSliceFile
<1>6. ASSUME NEW s \in Sids, skipSlice(s) PROVE TypeInv'
    BY <1>6 DEF skipSlice
<1>7. ASSUME NEW s \in Sids, NEW f \in Files, readFile(s, f) PROVE TypeInv'
    <2>1. rd' \in [Sids -> Rows]
        BY <1>7 DEF readFile, Rows
    <2>2. QED
        BY <1>7, <2>1 DEF readFile
<1>8. QED
    BY <1>1, <1>2, <1>3, <1>4, <1>5, <1>6, <1>7 DEF SaveSlices

LEMMA TypeFaults == TypeInv /\ (exitProg \/ Faults \/ Users) => TypeInv'
<1> SUFFICES ASSUME TypeInv, exitProg \/ Faults \/ Users PROVE TypeInv'
    OBVIOUS
<1> USE DEF userVars, diskVars, nfVars, slVars, dbVars, argVars, saveVars
<1>1. CASE exitProg
    BY <1>1, TypeGone DEF exitProg, TypeInv, TypeOK
<1>2. CASE intHandler
    <2>1. CASE pc \in {"plan", "save"}
        BY <1>2, <2>1 DEF intHandler, TypeInv, TypeOK, ScanningDisk, Phases
    <2>2. CASE pc \notin {"plan", "save"}
        <3>1. Gone /\ dirty' \in BOOLEAN
            BY <1>2, <2>2 DEF intHandler, TypeInv, TypeOK
        <3>2. QED
            BY <1>2, <3>1, TypeGone DEF intHandler, TypeInv, TypeOK
    <2>3. QED
        BY <2>1, <2>2
<1>3. CASE crash
    BY <1>3, TypeGone DEF crash, TypeInv, TypeOK
<1>4. ASSUME NEW s \in Sids, NEW b \in BOOLEAN, writeError(s, b) PROVE TypeInv'
    BY <1>4 DEF writeError, TypeInv, TypeOK, ScanningDisk, Phases
<1>5. ASSUME NEW s \in Sids, loseSlice(s) PROVE TypeInv'
    BY <1>5, DropRows DEF loseSlice, TypeInv, TypeOK, ScanningDisk, Phases
<1>6. ASSUME NEW f \in Files, NEW v \in MayVer, editFile(f, v) PROVE TypeInv'
    BY <1>6 DEF editFile, Rows, TypeInv, TypeOK, ScanningDisk, Phases
<1>7. QED
    BY <1>1, <1>2, <1>3, <1>4, <1>5, <1>6 DEF Faults, Users

LEMMA TypeStep == TypeInv /\ [Next]_vars => TypeInv'
<1>1. TypeInv /\ UNCHANGED vars => TypeInv'
    BY DEF vars, TypeInv, TypeOK, ScanningDisk
<1>2. QED
    BY <1>1, TypeStart, TypeRefresh, TypeLoadDataFiles, TypePrepareForSync,
       TypeCreateSlices, TypeSaveSlices, TypeFaults DEF Next, Program

\* Every table and every program variable keeps its type, whatever is interrupted.
THEOREM TypeCorrect == Spec => []TypeOK
<1>1. TypeInv => TypeOK
    BY DEF TypeInv
<1>2. QED
    BY <1>1, TypeInit, TypeStep, PTL DEF Spec

----------------------------------------------------------------------------
(* The database and the headers.  The invariant is inductive relative to   *)
(* the types: deletions empty the positions, a plan never takes the id of  *)
(* a slice file, and a slice file is written only when every file still is *)
(* the version of its position.                                            *)

\* Rows that stay, headers that stay or are unlinked.
LEMMA RowsAfterRemoval ==
    ASSUME TypeOK, RowsMatchHeader, NEW S,
           sfile' = sfile \/ sfile' = Drop(sfile, S),
           UNCHANGED <<pos, head>>
    PROVE  RowsMatchHeader'
<1>1. \A s \in Sids : sfile'[s] # Absent => sfile'[s] = sfile[s]
    BY DropRows DEF TypeOK
<1>2. QED
    BY <1>1 DEF RowsMatchHeader, OnDisk, Absent

\* Positions that stay or go, headers that stay.
LEMMA RowsAfterDelete ==
    ASSUME TypeOK, RowsMatchHeader, NEW P, pos' = Drop(pos, P), UNCHANGED sfile,
           \A s \in Sids : head'[s] # "none" => head[s] # "none"
    PROVE  RowsMatchHeader'
<1>1. \A s \in Sids : pos'[s] \in {pos[s], Absent}
    BY DropRows DEF TypeOK
<1>2. QED
    BY <1>1 DEF RowsMatchHeader, OnDisk, Absent

LEMMA RowsMatchHeaderInit == Init => RowsMatchHeader
BY DEF Init, RowsMatchHeader, OnDisk

LEMMA RowsMatchHeaderStart == TypeOK /\ RowsMatchHeader /\ Start => RowsMatchHeader'
<1> SUFFICES ASSUME TypeOK, RowsMatchHeader,
                    NEW c \in {"SHOW", "PLAN", "SYNC"}, NEW mode \in Modes,
                    NEW m \in SUBSET Disks, startSqlite(c, mode, m)
             PROVE  RowsMatchHeader'
    BY DEF Start
<1>1. CASE MustRebuild(mode)
    BY <1>1 DEF startSqlite, RowsMatchHeader, OnDisk, diskVars
<1>2. CASE ~MustRebuild(mode)
    BY <1>2 DEF startSqlite, RowsMatchHeader, OnDisk, diskVars, slVars, Absent
<1>3. QED
    BY <1>1, <1>2

LEMMA RowsMatchHeaderRefresh == TypeOK /\ RowsMatchHeader /\ Refresh => RowsMatchHeader'
<1> SUFFICES ASSUME TypeOK, RowsMatchHeader, Refresh PROVE RowsMatchHeader'
    OBVIOUS
<1> USE DEF diskVars, slVars, dbVars
<1>1. CASE openDB \/ refreshFromBackup \/ markSyncEnd \/ checkDuplicated \/ dedupDone
    BY <1>1, RowsAfterRemoval
       DEF openDB, refreshFromBackup, markSyncEnd, checkDuplicated, dedupDone
<1>2. CASE dedupHead
    <2>1. \A s \in Sids : head'[s] # "none" => head[s] # "none"
        BY <1>2, DropHeads DEF dedupHead, TypeOK
    <2>2. QED
        BY <1>2, <2>1 DEF dedupHead, RowsMatchHeader, OnDisk, Absent
<1>3. CASE dedupFile
    BY <1>3, RowsAfterRemoval DEF dedupFile
<1>4. ASSUME NEW s \in Sids, loadSliceHeader(s) PROVE RowsMatchHeader'
    <2>1. \A t \in Sids \ {s} : pos'[t] = pos[t] /\ head'[t] = head[t]
        BY <1>4 DEF loadSliceHeader, TypeOK
    <2>2. IF head[s] = "none" THEN pos'[s] = sfile[s] ELSE pos'[s] = pos[s]
        BY <1>4 DEF loadSliceHeader, TypeOK
    <2>3. QED
        BY <1>4, <2>1, <2>2 DEF loadSliceHeader, RowsMatchHeader, OnDisk, Absent
<1>5. ASSUME NEW s \in Sids, dedupPositions(s) PROVE RowsMatchHeader'
    BY <1>5, RowsAfterDelete DEF dedupPositions
<1>6. QED
    BY <1>1, <1>2, <1>3, <1>4, <1>5 DEF Refresh

LEMMA RowsMatchHeaderScan ==
    TypeOK /\ RowsMatchHeader /\ (LoadDataFiles \/ PrepareForSync) => RowsMatchHeader'
<1> SUFFICES ASSUME TypeOK, RowsMatchHeader, LoadDataFiles \/ PrepareForSync
             PROVE  RowsMatchHeader'
    OBVIOUS
<1> USE DEF diskVars, slVars, dbVars
<1>1. CASE clearFileList \/ loadFileList \/ skipDisk \/ loadDataFilesDone
    BY <1>1, RowsAfterRemoval DEF clearFileList, loadFileList, skipDisk, loadDataFilesDone
<1>2. CASE refreshState
    <2>1. \A s \in Sids : head'[s] # "none" => head[s] # "none"
        BY <1>2 DEF refreshState, Star, TypeOK
    <2>2. QED
        BY <1>2, <2>1, RowsAfterDelete DEF refreshState
<1>3. ASSUME NEW s \in Sids, pruneUnlink(s) PROVE RowsMatchHeader'
    BY <1>3, RowsAfterRemoval DEF pruneUnlink
<1>4. CASE pruneRows
    BY <1>4, DropHeads, RowsAfterDelete DEF pruneRows, TypeOK
<1>5. CASE checkIfExists
    BY <1>5, DropHeads, RowsAfterDelete DEF checkIfExists, TypeOK
<1>6. QED
    BY <1>1, <1>2, <1>3, <1>4, <1>5 DEF LoadDataFiles, PrepareForSync

LEMMA RowsMatchHeaderCreateSlices ==
    TypeOK /\ RowsMatchHeader /\ CreateSlices => RowsMatchHeader'
<1> SUFFICES ASSUME TypeOK, RowsMatchHeader, CreateSlices PROVE RowsMatchHeader'
    OBVIOUS
<1> USE DEF diskVars, slVars, dbVars
<1>1. CASE sourceNotChanged \/ createSlicesDone
    BY <1>1, RowsAfterRemoval DEF sourceNotChanged, createSlicesDone
<1>2. ASSUME NEW S \in SUBSET Sids, prepareForPlan(S) PROVE RowsMatchHeader'
    BY <1>2, DropHeads, RowsAfterDelete DEF prepareForPlan, TypeOK
<1>3. ASSUME NEW s \in Sids, optimiseUnlink(s) PROVE RowsMatchHeader'
    BY <1>3, RowsAfterRemoval DEF optimiseUnlink
<1>4. CASE optimiseCommit
    BY <1>4, DropHeads, RowsAfterDelete DEF optimiseCommit, TypeOK
<1>5. CASE optimiseRecalculate
    BY <1>5, RowsAfterRemoval DEF optimiseRecalculate
<1>6. ASSUME NEW s \in Sids, NEW G \in SUBSET Files, planSlice(s, G) PROVE RowsMatchHeader'
    <2>1. s \notin OnDisk
        BY <1>6 DEF planSlice, FreshSids
    <2>2. \A t \in Sids \ {s} : pos'[t] = pos[t] /\ head'[t] = head[t]
        BY <1>6 DEF planSlice, TypeOK
    <2>3. QED
        BY <1>6, <2>1, <2>2 DEF planSlice, RowsMatchHeader, OnDisk, Absent
<1>7. QED
    BY <1>1, <1>2, <1>3, <1>4, <1>5, <1>6 DEF CreateSlices

LEMMA RowsMatchHeaderSaveSlices ==
    TypeOK /\ RowsMatchHeader /\ SaveSlices => RowsMatchHeader'
<1> SUFFICES ASSUME TypeOK, RowsMatchHeader, SaveSlices PROVE RowsMatchHeader'
    OBVIOUS
<1> USE DEF diskVars, slVars, dbVars
<1>1. CASE nothingToSave \/ load2queue \/ saveSlicesDone
    BY <1>1, RowsAfterRemoval DEF nothingToSave, load2queue, saveSlicesDone
<1>2. ASSUME NEW s \in Sids, pop(s) \/ skipSlice(s) PROVE RowsMatchHeader'
    BY <1>2, RowsAfterRemoval DEF pop, skipSlice
<1>3. ASSUME NEW s \in Sids, exitSliceFile(s) PROVE RowsMatchHeader'
    <2> DEFINE header == [f \in Files |-> IF Member(s, f) THEN fs[f] ELSE NoFile]
    <2>1. header = pos[s]
        <3>1. pos[s] \in [Files -> MayVer]
            BY DEF TypeOK, Rows
        <3>2. \A f \in Files : header[f] = pos[s][f]
            BY <1>3 DEF exitSliceFile, FilesUnchanged, Member
        <3>3. QED
            BY <3>1, <3>2
    <2>2. sfile'[s] = pos[s]
        BY <1>3, <2>1 DEF exitSliceFile, TypeOK
    <2>3. \A t \in Sids \ {s} : sfile'[t] = sfile[t]
        BY <1>3 DEF exitSliceFile, TypeOK
    <2>4. QED
        BY <1>3, <2>2, <2>3 DEF exitSliceFile, RowsMatchHeader, OnDisk, Absent
<1>4. ASSUME NEW s \in Sids, NEW f \in Files, readFile(s, f) PROVE RowsMatchHeader'
    BY <1>4, RowsAfterRemoval DEF readFile
<1>5. QED
    BY <1>1, <1>2, <1>3, <1>4 DEF SaveSlices

LEMMA RowsMatchHeaderFaults ==
    TypeOK /\ RowsMatchHeader /\ (exitProg \/ Faults \/ Users) => RowsMatchHeader'
<1> SUFFICES ASSUME TypeOK, RowsMatchHeader, exitProg \/ Faults \/ Users
             PROVE  RowsMatchHeader'
    OBVIOUS
<1> USE DEF diskVars, slVars, dbVars
<1>1. CASE exitProg \/ intHandler \/ crash
    BY <1>1, RowsAfterRemoval DEF exitProg, intHandler, crash
<1>2. ASSUME NEW s \in Sids, NEW b \in BOOLEAN, writeError(s, b) PROVE RowsMatchHeader'
    BY <1>2, RowsAfterRemoval DEF writeError
<1>3. ASSUME NEW s \in Sids, loseSlice(s) PROVE RowsMatchHeader'
    BY <1>3, RowsAfterRemoval DEF loseSlice
<1>4. ASSUME NEW f \in Files, NEW v \in MayVer, editFile(f, v) PROVE RowsMatchHeader'
    BY <1>4, RowsAfterRemoval DEF editFile
<1>5. QED
    BY <1>1, <1>2, <1>3, <1>4 DEF Faults, Users

\* The rows the database has for a slice file are the rows of its header, whatever
\* was interrupted, forced, rebuilt or reloaded before.
THEOREM RowsMatchHeaderHolds == Spec => []RowsMatchHeader
<1>1. TypeOK /\ RowsMatchHeader /\ UNCHANGED vars => RowsMatchHeader'
    BY RowsAfterRemoval DEF vars
<1>2. TypeOK /\ RowsMatchHeader /\ [Next]_vars => RowsMatchHeader'
    BY <1>1, RowsMatchHeaderStart, RowsMatchHeaderRefresh, RowsMatchHeaderScan,
       RowsMatchHeaderCreateSlices, RowsMatchHeaderSaveSlices, RowsMatchHeaderFaults
       DEF Next, Program
<1>3. QED
    BY <1>2, RowsMatchHeaderInit, TypeCorrect, PTL DEF Spec

----------------------------------------------------------------------------
(* Outdated slices.  Between loadFileList and refreshState users go on     *)
(* editing files, so what makes the comparison right is that a row that    *)
(* differs from a recorded position can only differ for good: a version    *)
(* that was given up does not come back.                                   *)

\* Every difference refreshState is about to find is a real one.
ScanCompared ==
    pc = "compare" =>
        \A s \in Sids, f \in Files :
            DiskOf[f] = disk /\ pos[s][f] # NoFile /\ pos[s][f] # nfVer[f]
                => fs[f] # pos[s][f]

OutdatedInv == OutdatedForReal /\ ScanCompared

LEMMA OutdatedInit == Init => OutdatedInv
BY DEF Init, OutdatedInv, OutdatedForReal, ScanCompared, Starred

\* No slice becomes outdated, and the rows of those that are stay or go.
LEMMA OutdatedKept ==
    ASSUME TypeOK, OutdatedForReal, UNCHANGED fs,
           \A s \in Sids : head'[s] = "D*" => head[s] = "D*" /\ pos'[s] \in {pos[s], Absent}
    PROVE  OutdatedForReal'
BY DEF OutdatedForReal, Starred

LEMMA OutdatedUnchanged ==
    ASSUME TypeOK, OutdatedForReal, UNCHANGED <<fs, pos, head>>
    PROVE  OutdatedForReal'
BY OutdatedKept

\* DELETE FROM slpos and slhead
LEMMA OutdatedAfterDelete ==
    ASSUME TypeOK, OutdatedForReal, UNCHANGED fs, NEW P, NEW H,
           pos' = Drop(pos, P), head' = head \/ head' = DropHead(head, H)
    PROVE  OutdatedForReal'
<1>1. \A s \in Sids : pos'[s] \in {pos[s], Absent}
    BY DropRows DEF TypeOK
<1>2. \A s \in Sids : head'[s] = "D*" => head[s] = "D*"
    BY DropHeads DEF TypeOK
<1>3. QED
    BY <1>1, <1>2, OutdatedKept

LEMMA OutdatedStart == TypeOK /\ OutdatedInv /\ Start => OutdatedInv'
<1> SUFFICES ASSUME TypeOK, OutdatedInv,
                    NEW c \in {"SHOW", "PLAN", "SYNC"}, NEW mode \in Modes,
                    NEW m \in SUBSET Disks, startSqlite(c, mode, m)
             PROVE  OutdatedInv'
    BY DEF Start
<1>1. ScanCompared'
    BY DEF startSqlite, ScanCompared
<1>2. OutdatedForReal'
    BY OutdatedKept DEF startSqlite, OutdatedInv, userVars, slVars
<1>3. QED
    BY <1>1, <1>2 DEF OutdatedInv

LEMMA OutdatedRefresh == TypeOK /\ OutdatedInv /\ Refresh => OutdatedInv'
<1> SUFFICES ASSUME TypeOK, OutdatedInv, Refresh PROVE OutdatedInv'
    OBVIOUS
<1> USE DEF OutdatedInv, userVars, slVars, dbVars, ScanCompared
<1>1. CASE openDB \/ refreshFromBackup \/ markSyncEnd \/ checkDuplicated \/ dedupDone
           \/ dedupFile
    BY <1>1, OutdatedUnchanged
       DEF openDB, refreshFromBackup, markSyncEnd, checkDuplicated, dedupDone, dedupFile,
           AfterRefresh
<1>2. CASE dedupHead
    BY <1>2, DropHeads, OutdatedKept DEF dedupHead, TypeOK
<1>3. ASSUME NEW s \in Sids, loadSliceHeader(s) PROVE OutdatedInv'
    <2>1. \A t \in Sids : head'[t] = "D*" => head[t] = "D*" /\ pos'[t] = pos[t]
        BY <1>3 DEF loadSliceHeader, TypeOK
    <2>2. QED
        BY <1>3, <2>1, OutdatedKept DEF loadSliceHeader
<1>4. ASSUME NEW s \in Sids, dedupPositions(s) PROVE OutdatedInv'
    BY <1>4, OutdatedAfterDelete DEF dedupPositions
<1>5. QED
    BY <1>1, <1>2, <1>3, <1>4 DEF Refresh

LEMMA OutdatedLoadDataFiles == TypeOK /\ OutdatedInv /\ LoadDataFiles => OutdatedInv'
<1> SUFFICES ASSUME TypeOK, OutdatedInv, LoadDataFiles PROVE OutdatedInv'
    OBVIOUS
<1> USE DEF OutdatedInv, userVars, slVars, dbVars
<1>1. CASE clearFileList \/ skipDisk \/ loadDataFilesDone
    BY <1>1, OutdatedUnchanged
       DEF clearFileList, skipDisk, loadDataFilesDone, ScanCompared
<1>2. CASE loadFileList
    <2>1. \A f \in Files : DiskOf[f] = disk => nfVer'[f] = fs[f]
        BY <1>2 DEF loadFileList
    <2>2. QED
        BY <1>2, <2>1, OutdatedUnchanged DEF loadFileList, ScanCompared
<1>3. CASE refreshState
    <2>1. ScanCompared'
        BY <1>3 DEF refreshState, ScanCompared
    <2>2. SUFFICES ASSUME NEW s \in Starred', pos'[s] # Absent
                   PROVE  \E f \in Files : pos'[s][f] # NoFile /\ fs'[f] # pos'[s][f]
        BY <2>1 DEF OutdatedForReal
    <2>3. pos'[s] = pos[s] /\ s \in Sids
        BY <1>3, <2>2, DropRows DEF refreshState, Starred, TypeOK
    <2>4. CASE s \in Outdated
        BY <1>3, <2>3, <2>4 DEF refreshState, ScanCompared, Outdated
    <2>5. CASE s \notin Outdated
        <3>1. head[s] = "D*"
            BY <1>3, <2>2, <2>3, <2>5 DEF refreshState, Starred, TypeOK
        <3>2. QED
            BY <1>3, <2>2, <2>3, <3>1 DEF refreshState, OutdatedForReal, Starred
    <2>6. QED
        BY <2>4, <2>5
<1>4. QED
    BY <1>1, <1>2, <1>3 DEF LoadDataFiles

LEMMA OutdatedSync ==
    TypeOK /\ OutdatedInv /\ (PrepareForSync \/ CreateSlices \/ SaveSlices) => OutdatedInv'
<1> SUFFICES ASSUME TypeOK, OutdatedInv, PrepareForSync \/ CreateSlices \/ SaveSlices
             PROVE  OutdatedInv'
    OBVIOUS
<1> USE DEF OutdatedInv, userVars, slVars, dbVars, ScanCompared
<1>1. ASSUME NEW s \in Sids, pruneUnlink(s) PROVE OutdatedInv'
    BY <1>1, OutdatedUnchanged DEF pruneUnlink
<1>2. CASE pruneRows
    BY <1>2, OutdatedAfterDelete DEF pruneRows
<1>3. CASE checkIfExists
    BY <1>3, OutdatedAfterDelete DEF checkIfExists
<1>4. CASE sourceNotChanged \/ createSlicesDone
    BY <1>4, OutdatedUnchanged DEF sourceNotChanged, createSlicesDone, AfterPlan
<1>5. ASSUME NEW S \in SUBSET Sids, prepareForPlan(S) PROVE OutdatedInv'
    BY <1>5, OutdatedAfterDelete DEF prepareForPlan
<1>6. ASSUME NEW s \in Sids, optimiseUnlink(s) PROVE OutdatedInv'
    BY <1>6, OutdatedUnchanged DEF optimiseUnlink
<1>7. CASE optimiseCommit
    BY <1>7, OutdatedAfterDelete DEF optimiseCommit
<1>8. CASE optimiseRecalculate
    BY <1>8, OutdatedUnchanged DEF optimiseRecalculate
<1>9. ASSUME NEW s \in Sids, NEW G \in SUBSET Files, planSlice(s, G) PROVE OutdatedInv'
    <2>1. \A t \in Sids : head'[t] = "D*" => head[t] = "D*" /\ pos'[t] = pos[t]
        BY <1>9 DEF planSlice, TypeOK
    <2>2. QED
        BY <1>9, <2>1, OutdatedKept DEF planSlice
<1>10. CASE nothingToSave \/ load2queue \/ saveSlicesDone
    BY <1>10, OutdatedUnchanged DEF nothingToSave, load2queue, saveSlicesDone
<1>11. ASSUME NEW s \in Sids, pop(s) \/ exitSliceFile(s) \/ skipSlice(s) PROVE OutdatedInv'
    BY <1>11, OutdatedUnchanged DEF pop, exitSliceFile, skipSlice
<1>12. ASSUME NEW s \in Sids, NEW f \in Files, readFile(s, f) PROVE OutdatedInv'
    BY <1>12, OutdatedUnchanged DEF readFile
<1>13. QED
    BY <1>1, <1>2, <1>3, <1>4, <1>5, <1>6, <1>7, <1>8, <1>9, <1>10, <1>11, <1>12
       DEF PrepareForSync, CreateSlices, SaveSlices

LEMMA OutdatedFaults ==
    TypeOK /\ OutdatedInv /\ (exitProg \/ Faults \/ Users) => OutdatedInv'
<1> SUFFICES ASSUME TypeOK, OutdatedInv, exitProg \/ Faults \/ Users PROVE OutdatedInv'
    OBVIOUS
<1> USE DEF OutdatedInv, userVars, slVars, dbVars
<1>1. CASE exitProg \/ intHandler \/ crash
    BY <1>1, OutdatedUnchanged DEF exitProg, intHandler, crash, Gone, nfVars, ScanCompared
<1>2. ASSUME NEW s \in Sids, NEW b \in BOOLEAN, writeError(s, b) PROVE OutdatedInv'
    BY <1>2, OutdatedUnchanged DEF writeError, ScanCompared
<1>3. ASSUME NEW s \in Sids, loseSlice(s) PROVE OutdatedInv'
    BY <1>3, OutdatedUnchanged DEF loseSlice, ScanCompared
<1>4. ASSUME NEW f \in Files, NEW v \in MayVer, editFile(f, v) PROVE OutdatedInv'
    <2>1. \A s \in Sids : pos[s][f] # NoFile => fs'[f] # pos[s][f]
        BY <1>4 DEF editFile, Remembered, TypeOK, Rows
    <2>2. \A g \in Files \ {f} : fs'[g] = fs[g]
        BY <1>4 DEF editFile, TypeOK, Rows
    <2>3. UNCHANGED <<pos, head, nfVer, disk, pc>>
        BY <1>4 DEF editFile
    <2>4. \A s \in Sids, g \in Files :
             pos[s][g] # NoFile /\ fs[g] # pos[s][g] => fs'[g] # pos[s][g]
        BY <2>1, <2>2
    <2>5. OutdatedForReal'
        BY <2>3, <2>4 DEF OutdatedForReal, Starred
    <2>6. ScanCompared'
        BY <2>3, <2>4 DEF ScanCompared
    <2>7. QED
        BY <2>5, <2>6
<1>5. QED
    BY <1>1, <1>2, <1>3, <1>4 DEF Faults, Users

\* A saved slice is outdated, and removed by the next sync, only if one of its files
\* really is no longer the version that was archived.
THEOREM OutdatedForRealHolds == Spec => []OutdatedForReal
<1>1. TypeOK /\ OutdatedInv /\ UNCHANGED vars => OutdatedInv'
    BY OutdatedUnchanged DEF vars, OutdatedInv, ScanCompared
<1>2. TypeOK /\ OutdatedInv /\ [Next]_vars => OutdatedInv'
    BY <1>1, OutdatedStart, OutdatedRefresh, OutdatedLoadDataFiles, OutdatedSync,
       OutdatedFaults DEF Next, Program
<1>3. OutdatedInv => OutdatedForReal
    BY DEF OutdatedInv
<1>4. QED
    BY <1>2, <1>3, OutdatedInit, TypeCorrect, PTL DEF Spec

----------------------------------------------------------------------------
(* The parity of a slice.  A file may be edited after its bytes were read; *)
(* what makes the check before the rename enough is that a file which is   *)
(* the planned version at that moment was that version when it was read.   *)

WritingOnlyInSave == writing # {} => pc = "save"

ReadIsCurrent ==
    \A s \in writing, f \in Files :
        pos[s][f] # NoFile /\ rd[s][f] # NoFile /\ fs[f] = pos[s][f] => rd[s][f] = fs[f]

ReadInv == WritingOnlyInSave /\ ReadIsCurrent

LEMMA ReadInit == Init => ReadInv
BY DEF Init, ReadInv, WritingOnlyInSave, ReadIsCurrent

\* Outside saveSlices no slice is being written.
LEMMA ReadIdle ==
    ASSUME ReadInv, pc # "save", UNCHANGED writing PROVE ReadInv'
BY DEF ReadInv, WritingOnlyInSave, ReadIsCurrent

\* Slices stop being written; nothing else that matters changes.
LEMMA ReadFewer ==
    ASSUME ReadInv, writing' \subseteq writing, UNCHANGED <<fs, pos, rd, pc>> PROVE ReadInv'
BY DEF ReadInv, WritingOnlyInSave, ReadIsCurrent

LEMMA ReadGone == Gone => ReadInv'
BY DEF Gone, ReadInv, WritingOnlyInSave, ReadIsCurrent

LEMMA ReadBeforeSave ==
    ReadInv /\ (Start \/ Refresh \/ LoadDataFiles \/ PrepareForSync \/ CreateSlices)
        => ReadInv'
<1> SUFFICES ASSUME ReadInv,
                    Start \/ Refresh \/ LoadDataFiles \/ PrepareForSync \/ CreateSlices
             PROVE  ReadInv'
    OBVIOUS
<1> USE ReadIdle DEF saveVars
<1>1. CASE Start
    BY <1>1 DEF Start, startSqlite
<1>2. CASE Refresh
    BY <1>2 DEF Refresh, openDB, refreshFromBackup, markSyncEnd, checkDuplicated, dedupHead,
                dedupFile, dedupDone, loadSliceHeader, dedupPositions
<1>3. CASE LoadDataFiles
    BY <1>3 DEF LoadDataFiles, clearFileList, loadFileList, skipDisk, refreshState,
                loadDataFilesDone
<1>4. CASE PrepareForSync
    BY <1>4 DEF PrepareForSync, pruneUnlink, pruneRows, checkIfExists
<1>5. CASE CreateSlices
    BY <1>5 DEF CreateSlices, sourceNotChanged, prepareForPlan, optimiseUnlink,
                optimiseCommit, optimiseRecalculate, planSlice, createSlicesDone
<1>6. QED
    BY <1>1, <1>2, <1>3, <1>4, <1>5

LEMMA ReadSaveSlices == TypeOK /\ ReadInv /\ SaveSlices => ReadInv'
<1> SUFFICES ASSUME TypeOK, ReadInv, SaveSlices PROVE ReadInv'
    OBVIOUS
<1> USE DEF userVars, dbVars
<1>1. CASE nothingToSave
    BY <1>1, ReadIdle DEF nothingToSave, saveVars
<1>2. CASE load2queue
    BY <1>2, ReadIdle DEF load2queue
<1>3. CASE saveSlicesDone
    BY <1>3 DEF saveSlicesDone, ReadInv, WritingOnlyInSave, ReadIsCurrent
<1>4. ASSUME NEW s \in Sids, pop(s) PROVE ReadInv'
    <2>1. \A f \in Files : rd'[s][f] = NoFile
        BY <1>4 DEF pop, Absent, TypeOK
    <2>2. \A t \in Sids \ {s} : rd'[t] = rd[t]
        BY <1>4 DEF pop, TypeOK
    <2>3. QED
        BY <1>4, <2>1, <2>2
           DEF pop, ReadInv, WritingOnlyInSave, ReadIsCurrent, TypeOK
<1>5. ASSUME NEW s \in Sids, exitSliceFile(s) \/ skipSlice(s) PROVE ReadInv'
    BY <1>5, ReadFewer DEF exitSliceFile, skipSlice
<1>6. ASSUME NEW s \in Sids, NEW f \in Files, readFile(s, f) PROVE ReadInv'
    <2>1. rd'[s][f] = fs[f]
        BY <1>6 DEF readFile, TypeOK, Rows
    <2>2. \A t \in Sids, g \in Files : t # s \/ g # f => rd'[t][g] = rd[t][g]
        BY <1>6 DEF readFile, TypeOK, Rows
    <2>3. QED
        BY <1>6, <2>1, <2>2
           DEF readFile, ReadInv, WritingOnlyInSave, ReadIsCurrent, TypeOK
<1>7. QED
    BY <1>1, <1>2, <1>3, <1>4, <1>5, <1>6 DEF SaveSlices

LEMMA ReadFaults == TypeOK /\ ReadInv /\ (exitProg \/ Faults \/ Users) => ReadInv'
<1> SUFFICES ASSUME TypeOK, ReadInv, exitProg \/ Faults \/ Users PROVE ReadInv'
    OBVIOUS
<1> USE DEF userVars, slVars, dbVars, saveVars
<1>1. CASE exitProg \/ crash
    BY <1>1, ReadGone DEF exitProg, crash
<1>2. CASE intHandler
    BY <1>2, ReadGone, ReadFewer DEF intHandler
<1>3. ASSUME NEW s \in Sids, NEW b \in BOOLEAN, writeError(s, b) PROVE ReadInv'
    BY <1>3, ReadFewer DEF writeError
<1>4. ASSUME NEW s \in Sids, loseSlice(s) PROVE ReadInv'
    BY <1>4, ReadFewer DEF loseSlice
<1>5. ASSUME NEW f \in Files, NEW v \in MayVer, editFile(f, v) PROVE ReadInv'
    <2>1. \A s \in Sids : pos[s][f] # NoFile => fs'[f] # pos[s][f]
        BY <1>5 DEF editFile, Remembered, TypeOK, Rows
    <2>2. \A g \in Files \ {f} : fs'[g] = fs[g]
        BY <1>5 DEF editFile, TypeOK, Rows
    <2>3. QED
        BY <1>5, <2>1, <2>2
           DEF editFile, ReadInv, WritingOnlyInSave, ReadIsCurrent, TypeOK
<1>6. QED
    BY <1>1, <1>2, <1>3, <1>4, <1>5 DEF Faults, Users

LEMMA ReadStep == TypeOK /\ ReadInv /\ [Next]_vars => ReadInv'
<1>1. ReadInv /\ UNCHANGED vars => ReadInv'
    BY ReadFewer DEF vars
<1>2. QED
    BY <1>1, ReadBeforeSave, ReadSaveSlices, ReadFaults DEF Next, Program

\* A slice file that appears names exactly the versions its parity was computed from.
NewParityMatches ==
    \A s \in Sids : s \notin OnDisk /\ sfile'[s] # Absent =>
        \A f \in Files : sfile'[s][f] # NoFile => rd[s][f] = sfile'[s][f]

\* Only exitSliceFile makes a slice file appear.
LEMMA NoNewFile ==
    ASSUME TypeOK, NEW S, sfile' = sfile \/ sfile' = Drop(sfile, S) PROVE NewParityMatches
BY DropRows DEF NewParityMatches, OnDisk, TypeOK

LEMMA ParityStep == TypeOK /\ ReadInv /\ [Next]_vars => NewParityMatches
<1> SUFFICES ASSUME TypeOK, ReadInv, [Next]_vars PROVE NewParityMatches
    OBVIOUS
<1>1. ASSUME NEW s \in Sids, exitSliceFile(s) PROVE NewParityMatches
    <2>1. \A t \in Sids \ {s} : sfile'[t] = sfile[t]
        BY <1>1 DEF exitSliceFile, TypeOK
    <2>2. \A f \in Files : sfile'[s][f] = IF Member(s, f) THEN fs[f] ELSE NoFile
        BY <1>1 DEF exitSliceFile, TypeOK
    <2>3. \A f \in Files : Member(s, f) => rd[s][f] = fs[f]
        BY <1>1 DEF exitSliceFile, AllRead, FilesUnchanged, Member, ReadInv, ReadIsCurrent
    <2>4. QED
        BY <2>1, <2>2, <2>3 DEF NewParityMatches, OnDisk
<1>2. CASE UNCHANGED vars \/ Start \/ LoadDataFiles \/ exitProg \/ Users
    BY <1>2, NoNewFile
       DEF vars, Start, startSqlite, LoadDataFiles, clearFileList, loadFileList, skipDisk,
           refreshState, loadDataFilesDone, exitProg, Users, editFile, diskVars
<1>3. CASE Refresh
    BY <1>3, NoNewFile
       DEF Refresh, openDB, refreshFromBackup, markSyncEnd, checkDuplicated, dedupHead,
           dedupFile, dedupDone, loadSliceHeader, dedupPositions, diskVars
<1>4. CASE PrepareForSync
    BY <1>4, NoNewFile DEF PrepareForSync, pruneUnlink, pruneRows, checkIfExists, diskVars
<1>5. CASE CreateSlices
    BY <1>5, NoNewFile
       DEF CreateSlices, sourceNotChanged, prepareForPlan, optimiseUnlink, optimiseCommit,
           optimiseRecalculate, planSlice, createSlicesDone, diskVars
<1>6. CASE SaveSlices
    BY <1>1, <1>6, NoNewFile
       DEF SaveSlices, nothingToSave, load2queue, saveSlicesDone, pop, skipSlice, readFile,
           diskVars
<1>7. CASE Faults
    BY <1>7, NoNewFile DEF Faults, intHandler, crash, writeError, loseSlice, diskVars
<1>8. QED
    BY <1>2, <1>3, <1>4, <1>5, <1>6, <1>7 DEF Next, Program

\* Whatever users edit while a slice is written, its header and its parity agree.
THEOREM ParityMatchesHeaderHolds == Spec => ParityMatchesHeader
<1>1. Spec => []ReadInv
    BY ReadInit, ReadStep, TypeCorrect, PTL DEF Spec
<1>2. TypeOK /\ ReadInv /\ [Next]_vars
        => [\A s \in Sids : s \notin OnDisk /\ sfile'[s] # Absent =>
               \A f \in Files : sfile'[s][f] # NoFile => rd[s][f] = sfile'[s][f]]_vars
    BY ParityStep DEF NewParityMatches
<1>3. QED
    BY <1>1, <1>2, TypeCorrect, PTL DEF Spec, ParityMatchesHeader

----------------------------------------------------------------------------
(* What a sync leaves behind.  Any interruption is allowed here: the       *)
(* argument follows one run from the scan of its first disk to its end.    *)

StartPhases == {"open", "refresh", "load", "dups", "dedup", "dedupHead", "dedupFile"}

\* Start-up runs before the scan and once more after saveSlices, then never as a rebuild.
RunShape ==
    /\ rebuild => pc \in StartPhases /\ ~late
    /\ late => pc \in (StartPhases \ {"open"}) \cup {"exit"}
    /\ ~late /\ pc \in StartPhases \cup {"off"} => disk = 1
    /\ pc \notin {"optimise", "dedupHead", "dedupFile"} => victim = {}
    /\ pc # "save" => writing = {} /\ queue = {}

\* removeSlice takes the rows before the file.
RemovedInOrder ==
    /\ \A s \in Sids : pos[s] # Absent => head[s] # "none"
    /\ pc \in {"dedupHead", "dedupFile"} => \A s \in victim : pos[s] = Absent
    /\ pc = "dedupFile" => \A s \in victim : head[s] = "none"

\* This run has compared the disk of f with the recorded positions.
Compared(f) ==
    /\ DiskOf[f] \in mnt
    /\ IF pc \in {"scan", "list", "compare"} THEN DiskOf[f] < disk
                                             ELSE late \/ pc \notin StartPhases \cup {"off"}

\* A position that was compared is the file scanned, or its slice is outdated.
ComparedRows ==
    \A s \in Sids, f \in Files :
        Compared(f) /\ pos[s][f] # NoFile /\ head[s] # "D*" => pos[s][f] = nfVer[f]

\* prepareForSync is behind this run.
Prepared ==
    late \/ pc \in {"unsaved", "optimise", "recalculate", "plan", "queue", "save"}
         \/ (pc = "exit" /\ cmd # "SHOW")

\* It has removed the outdated slices and the rows of missing ones; the slice files
\* written since are newer than the marker, and their slices are known.
PreparedSlices ==
    /\ pc = "exists" \/ Prepared => Starred = {}
    /\ Prepared => \A s \in Sids : head[s] = "D" => s \in OnDisk \cup victim
    /\ pc = "save" => \A s \in writing \cup queue : head[s] = "new"
    /\ pc = "save" \/ (late /\ pc = "refresh") => \A s \in OnDisk \cap newer : head[s] # "none"
    /\ late /\ pc = "load" => \A s \in todo : s \in OnDisk /\ head[s] # "none"

SyncInv == RunShape /\ RemovedInOrder /\ ComparedRows /\ PreparedSlices

LEMMA SyncInit == Init => SyncInv
BY DEF Init, SyncInv, RunShape, RemovedInOrder, ComparedRows, Compared, PreparedSlices,
       Prepared, StartPhases, Starred, OnDisk, Nothing, Absent

LEMMA SyncStart == TypeInv /\ SyncInv /\ Start => SyncInv'
<1> SUFFICES ASSUME TypeInv, SyncInv,
                    NEW c \in {"SHOW", "PLAN", "SYNC"}, NEW mode \in Modes,
                    NEW m \in SUBSET Disks, startSqlite(c, mode, m)
             PROVE  SyncInv'
    BY DEF Start
<1> USE DEF SyncInv, RunShape, RemovedInOrder, ComparedRows, Compared, PreparedSlices,
            Prepared, StartPhases, Starred, OnDisk, Absent, TypeInv, TypeOK,
            userVars, diskVars, nfVars, slVars, saveVars
<1>1. CASE MustRebuild(mode)
    BY <1>1 DEF startSqlite, Nothing
<1>2. CASE ~MustRebuild(mode)
    BY <1>2 DEF startSqlite
<1>3. QED
    BY <1>1, <1>2

LEMMA SyncRefresh == TypeInv /\ SyncInv /\ Refresh => SyncInv'
<1> SUFFICES ASSUME TypeInv, SyncInv, Refresh PROVE SyncInv'
    OBVIOUS
<1> USE DisksAssumption
        DEF SyncInv, RunShape, RemovedInOrder, ComparedRows, Compared, PreparedSlices,
            Prepared, StartPhases, Starred, OnDisk, Absent, TypeInv, TypeOK, Disks,
            userVars, diskVars, nfVars, slVars, dbVars, argVars, saveVars
<1>1. CASE openDB
    BY <1>1 DEF openDB
<1>2. CASE refreshFromBackup
    BY <1>2 DEF refreshFromBackup, generateRefreshList, AfterRefresh
<1>3. CASE markSyncEnd
    BY <1>3 DEF markSyncEnd
<1>4. CASE checkDuplicated
    BY <1>4 DEF checkDuplicated, AfterRefresh
<1>5. CASE dedupHead
    BY <1>5 DEF dedupHead, DropHead
<1>6. CASE dedupFile
    BY <1>6 DEF dedupFile, Drop
<1>7. CASE dedupDone
    BY <1>7 DEF dedupDone, AfterRefresh
<1>8. ASSUME NEW s \in Sids, loadSliceHeader(s) PROVE SyncInv'
    BY <1>8 DEF loadSliceHeader
<1>9. ASSUME NEW s \in Sids, dedupPositions(s) PROVE SyncInv'
    BY <1>9 DEF dedupPositions, Drop
<1>10. QED
    BY <1>1, <1>2, <1>3, <1>4, <1>5, <1>6, <1>7, <1>8, <1>9 DEF Refresh

LEMMA SyncLoadDataFiles == TypeInv /\ SyncInv /\ LoadDataFiles => SyncInv'
<1> SUFFICES ASSUME TypeInv, SyncInv, LoadDataFiles PROVE SyncInv'
    OBVIOUS
<1> USE DisksAssumption
        DEF SyncInv, RunShape, RemovedInOrder, ComparedRows, Compared, PreparedSlices,
            Prepared, StartPhases, Starred, OnDisk, Absent, TypeInv, TypeOK, ScanningDisk,
            Disks, userVars, diskVars, slVars, dbVars, argVars, saveVars
<1>1. CASE clearFileList
    BY <1>1 DEF clearFileList
<1>2. CASE loadFileList
    BY <1>2 DEF loadFileList
<1>3. CASE skipDisk
    BY <1>3 DEF skipDisk
<1>4. CASE refreshState
    <2>1. \A s \in Sids : pos'[s] = IF s \in Outdated /\ head[s] = "new" THEN Absent
                                                                        ELSE pos[s]
        BY <1>4 DEF refreshState, Drop, Unsaved
    <2>2. \A s \in Outdated : pos[s] # Absent
        BY DEF Outdated
    <2>3. \A s \in Outdated : head'[s] = "D*" \/ pos'[s] = Absent
        BY <1>4, <2>1, <2>2 DEF refreshState, Star, HeadStates, Outdated
    <2>4. ComparedRows'
        <3> SUFFICES ASSUME NEW s \in Sids, NEW f \in Files,
                            Compared(f)', pos'[s][f] # NoFile, head'[s] # "D*"
                     PROVE  pos'[s][f] = nfVer'[f]
            BY DEF ComparedRows
        <3>1. pos'[s] = pos[s] /\ UNCHANGED nfVer /\ pos'[s] # Absent
            <4>1. Absent[f] = NoFile
                BY DEF Absent
            <4>2. pos'[s] # Absent
                BY <4>1
            <4>3. QED
                BY <1>4, <2>1, <4>2 DEF refreshState
        <3>2. CASE s \in Outdated
            BY <2>3, <3>1, <3>2
        <3>3. CASE s \notin Outdated /\ DiskOf[f] = disk
            BY <3>1, <3>3 DEF Outdated
        <3>4. CASE s \notin Outdated /\ DiskOf[f] # disk
            <4>1. Compared(f) /\ head[s] # "D*"
                BY <1>4, <3>4 DEF refreshState
            <4>2. QED
                BY <3>1, <4>1
        <3>5. QED
            BY <3>2, <3>3, <3>4
    <2>5. RemovedInOrder'
        BY <1>4, <2>1 DEF refreshState, Star
    <2>6. RunShape' /\ PreparedSlices'
        BY <1>4 DEF refreshState
    <2>7. QED
        BY <2>4, <2>5, <2>6
<1>5. CASE loadDataFilesDone
    BY <1>5 DEF loadDataFilesDone
<1>6. QED
    BY <1>1, <1>2, <1>3, <1>4, <1>5 DEF LoadDataFiles

LEMMA SyncPrepareForSync == TypeInv /\ SyncInv /\ PrepareForSync => SyncInv'
<1> SUFFICES ASSUME TypeInv, SyncInv, PrepareForSync PROVE SyncInv'
    OBVIOUS
<1> USE DEF SyncInv, RunShape, RemovedInOrder, ComparedRows, Compared, PreparedSlices,
            Prepared, StartPhases, Starred, OnDisk, Absent, TypeInv, TypeOK,
            userVars, diskVars, nfVars, slVars, dbVars, argVars, saveVars
<1>1. ASSUME NEW s \in Sids, pruneUnlink(s) PROVE SyncInv'
    BY <1>1 DEF pruneUnlink, Drop
<1>2. CASE pruneRows
    BY <1>2 DEF pruneRows, Drop, DropHead
<1>3. CASE checkIfExists
    BY <1>3 DEF checkIfExists, Missing, Saved, Drop, DropHead
<1>4. QED
    BY <1>1, <1>2, <1>3 DEF PrepareForSync

LEMMA SyncCreateSlices == TypeInv /\ SyncInv /\ CreateSlices => SyncInv'
<1> SUFFICES ASSUME TypeInv, SyncInv, CreateSlices PROVE SyncInv'
    OBVIOUS
<1> USE DEF SyncInv, RunShape, RemovedInOrder, ComparedRows, Compared, PreparedSlices,
            Prepared, StartPhases, Starred, OnDisk, Absent, TypeInv, TypeOK,
            userVars, diskVars, nfVars, slVars, dbVars, argVars, saveVars
<1>1. CASE sourceNotChanged
    BY <1>1 DEF sourceNotChanged, AfterPlan
<1>2. ASSUME NEW S \in SUBSET Sids, prepareForPlan(S) PROVE SyncInv'
    BY <1>2 DEF prepareForPlan, Drop, DropHead
<1>3. ASSUME NEW s \in Sids, optimiseUnlink(s) PROVE SyncInv'
    BY <1>3 DEF optimiseUnlink, Drop
<1>4. CASE optimiseCommit
    BY <1>4 DEF optimiseCommit, Drop, DropHead
<1>5. CASE optimiseRecalculate
    BY <1>5 DEF optimiseRecalculate
<1>6. ASSUME NEW s \in Sids, NEW G \in SUBSET Files, planSlice(s, G) PROVE SyncInv'
    BY <1>6 DEF planSlice, Pool
<1>7. CASE createSlicesDone
    BY <1>7 DEF createSlicesDone, AfterPlan
<1>8. QED
    BY <1>1, <1>2, <1>3, <1>4, <1>5, <1>6, <1>7 DEF CreateSlices

LEMMA SyncSaveSlices == TypeInv /\ SyncInv /\ SaveSlices => SyncInv'
<1> SUFFICES ASSUME TypeInv, SyncInv, SaveSlices PROVE SyncInv'
    OBVIOUS
<1> USE DEF SyncInv, RunShape, RemovedInOrder, ComparedRows, Compared, PreparedSlices,
            Prepared, StartPhases, Starred, OnDisk, Absent, TypeInv, TypeOK,
            userVars, diskVars, dbVars, argVars, saveVars
<1>1. CASE nothingToSave
    BY <1>1 DEF nothingToSave
<1>2. CASE load2queue
    BY <1>2 DEF load2queue, Unsaved
<1>3. CASE saveSlicesDone
    BY <1>3 DEF saveSlicesDone
<1>4. ASSUME NEW s \in Sids, pop(s) PROVE SyncInv'
    BY <1>4 DEF pop
<1>5. ASSUME NEW s \in Sids, exitSliceFile(s) PROVE SyncInv'
    BY <1>5 DEF exitSliceFile
<1>6. ASSUME NEW s \in Sids, skipSlice(s) PROVE SyncInv'
    BY <1>6 DEF skipSlice
<1>7. ASSUME NEW s \in Sids, NEW f \in Files, readFile(s, f) PROVE SyncInv'
    BY <1>7 DEF readFile
<1>8. QED
    BY <1>1, <1>2, <1>3, <1>4, <1>5, <1>6, <1>7 DEF SaveSlices

LEMMA SyncFaults == TypeInv /\ SyncInv /\ (exitProg \/ Faults \/ Users) => SyncInv'
<1> SUFFICES ASSUME TypeInv, SyncInv, exitProg \/ Faults \/ Users PROVE SyncInv'
    OBVIOUS
<1> USE DEF SyncInv, RunShape, RemovedInOrder, ComparedRows, Compared, PreparedSlices,
            Prepared, StartPhases, Starred, OnDisk, Absent, TypeInv, TypeOK,
            userVars, diskVars, nfVars, slVars, dbVars, argVars, saveVars
<1>1. CASE exitProg \/ crash
    BY <1>1 DEF exitProg, crash, Gone
<1>2. CASE intHandler
    BY <1>2 DEF intHandler, Gone
<1>3. ASSUME NEW s \in Sids, NEW b \in BOOLEAN, writeError(s, b) PROVE SyncInv'
    BY <1>3 DEF writeError
<1>4. ASSUME NEW s \in Sids, loseSlice(s) PROVE SyncInv'
    BY <1>4 DEF loseSlice, Drop
<1>5. ASSUME NEW f \in Files, NEW v \in MayVer, editFile(f, v) PROVE SyncInv'
    BY <1>5 DEF editFile
<1>6. QED
    BY <1>1, <1>2, <1>3, <1>4, <1>5 DEF Faults, Users

LEMMA SyncStep == TypeInv /\ SyncInv /\ [Next]_vars => SyncInv'
<1>1. SyncInv /\ UNCHANGED vars => SyncInv'
    BY DEF vars, SyncInv, RunShape, RemovedInOrder, ComparedRows, Compared, PreparedSlices,
           Prepared, StartPhases, Starred, OnDisk, Absent
<1>2. QED
    BY <1>1, SyncStart, SyncRefresh, SyncLoadDataFiles, SyncPrepareForSync,
       SyncCreateSlices, SyncSaveSlices, SyncFaults DEF Next, Program

\* A plan or a sync that ran to its end, whatever interrupted the runs before it, leaves
\* each slice still to be saved or saved with the files of the scanned disks as they
\* were scanned: the rows agree with the scan by ComparedRows, with the header by
\* RowsMatchHeader.
THEOREM SyncedAsScannedHolds == Spec => []SyncedAsScanned
<1>1. TypeInv /\ SyncInv /\ RowsMatchHeader => SyncedAsScanned
    <2> SUFFICES ASSUME TypeInv, SyncInv, RowsMatchHeader, pc = "exit", cmd # "SHOW",
                        NEW s \in Sids, NEW f \in Files,
                        pos[s][f] # NoFile, head[s] # "new", DiskOf[f] \in mnt
                 PROVE  s \in OnDisk /\ sfile[s][f] = nfVer[f]
        BY DEF SyncedAsScanned
    <2>1. head[s] = "D"
        BY DEF SyncInv, RemovedInOrder, PreparedSlices, Prepared, Starred, TypeInv, TypeOK,
               HeadStates, Absent
    <2>2. s \in OnDisk
        BY <2>1 DEF SyncInv, RunShape, PreparedSlices, Prepared
    <2>3. pos[s] = sfile[s]
        BY <2>1, <2>2 DEF RowsMatchHeader, Absent
    <2>4. pos[s][f] = nfVer[f]
        BY <2>1 DEF SyncInv, ComparedRows, Compared, StartPhases
    <2>5. QED
        BY <2>2, <2>3, <2>4
<1>2. Spec => [](TypeInv /\ SyncInv)
    BY SyncInit, SyncStep, TypeInit, TypeStep, PTL DEF Spec
<1>3. QED
    BY <1>1, <1>2, RowsMatchHeaderHolds, PTL

----------------------------------------------------------------------------
(* The slice files the database knows.  This needs the hypothesis          *)
(* SafeInterrupts on the points at which a run is interrupted: outside it  *)
(* both properties fail (run archive_rebuild).                             *)

\* Where a run may be interrupted.  Ctrl-C calls a rebuild complete that is not
\* (backup.cpp:415), and so does a kill before the new database says that a run is active
\* or one whose dirty database is then forced open (--sqliteMode=f); at the comparison
\* of a disk either takes its files for free (planer.cpp:442).
SafeInterrupts ==
    /\ {"open", "rebuild", "compare"} \cap SigintAt = {}
    /\ "open" \notin CrashAt
    /\ "f" \in Modes => {"rebuild", "compare"} \cap CrashAt = {}

\* How far the program counter, the mode and the work lists determine the rest.  A
\* rebuild starts from empty tables, and no run ever finds slices to deduplicate.
Flow ==
    /\ pc \notin {"off", "open"} => dirty
    /\ pc \notin {"dedup", "dedupHead", "dedupFile"}
    /\ pc = "open" => rebuild
    /\ rebuild => pc \in {"open", "refresh", "load", "dups"} /\ nfVer = Absent
    /\ pc # "save" => writing = {} /\ queue = {}
    /\ pc # "optimise" => victim = {}

\* The database may be anything, and the next run rebuilds it.
Unsure == pc = "off" /\ dirty /\ "f" \notin Modes

\* Slices whose header a rebuild, running or due, has not read yet.
Unread ==
    IF Unsure \/ pc = "open" \/ (rebuild /\ pc = "refresh") THEN Sids
    ELSE IF rebuild /\ pc = "load" THEN todo ELSE {}

\* A rebuilt database holds headers and nothing else.
Rebuilding ==
    rebuild => \A s \in Sids : /\ head[s] # "new"
                               /\ pos[s] = sfile[s] \/ pos[s] = Absent
                               /\ s \in Unread => head[s] = "none"

HeadersDisjoint ==
    \A s, t \in Sids, f \in Files : sfile[s][f] # NoFile /\ sfile[t][f] # NoFile => s = t

RowsDisjoint ==
    \A s, t \in Sids, f \in Files : pos[s][f] # NoFile /\ pos[t][f] # NoFile => s = t

HeadersKnown ==
    \A s \in OnDisk : s \notin Unread => head[s] # "none" /\ pos[s] = sfile[s]

\* A scanned file that is in a slice is marked, unless its disk is being compared: what
\* keeps the planner from putting it in a second one.
RowsMarked ==
    \A f \in Files, s \in Sids :
        nfVer[f] # NoFile /\ pos[s][f] # NoFile =>
            Unsure \/ (pc = "compare" /\ DiskOf[f] = disk) \/ f \in nfMark

\* A slice file written by a sync that did not end yet, or never ended, is found again
\* by its age; once start-up has looked there is none.
LeftOver ==
    \A s \in OnDisk : head[s] = "new" =>
        /\ s \in newer /\ marker
        /\ pc = "load" => s \in todo
        /\ pc \in {"off", "open", "refresh", "load", "save"}

\* What the loops have done so far.
Loops ==
    /\ pc = "load" => todo \subseteq OnDisk
    /\ pc = "prune" => \A s \in OnDisk : head[s] = "D*" => s \in todo
    /\ pc = "optimise" => \A s \in victim : s \notin OnDisk
    /\ pc = "save" => marker /\ \A s \in writing \cup queue : head[s] = "new"

KnownInv ==
    /\ Flow /\ Rebuilding /\ HeadersDisjoint /\ RowsDisjoint
    /\ HeadersKnown /\ RowsMarked /\ LeftOver /\ Loops

LEMMA KnownInit == Init => KnownInv
BY DEF Init, KnownInv, Flow, Rebuilding, Unread, Unsure, HeadersDisjoint, RowsDisjoint,
       HeadersKnown, RowsMarked, LeftOver, Loops, OnDisk, Nothing, Absent

LEMMA KnownStart == TypeInv /\ KnownInv /\ Start => KnownInv'
<1> SUFFICES ASSUME TypeInv, KnownInv,
                    NEW c \in {"SHOW", "PLAN", "SYNC"}, NEW mode \in Modes,
                    NEW m \in SUBSET Disks, startSqlite(c, mode, m)
             PROVE  KnownInv'
    BY DEF Start
<1> USE DEF KnownInv, Flow, Rebuilding, Unread, Unsure, HeadersDisjoint, RowsDisjoint,
            HeadersKnown, RowsMarked, LeftOver, Loops, OnDisk, Absent, TypeInv, TypeOK,
            userVars, diskVars, nfVars, slVars, saveVars
<1>1. CASE MustRebuild(mode)
    BY <1>1 DEF startSqlite, Nothing
<1>2. CASE ~MustRebuild(mode)
    <2>1. ~Unsure
        BY <1>2 DEF MustRebuild
    <2>2. QED
        BY <1>2, <2>1 DEF startSqlite
<1>3. QED
    BY <1>1, <1>2

LEMMA KnownRefresh == TypeInv /\ KnownInv /\ Refresh => KnownInv'
<1> SUFFICES ASSUME TypeInv, KnownInv, Refresh PROVE KnownInv'
    OBVIOUS
<1> USE DEF KnownInv, Flow, Rebuilding, Unread, Unsure, HeadersDisjoint, RowsDisjoint,
            HeadersKnown, RowsMarked, LeftOver, Loops, OnDisk, Absent, TypeInv, TypeOK,
            userVars, diskVars, nfVars, slVars, dbVars, argVars, saveVars
<1>1. CASE openDB
    BY <1>1 DEF openDB
<1>2. CASE refreshFromBackup
    BY <1>2 DEF refreshFromBackup, generateRefreshList, AfterRefresh
<1>3. CASE markSyncEnd
    BY <1>3 DEF markSyncEnd
<1>4. CASE checkDuplicated
    <2>1. Duplicated = {}
        BY DEF Duplicated
    <2>2. QED
        BY <1>4, <2>1 DEF checkDuplicated, AfterRefresh
<1>5. ASSUME NEW s \in Sids, loadSliceHeader(s) PROVE KnownInv'
    <2>1. \A t \in Sids \ {s} : pos'[t] = pos[t] /\ head'[t] = head[t]
        BY <1>5 DEF loadSliceHeader
    <2>2. IF head[s] = "none" THEN rebuild /\ pos'[s] = sfile[s] ELSE pos'[s] = pos[s]
        BY <1>5 DEF loadSliceHeader
    <2>3. head'[s] \in {"D", "D*"}
        BY <1>5 DEF loadSliceHeader
    <2>4. QED
        BY <1>5, <2>1, <2>2, <2>3 DEF loadSliceHeader
<1>6. ASSUME NEW s \in Sids, dedupHead \/ dedupFile \/ dedupDone \/ dedupPositions(s)
      PROVE  FALSE
    BY <1>6 DEF dedupHead, dedupFile, dedupDone, dedupPositions
<1>7. ASSUME dedupHead \/ dedupFile \/ dedupDone PROVE FALSE
    BY <1>7 DEF dedupHead, dedupFile, dedupDone
<1>8. QED
    BY <1>1, <1>2, <1>3, <1>4, <1>5, <1>6, <1>7 DEF Refresh

LEMMA KnownLoadDataFiles == TypeInv /\ KnownInv /\ LoadDataFiles => KnownInv'
<1> SUFFICES ASSUME TypeInv, KnownInv, LoadDataFiles PROVE KnownInv'
    OBVIOUS
<1> USE DEF KnownInv, Flow, Rebuilding, Unread, Unsure, HeadersDisjoint, RowsDisjoint,
            HeadersKnown, RowsMarked, LeftOver, Loops, OnDisk, Absent, TypeInv, TypeOK,
            userVars, diskVars, slVars, dbVars, argVars, saveVars
<1>1. CASE clearFileList
    BY <1>1 DEF clearFileList
<1>2. CASE loadFileList
    BY <1>2 DEF loadFileList
<1>3. CASE skipDisk
    BY <1>3 DEF skipDisk
<1>4. CASE refreshState
    <2>1. \A s \in OnDisk : pos'[s] = pos[s] /\ (head'[s] = "none" => head[s] = "none")
        BY <1>4 DEF refreshState, Drop, Unsaved, Star
    <2>2. \A s \in Sids : head'[s] = "new" => head[s] = "new"
        BY <1>4 DEF refreshState, Star
    <2>3. QED
        BY <1>4, <2>1, <2>2 DEF refreshState, Drop, InSlice
<1>5. CASE loadDataFilesDone
    BY <1>5 DEF loadDataFilesDone, Starred
<1>6. QED
    BY <1>1, <1>2, <1>3, <1>4, <1>5 DEF LoadDataFiles

LEMMA KnownPrepareForSync == TypeInv /\ KnownInv /\ PrepareForSync => KnownInv'
<1> SUFFICES ASSUME TypeInv, KnownInv, PrepareForSync PROVE KnownInv'
    OBVIOUS
<1> USE DEF KnownInv, Flow, Rebuilding, Unread, Unsure, HeadersDisjoint, RowsDisjoint,
            HeadersKnown, RowsMarked, LeftOver, Loops, OnDisk, Absent, TypeInv, TypeOK,
            userVars, diskVars, nfVars, slVars, dbVars, argVars, saveVars
<1>1. ASSUME NEW s \in Sids, pruneUnlink(s) PROVE KnownInv'
    BY <1>1 DEF pruneUnlink, Drop
<1>2. CASE pruneRows
    <2>1. Starred \cap OnDisk = {}
        BY <1>2 DEF pruneRows, Starred
    <2>2. QED
        BY <1>2, <2>1 DEF pruneRows, Drop, DropHead, recalculateNewfiles, InSlice
<1>3. CASE checkIfExists
    BY <1>3 DEF checkIfExists, Missing, Saved, Drop, DropHead, recalculateNewfiles, InSlice
<1>4. QED
    BY <1>1, <1>2, <1>3 DEF PrepareForSync

LEMMA KnownCreateSlices == TypeInv /\ KnownInv /\ CreateSlices => KnownInv'
<1> SUFFICES ASSUME TypeInv, KnownInv, CreateSlices PROVE KnownInv'
    OBVIOUS
<1> USE DEF KnownInv, Flow, Rebuilding, Unread, Unsure, HeadersDisjoint, RowsDisjoint,
            HeadersKnown, RowsMarked, LeftOver, Loops, OnDisk, Absent, TypeInv, TypeOK,
            userVars, diskVars, nfVars, slVars, dbVars, argVars, saveVars
<1>1. CASE sourceNotChanged
    BY <1>1 DEF sourceNotChanged, AfterPlan
<1>2. ASSUME NEW S \in SUBSET Sids, prepareForPlan(S) PROVE KnownInv'
    <2>1. S \cap OnDisk = {}
        BY <1>2 DEF prepareForPlan, Unsaved
    <2>2. QED
        BY <1>2, <2>1 DEF prepareForPlan, Drop, DropHead, recalculateNewfiles, InSlice
<1>3. ASSUME NEW s \in Sids, optimiseUnlink(s) PROVE KnownInv'
    BY <1>3 DEF optimiseUnlink, Drop
<1>4. CASE optimiseCommit
    BY <1>4 DEF optimiseCommit, Drop, DropHead
<1>5. CASE optimiseRecalculate
    BY <1>5 DEF optimiseRecalculate, recalculateNewfiles, InSlice
<1>6. ASSUME NEW s \in Sids, NEW G \in SUBSET Files, planSlice(s, G) PROVE KnownInv'
    <2>1. \A f \in G, t \in Sids : pos[t][f] = NoFile
        BY <1>6 DEF planSlice, Pool
    <2>2. QED
        BY <1>6, <2>1 DEF planSlice, FreshSids
<1>7. CASE createSlicesDone
    BY <1>7 DEF createSlicesDone, AfterPlan
<1>8. QED
    BY <1>1, <1>2, <1>3, <1>4, <1>5, <1>6, <1>7 DEF CreateSlices

\* The file exitSliceFile renames into the archive has the rows of the plan.
LEMMA WrittenAsPlanned ==
    ASSUME TypeOK, NEW s \in Sids, exitSliceFile(s)
    PROVE  sfile' = [sfile EXCEPT ![s] = pos[s]]
<1> DEFINE header == [f \in Files |-> IF Member(s, f) THEN fs[f] ELSE NoFile]
<1>1. pos[s] \in [Files -> MayVer]
    BY DEF TypeOK, Rows
<1>2. \A f \in Files : header[f] = pos[s][f]
    BY DEF exitSliceFile, FilesUnchanged, Member
<1>3. header = pos[s]
    BY <1>1, <1>2
<1>4. QED
    BY <1>3 DEF exitSliceFile

LEMMA KnownSaveSlices == TypeInv /\ KnownInv /\ SaveSlices => KnownInv'
<1> SUFFICES ASSUME TypeInv, KnownInv, SaveSlices PROVE KnownInv'
    OBVIOUS
<1> USE DEF KnownInv, Flow, Rebuilding, Unread, Unsure, HeadersDisjoint, RowsDisjoint,
            HeadersKnown, RowsMarked, LeftOver, Loops, OnDisk, Absent, TypeInv, TypeOK,
            userVars, diskVars, dbVars, argVars, saveVars
<1>1. CASE nothingToSave
    BY <1>1 DEF nothingToSave
<1>2. CASE load2queue
    BY <1>2 DEF load2queue, Unsaved
<1>3. CASE saveSlicesDone
    BY <1>3 DEF saveSlicesDone
<1>4. ASSUME NEW s \in Sids, pop(s) PROVE KnownInv'
    BY <1>4 DEF pop
<1>5. ASSUME NEW s \in Sids, exitSliceFile(s) PROVE KnownInv'
    <2>1. sfile' = [sfile EXCEPT ![s] = pos[s]]
        BY <1>5, WrittenAsPlanned
    <2>2. QED
        BY <1>5, <2>1, SMTT(30) DEF exitSliceFile
<1>6. ASSUME NEW s \in Sids, skipSlice(s) PROVE KnownInv'
    BY <1>6 DEF skipSlice
<1>7. ASSUME NEW s \in Sids, NEW f \in Files, readFile(s, f) PROVE KnownInv'
    BY <1>7 DEF readFile
<1>8. QED
    BY <1>1, <1>2, <1>3, <1>4, <1>5, <1>6, <1>7 DEF SaveSlices

LEMMA KnownFaults ==
    SafeInterrupts /\ TypeInv /\ KnownInv /\ (exitProg \/ Faults \/ Users) => KnownInv'
<1> SUFFICES ASSUME SafeInterrupts, TypeInv, KnownInv, exitProg \/ Faults \/ Users
             PROVE  KnownInv'
    OBVIOUS
<1> USE DEF KnownInv, Flow, Rebuilding, Unread, Unsure, HeadersDisjoint, RowsDisjoint,
            HeadersKnown, RowsMarked, LeftOver, Loops, OnDisk, Absent, TypeInv, TypeOK,
            userVars, diskVars, nfVars, slVars, dbVars, argVars, saveVars
<1>1. CASE exitProg
    BY <1>1 DEF exitProg, Gone
<1>2. CASE intHandler
    <2>1. pc \notin {"off", "open", "compare"} /\ ~rebuild
        BY <1>2 DEF intHandler, Point, SafeInterrupts
    <2>2. QED
        BY <1>2, <2>1 DEF intHandler, Gone
<1>3. CASE crash
    <2>1. pc \notin {"off", "open"}
        BY <1>3 DEF crash, Point, SafeInterrupts
    <2>2. "f" \in Modes => pc # "compare" /\ ~rebuild
        BY <1>3, <2>1 DEF crash, Point, SafeInterrupts
    <2>3. QED
        BY <1>3, <2>1, <2>2 DEF crash, Gone
<1>4. ASSUME NEW s \in Sids, NEW b \in BOOLEAN, writeError(s, b) PROVE KnownInv'
    BY <1>4 DEF writeError
<1>5. ASSUME NEW s \in Sids, loseSlice(s) PROVE KnownInv'
    BY <1>5 DEF loseSlice, Drop
<1>6. ASSUME NEW f \in Files, NEW v \in MayVer, editFile(f, v) PROVE KnownInv'
    BY <1>6 DEF editFile
<1>7. QED
    BY <1>1, <1>2, <1>3, <1>4, <1>5, <1>6, SMTT(30) DEF Faults, Users

LEMMA KnownStep == SafeInterrupts /\ TypeInv /\ KnownInv /\ [Next]_vars => KnownInv'
<1>1. KnownInv /\ UNCHANGED vars => KnownInv'
    BY DEF vars, KnownInv, Flow, Rebuilding, Unread, Unsure, HeadersDisjoint, RowsDisjoint,
           HeadersKnown, RowsMarked, LeftOver, Loops, OnDisk, Absent
<1>2. QED
    BY <1>1, KnownStart, KnownRefresh, KnownLoadDataFiles, KnownPrepareForSync,
       KnownCreateSlices, KnownSaveSlices, KnownFaults DEF Next, Program

LEMMA KnownAlways == ASSUME SafeInterrupts PROVE Spec => []KnownInv
<1>1. TypeInv /\ KnownInv /\ [Next]_vars => KnownInv'
    BY KnownStep
<1>2. Spec => []TypeInv
    BY TypeInit, TypeStep, PTL DEF Spec
<1>3. QED
    BY <1>1, <1>2, KnownInit, PTL DEF Spec

\* Once start-up has refreshed the database it describes every slice file there is,
\* unless a run was interrupted where SafeInterrupts excludes it.
THEOREM KnownSlicesHolds == ASSUME SafeInterrupts PROVE Spec => []KnownSlices
<1>1. KnownInv => KnownSlices
    BY DEF KnownInv, Flow, HeadersKnown, Unread, Unsure, KnownSlices
<1>2. Spec => []KnownInv
    BY KnownAlways
<1>3. QED
    BY <1>1, <1>2, PTL

\* Under the same hypothesis no file is in two slices when slices are written.
THEOREM OneSlicePerFileHolds == ASSUME SafeInterrupts PROVE Spec => []OneSlicePerFile
<1>1. KnownInv => OneSlicePerFile
    BY DEF KnownInv, RowsDisjoint, Duplicated, OneSlicePerFile
<1>2. Spec => []KnownInv
    BY KnownAlways
<1>3. QED
    BY <1>1, <1>2, PTL
=============================================================================
