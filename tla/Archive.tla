------------------------------ MODULE Archive ------------------------------
(***************************************************************************)
(* The life of a parity archive across runs of the program: the user's     *)
(* files on the data disks, the slice files on the backup disk, the SQLite *)
(* tables that describe them, and one run of main() (backup.cpp:2444) from *)
(* startSqlite to exitProg, with Ctrl-C, crashes and restarts between any  *)
(* two of its database transactions.                                       *)
(*                                                                         *)
(* A version stands for a file's (size, mtime, content): the program       *)
(* compares sizes and mtimes only, and a new content gets a new mtime.     *)
(* How the planner groups files into slices is left open here (module      *)
(* Planner fixes it); the parity bytes of a slice are the versions that    *)
(* were read to compute them.                                              *)
(***************************************************************************)
EXTENDS Integers, FiniteSets

CONSTANTS
    Files,      \* paths of ordinary, non-empty files
    NDisks,     \* data disks are 1..NDisks
    DiskOf,     \* the disk a path is on
    Vers,       \* versions of a file
    NoFile,     \* "no such file" / "no such row"
    Sids,       \* slice ids; also the cap on slices existing at once
    Threads,    \* slices written at the same time (--threads)
    Modes,      \* values of --sqliteMode a user passes: "", "r", "f"
    SigintAt,   \* program points at which Ctrl-C may arrive
    CrashAt     \* program points at which the process may be killed

ASSUME NoFileAssumption == NoFile \notin Vers
ASSUME DisksAssumption == NDisks \in Nat \ {0} /\ DiskOf \in [Files -> 1..NDisks]
ASSUME ThreadsAssumption == Threads \in Nat \ {0}

VARIABLES
    fs,         \* the data disks: path -> version
    sfile,      \* slice files on the backup disk: sid -> header rows
    marker,     \* SYNC_START_MARKER exists on the backup disk
    newer,      \* slice files modified after the marker
    nfVer,      \* table newfiles: path -> version of its row
    nfMark,     \* table newfiles: rows in state '*'
    pos,        \* table slpos: sid -> path -> recorded version
    head,       \* table slhead: sid -> state ("none" when there is no row)
    dirty,      \* watchdog.prog_start # 0
    pc,         \* where the running process is ("off": none runs)
    cmd, rebuild, mnt,  \* command, rebuild mode, mounted data disks
    late,       \* in the checkAndFix(true) that ends saveSlices
    disk,       \* loop counter of loadDataFiles
    todo,       \* slices the current loop has still to visit
    victim,     \* rows and file of a slice are being removed one after the other
    cancel,     \* operationCanceled and who set it
    queue, writing, rd  \* job queue, slices being written, versions read for them

userVars == <<fs>>
diskVars == <<sfile, marker, newer>>
nfVars   == <<nfVer, nfMark>>
slVars   == <<pos, head>>
dbVars   == <<nfVer, nfMark, pos, head, dirty>>
argVars  == <<cmd, mnt>>
saveVars == <<queue, writing, rd>>
vars == <<fs, sfile, marker, newer, nfVer, nfMark, pos, head, dirty, pc, cmd,
          rebuild, mnt, late, disk, todo, victim, cancel, queue, writing, rd>>

----------------------------------------------------------------------------
Disks   == 1..NDisks
MayVer  == Vers \cup {NoFile}
Rows    == [Files -> MayVer]
Absent  == [f \in Files |-> NoFile]
Nothing == [s \in Sids |-> Absent]

Phases == {"off", "open", "refresh", "load", "dups", "dedup", "dedupHead", "dedupFile",
           "scan", "list", "compare", "prune", "exists", "unsaved", "optimise",
           "recalculate", "plan", "queue", "save", "exit"}
HeadStates == {"none", "new", "D", "D*"}

InSlice(p, f)  == \E s \in Sids : p[s][f] # NoFile
Drop(p, S)     == [s \in Sids |-> IF s \in S THEN Absent ELSE p[s]]
DropHead(h, S) == [s \in Sids |-> IF s \in S THEN "none" ELSE h[s]]
OnDisk  == {s \in Sids : sfile[s] # Absent}
Unsaved == {s \in Sids : head[s] = "new"}
Starred == {s \in Sids : head[s] = "D*"}
Saved   == {s \in Sids : head[s] \in {"D", "D*"}}

\* Mutant: every mark is cleared
UnmarkAll(p) == {}

\* UPDATE newfiles SET state = '' for marked rows no slice position names
recalculateNewfiles(p) == {f \in nfMark : InSlice(p, f)}

----------------------------------------------------------------------------
Init ==
    /\ fs \in Rows
    /\ sfile = Nothing /\ marker = FALSE /\ newer = {}
    /\ nfVer = Absent /\ nfMark = {}
    /\ pos = Nothing /\ head = [s \in Sids |-> "none"] /\ dirty = FALSE
    /\ pc = "off" /\ cmd = "SHOW" /\ rebuild = FALSE /\ mnt = {} /\ late = FALSE
    /\ disk = 1 /\ todo = {} /\ victim = {} /\ cancel = "no"
    /\ queue = {} /\ writing = {} /\ rd = Nothing

\* The process is gone: its memory with it, an open transaction is rolled back
Gone ==
    /\ pc' = "off" /\ cmd' = "SHOW" /\ rebuild' = FALSE /\ mnt' = {} /\ late' = FALSE
    /\ disk' = 1 /\ todo' = {} /\ victim' = {} /\ cancel' = "no"
    /\ queue' = {} /\ writing' = {} /\ rd' = Nothing

----------------------------------------------------------------------------
(* startSqlite: a database left open by an earlier run is rebuilt unless   *)
(* the user forces it; a rebuild unlinks the database first.               *)

MustRebuild(mode) == mode = "r" \/ (dirty /\ mode # "f")

startSqlite(c, mode, m) ==
    /\ pc = "off"
    /\ cmd' = c /\ mnt' = m /\ rebuild' = MustRebuild(mode)
    /\ IF MustRebuild(mode)
       THEN /\ pc' = "open" /\ dirty' = FALSE
            /\ nfVer' = Absent /\ nfMark' = {}
            /\ pos' = Nothing /\ head' = [s \in Sids |-> "none"]
       ELSE /\ pc' = "refresh" /\ dirty' = TRUE
            /\ UNCHANGED <<nfVars, slVars>>
    /\ UNCHANGED <<userVars, diskVars, late, disk, todo, victim, cancel, saveVars>>

\* The new database exists and its watchdog row says that a run is active
openDB ==
    /\ pc = "open"
    /\ dirty' = TRUE /\ pc' = "refresh"
    /\ UNCHANGED <<userVars, diskVars, nfVars, slVars, argVars, rebuild, late, disk,
                   todo, victim, cancel, saveVars>>

----------------------------------------------------------------------------
(* checkAndFix / refreshFromBackup: load the slice files the database does *)
(* not know yet: all of them in a rebuild, those younger than the marker   *)
(* when an earlier sync left its marker behind.                            *)

AfterRefresh == IF late THEN "exit" ELSE "scan"

\* Mutant: a rebuild lists the files newer than the marker, too
ListNewer == OnDisk \cap newer

generateRefreshList == IF rebuild THEN OnDisk ELSE OnDisk \cap newer

refreshFromBackup ==
    /\ pc = "refresh"
    /\ marker' = (marker /\ ~rebuild)
    /\ newer' = IF rebuild THEN {} ELSE newer
    /\ todo' = IF rebuild \/ marker THEN generateRefreshList ELSE {}
    /\ IF todo' = {}
       THEN pc' = AfterRefresh /\ rebuild' = FALSE
       ELSE pc' = "load" /\ UNCHANGED rebuild
    /\ UNCHANGED <<userVars, sfile, dbVars, argVars, late, disk, victim, cancel, saveVars>>

loadSliceHeader(s) ==
    /\ pc = "load" /\ s \in todo
    /\ todo' = todo \ {s}
    /\ head' = [head EXCEPT ![s] = IF @ = "D*" THEN @ ELSE "D"]
    /\ pos' = IF head[s] = "none" THEN [pos EXCEPT ![s] = sfile[s]] ELSE pos
    /\ UNCHANGED <<userVars, diskVars, nfVars, dirty, pc, argVars, rebuild, late, disk,
                   victim, cancel, saveVars>>

\* markSync(false) once every listed slice was visited
markSyncEnd ==
    /\ pc = "load" /\ todo = {}
    /\ marker' = FALSE /\ newer' = {} /\ pc' = "dups"
    /\ UNCHANGED <<userVars, sfile, dbVars, argVars, rebuild, late, disk, todo, victim,
                   cancel, saveVars>>

\* Slices that share a path with another slice
Duplicated == {s \in Sids : \E f \in Files, t \in Sids \ {s} :
                                pos[s][f] # NoFile /\ pos[t][f] # NoFile}

checkDuplicated ==
    /\ pc = "dups"
    /\ todo' = Duplicated
    /\ IF Duplicated = {}
       THEN pc' = AfterRefresh /\ rebuild' = FALSE
       ELSE pc' = "dedup" /\ UNCHANGED rebuild
    /\ UNCHANGED <<userVars, diskVars, dbVars, argVars, late, disk, victim, cancel, saveVars>>

\* removeSlice outside a transaction: the positions, the head and the slice file go
\* one after the other
dedupPositions(s) ==
    /\ pc = "dedup" /\ s \in todo
    /\ pos' = Drop(pos, {s})
    /\ victim' = {s} /\ todo' = todo \ {s} /\ pc' = "dedupHead"
    /\ UNCHANGED <<userVars, diskVars, nfVars, head, dirty, argVars, rebuild, late, disk,
                   cancel, saveVars>>

dedupHead ==
    /\ pc = "dedupHead"
    /\ head' = DropHead(head, victim) /\ pc' = "dedupFile"
    /\ UNCHANGED <<userVars, diskVars, nfVars, pos, dirty, argVars, rebuild, late, disk,
                   todo, victim, cancel, saveVars>>

dedupFile ==
    /\ pc = "dedupFile"
    /\ sfile' = Drop(sfile, victim) /\ newer' = newer \ victim
    /\ victim' = {} /\ pc' = "dedup"
    /\ UNCHANGED <<userVars, marker, dbVars, argVars, rebuild, late, disk, todo, cancel,
                   saveVars>>

dedupDone ==
    /\ pc = "dedup" /\ todo = {}
    /\ nfMark' = recalculateNewfiles(pos)
    /\ pc' = AfterRefresh /\ rebuild' = FALSE
    /\ UNCHANGED <<userVars, diskVars, nfVer, slVars, dirty, argVars, late, disk, todo,
                   victim, cancel, saveVars>>

----------------------------------------------------------------------------
(* loadDataFiles: for each mounted disk in turn reload its file list and   *)
(* compare it with the recorded positions.                                 *)

\* DELETE FROM newfiles WHERE disk = ?
clearFileList ==
    /\ pc = "scan" /\ disk \in mnt
    /\ nfVer' = [f \in Files |-> IF DiskOf[f] = disk THEN NoFile ELSE nfVer[f]]
    /\ nfMark' = {f \in nfMark : DiskOf[f] # disk}
    /\ pc' = "list"
    /\ UNCHANGED <<userVars, diskVars, slVars, dirty, argVars, rebuild, late, disk, todo,
                   victim, cancel, saveVars>>

loadFileList ==
    /\ pc = "list"
    /\ nfVer' = [f \in Files |-> IF DiskOf[f] = disk THEN fs[f] ELSE nfVer[f]]
    /\ pc' = "compare"
    /\ UNCHANGED <<userVars, diskVars, nfMark, slVars, dirty, argVars, rebuild, late, disk,
                   todo, victim, cancel, saveVars>>

skipDisk ==
    /\ pc = "scan" /\ disk \in Disks \ mnt
    /\ disk' = disk + 1
    /\ UNCHANGED <<userVars, diskVars, dbVars, pc, argVars, rebuild, late, todo, victim,
                   cancel, saveVars>>

\* Mutant: the comparison forgets "AND s.disk = ?"
OutdatedAnyDisk ==
    {s \in Sids : \E f \in Files : pos[s][f] # NoFile /\ pos[s][f] # nfVer[f]}

\* Mutant: every removed file makes its slice outdated, a modified one does not
OutdatedIfRemoved ==
    {s \in Sids : \E f \in Files : /\ DiskOf[f] = disk
                                   /\ pos[s][f] # NoFile /\ nfVer[f] = NoFile}

\* Slices with a position whose file changed or disappeared on the disk compared
Outdated ==
    {s \in Sids : \E f \in Files : /\ DiskOf[f] = disk
                                   /\ pos[s][f] # NoFile /\ pos[s][f] # nfVer[f]}

\* SET state = concat(state, '*') WHERE state NOT LIKE '%*'
Star(st) == IF st = "D" THEN "D*" ELSE st

refreshState ==
    /\ pc = "compare"
    /\ pos' = Drop(pos, Outdated \cap Unsaved)
    /\ head' = [s \in Sids |-> IF s \notin Outdated THEN head[s]
                               ELSE IF head[s] = "new" THEN "none" ELSE Star(head[s])]
    /\ nfMark' = nfMark \cup {f \in Files : /\ DiskOf[f] = disk /\ nfVer[f] # NoFile
                                            /\ InSlice(pos', f)}
    /\ disk' = disk + 1 /\ pc' = "scan"
    /\ UNCHANGED <<userVars, diskVars, nfVer, dirty, argVars, rebuild, late, todo, victim,
                   cancel, saveVars>>

\* End of loadDataFiles: main switches on the command
loadDataFilesDone ==
    /\ pc = "scan" /\ disk > NDisks
    /\ disk' = 1
    /\ IF cmd = "SHOW" THEN pc' = "exit" /\ UNCHANGED todo
                       ELSE pc' = "prune" /\ todo' = Starred
    /\ UNCHANGED <<userVars, diskVars, dbVars, argVars, rebuild, late, victim, cancel, saveVars>>

----------------------------------------------------------------------------
(* prepareForSync: remove the outdated slices and the rows of slice files  *)
(* that are not on the backup disk any more.                               *)

pruneUnlink(s) ==
    /\ pc = "prune" /\ s \in todo
    /\ todo' = todo \ {s}
    /\ sfile' = Drop(sfile, {s}) /\ newer' = newer \ {s}
    /\ UNCHANGED <<userVars, marker, dbVars, pc, argVars, rebuild, late, disk, victim,
                   cancel, saveVars>>

pruneRows ==
    /\ pc = "prune" /\ todo = {}
    /\ pos' = Drop(pos, Starred) /\ head' = DropHead(head, Starred)
    /\ nfMark' = IF Starred = {} THEN nfMark ELSE recalculateNewfiles(pos')
    /\ pc' = "exists"
    /\ UNCHANGED <<userVars, diskVars, nfVer, dirty, argVars, rebuild, late, disk, todo,
                   victim, cancel, saveVars>>

Missing == {s \in Saved : s \notin OnDisk}

checkIfExists ==
    /\ pc = "exists"
    /\ pos' = Drop(pos, Missing) /\ head' = DropHead(head, Missing)
    /\ nfMark' = IF Missing = {} THEN nfMark ELSE recalculateNewfiles(pos')
    /\ pc' = "unsaved"
    /\ UNCHANGED <<userVars, diskVars, nfVer, dirty, argVars, rebuild, late, disk, todo,
                   victim, cancel, saveVars>>

----------------------------------------------------------------------------
(* createSlices: free the files of skew slices, then plan slices until no  *)
(* free file is left.  Which slices are skew enough and which files go     *)
(* together depends on the sizes, so both are left open.                   *)

Pool == {f \in Files : nfVer[f] # NoFile /\ f \notin nfMark}

AfterPlan == IF cmd = "SYNC" THEN "queue" ELSE "exit"

sourceNotChanged ==
    /\ pc = "unsaved" /\ Pool = {}
    /\ pc' = AfterPlan
    /\ UNCHANGED <<userVars, diskVars, dbVars, argVars, rebuild, late, disk, todo, victim,
                   cancel, saveVars>>

prepareForPlan(S) ==
    /\ pc = "unsaved" /\ Pool # {} /\ S \subseteq Unsaved
    /\ pos' = Drop(pos, S) /\ head' = DropHead(head, S)
    /\ nfMark' = IF S = {} THEN nfMark ELSE recalculateNewfiles(pos')
    /\ pc' = IF cmd = "SYNC" THEN "optimise" ELSE "plan"
    /\ UNCHANGED <<userVars, diskVars, nfVer, dirty, argVars, rebuild, late, disk, todo,
                   victim, cancel, saveVars>>

\* removeSlice inside the transaction of prepareForPlan: the file goes at once
optimiseUnlink(s) ==
    /\ pc = "optimise" /\ s \in Saved \ victim
    /\ sfile' = Drop(sfile, {s}) /\ newer' = newer \ {s} /\ victim' = victim \cup {s}
    /\ UNCHANGED <<userVars, marker, dbVars, pc, argVars, rebuild, late, disk, todo,
                   cancel, saveVars>>

\* ... and the rows at its COMMIT
optimiseCommit ==
    /\ pc = "optimise"
    /\ pos' = Drop(pos, victim) /\ head' = DropHead(head, victim)
    /\ pc' = IF victim = {} THEN "plan" ELSE "recalculate"
    /\ victim' = {}
    /\ UNCHANGED <<userVars, diskVars, nfVars, dirty, argVars, rebuild, late, disk, todo,
                   cancel, saveVars>>

\* ... and behind it, when a slice was removed, a statement of its own frees their files
optimiseRecalculate ==
    /\ pc = "recalculate"
    /\ nfMark' = recalculateNewfiles(pos)
    /\ pc' = "plan"
    /\ UNCHANGED <<userVars, diskVars, nfVer, slVars, dirty, argVars, rebuild, late, disk,
                   todo, victim, cancel, saveVars>>

\* Mutant: the id of a slice file the database does not know is taken again
FreshInDB == {s \in Sids : head[s] = "none"}

\* A slice id is a time stamp: never one the database or the backup disk holds
FreshSids == {s \in Sids : head[s] = "none" /\ s \notin OnDisk}

planSlice(s, G) ==
    /\ pc = "plan" /\ cancel = "no"
    /\ s \in FreshSids /\ G # {} /\ G \subseteq Pool
    /\ pos' = [pos EXCEPT ![s] = [f \in Files |-> IF f \in G THEN nfVer[f] ELSE NoFile]]
    /\ head' = [head EXCEPT ![s] = "new"]
    /\ nfMark' = nfMark \cup G
    /\ UNCHANGED <<userVars, diskVars, nfVer, dirty, pc, argVars, rebuild, late, disk, todo,
                   victim, cancel, saveVars>>

\* No free file, --slices reached (as many as Sids allow), or Ctrl-C
createSlicesDone ==
    /\ pc = "plan"
    /\ cancel # "no" \/ Pool = {} \/ FreshSids = {}
    /\ pc' = IF cancel # "no" THEN "exit" ELSE AfterPlan
    /\ UNCHANGED <<userVars, diskVars, dbVars, argVars, rebuild, late, disk, todo, victim,
                   cancel, saveVars>>

----------------------------------------------------------------------------
(* saveSlices: Threads workers write the queued slices (slices2disk).      *)

nothingToSave ==
    /\ pc = "queue" /\ Unsaved = {}
    /\ pc' = "exit"
    /\ UNCHANGED <<userVars, diskVars, dbVars, argVars, rebuild, late, disk, todo, victim,
                   cancel, saveVars>>

\* load2queue, then markSync(true): every slice file is now older than the marker
load2queue ==
    /\ pc = "queue" /\ Unsaved # {}
    /\ marker' = TRUE /\ newer' = {}
    /\ queue' = Unsaved /\ pc' = "save"
    /\ UNCHANGED <<userVars, sfile, dbVars, argVars, rebuild, late, disk, todo, victim,
                   cancel, writing, rd>>

pop(s) ==
    /\ pc = "save" /\ cancel = "no" /\ s \in queue
    /\ Cardinality(writing) < Threads
    /\ queue' = queue \ {s} /\ writing' = writing \cup {s}
    /\ rd' = [rd EXCEPT ![s] = Absent]
    /\ UNCHANGED <<userVars, diskVars, dbVars, pc, argVars, rebuild, late, disk, todo,
                   victim, cancel>>

Member(s, f)  == pos[s][f] # NoFile
Readable(f)   == DiskOf[f] \in mnt /\ fs[f] # NoFile
AllRead(s)    == \A f \in Files : Member(s, f) => rd[s][f] # NoFile

\* The parity of f's bytes is accumulated
readFile(s, f) ==
    /\ pc = "save" /\ s \in writing
    /\ Member(s, f) /\ rd[s][f] = NoFile /\ Readable(f)
    /\ rd' = [rd EXCEPT ![s][f] = fs[f]]
    /\ UNCHANGED <<userVars, diskVars, dbVars, pc, argVars, rebuild, late, disk, todo,
                   victim, cancel, queue, writing>>

\* Mutant: the header is written without comparing size and mtime with the plan
FilesOpen(s) == \A f \in Files : Member(s, f) => Readable(f)

\* HEADER_WRITE stats every file again and compares it with its planned position
FilesUnchanged(s) ==
    \A f \in Files : Member(s, f) => Readable(f) /\ fs[f] = pos[s][f]

\* exitSliceFile: final header with fresh stats, tail, rename into the archive
exitSliceFile(s) ==
    /\ pc = "save" /\ cancel = "no" /\ s \in writing
    /\ AllRead(s) /\ FilesUnchanged(s)
    /\ sfile' = [sfile EXCEPT ![s] = [f \in Files |-> IF Member(s, f) THEN fs[f] ELSE NoFile]]
    /\ newer' = newer \cup {s} /\ writing' = writing \ {s}
    /\ UNCHANGED <<userVars, marker, dbVars, pc, argVars, rebuild, late, disk, todo,
                   victim, cancel, queue, rd>>

\* cancelGen: a file changed or went away, or the run was cancelled
skipSlice(s) ==
    /\ pc = "save" /\ s \in writing
    /\ cancel # "no" \/ ~FilesUnchanged(s)
    /\ writing' = writing \ {s}
    /\ UNCHANGED <<userVars, diskVars, dbVars, pc, argVars, rebuild, late, disk, todo,
                   victim, cancel, queue, rd>>

\* cancelGen after a failed write: out of space stops the other workers too
writeError(s, space) ==
    /\ pc = "save" /\ s \in writing
    /\ writing' = writing \ {s}
    /\ cancel' = IF space /\ cancel = "no" THEN "space" ELSE cancel
    /\ UNCHANGED <<userVars, diskVars, dbVars, pc, argVars, rebuild, late, disk, todo,
                   victim, queue, rd>>

\* All workers joined: exitTCA, then checkAndFix(true) loads what was written
saveSlicesDone ==
    /\ pc = "save" /\ writing = {} /\ (queue = {} \/ cancel # "no")
    /\ queue' = {} /\ rd' = Nothing /\ late' = TRUE /\ pc' = "refresh"
    /\ UNCHANGED <<userVars, diskVars, dbVars, argVars, rebuild, disk, todo, victim,
                   cancel, writing>>

----------------------------------------------------------------------------
exitProg ==
    /\ pc = "exit"
    /\ dirty' = FALSE /\ Gone
    /\ UNCHANGED <<userVars, diskVars, nfVars, slVars>>

\* The point of the program Ctrl-C or a crash hits, a rebuild named apart
Point == IF rebuild /\ pc # "open" THEN "rebuild" ELSE pc

\* intHandler: once createSlices or the workers run (tca->start # 0) the run is
\* cancelled; otherwise exitProg(0) at once, whose UPDATE an open transaction
\* takes back.  A second Ctrl-C is ignored.
intHandler ==
    /\ Point \in SigintAt \ {"off"} /\ cancel # "sigint"
    /\ IF pc \in {"plan", "save"}
       THEN /\ cancel' = "sigint"
            /\ UNCHANGED <<dirty, pc, argVars, rebuild, late, disk, todo, victim, saveVars>>
       ELSE /\ dirty' = (dirty /\ pc = "optimise" /\ victim # {})
            /\ Gone
    /\ UNCHANGED <<userVars, diskVars, nfVars, slVars>>

\* kill, power failure, log_fatal: prog_start stays
crash ==
    /\ Point \in CrashAt \ {"off"}
    /\ Gone
    /\ UNCHANGED <<userVars, diskVars, dbVars>>

----------------------------------------------------------------------------
(* The users, who may do anything to their files at any time, and the      *)
(* backup disk, which may lose a slice file between two runs.              *)

\* What the system still remembers of path f
Remembered(f) == {fs[f], nfVer[f]} \cup {pos[s][f] : s \in Sids}
                    \cup {sfile[s][f] : s \in Sids} \cup {rd[s][f] : s \in Sids}

editFile(f, v) ==
    /\ v = NoFile \/ v \notin Remembered(f)
    /\ v # fs[f]
    /\ fs' = [fs EXCEPT ![f] = v]
    /\ UNCHANGED <<diskVars, dbVars, pc, argVars, rebuild, late, disk, todo, victim,
                   cancel, saveVars>>

loseSlice(s) ==
    /\ pc = "off" /\ s \in OnDisk
    /\ sfile' = Drop(sfile, {s}) /\ newer' = newer \ {s}
    /\ UNCHANGED <<userVars, marker, dbVars, pc, argVars, rebuild, late, disk, todo, victim,
                   cancel, saveVars>>

----------------------------------------------------------------------------
Start == \E c \in {"SHOW", "PLAN", "SYNC"}, mode \in Modes, m \in SUBSET Disks :
            startSqlite(c, mode, m)

Refresh ==
    \/ openDB \/ refreshFromBackup \/ markSyncEnd \/ checkDuplicated
    \/ dedupHead \/ dedupFile \/ dedupDone
    \/ \E s \in Sids : loadSliceHeader(s) \/ dedupPositions(s)

LoadDataFiles == clearFileList \/ loadFileList \/ skipDisk \/ refreshState \/ loadDataFilesDone

PrepareForSync == (\E s \in Sids : pruneUnlink(s)) \/ pruneRows \/ checkIfExists

CreateSlices ==
    \/ sourceNotChanged
    \/ \E S \in SUBSET Sids : prepareForPlan(S)
    \/ \E s \in Sids : optimiseUnlink(s)
    \/ optimiseCommit \/ optimiseRecalculate
    \/ \E s \in Sids, G \in SUBSET Files : planSlice(s, G)
    \/ createSlicesDone

SaveSlices ==
    \/ nothingToSave \/ load2queue \/ saveSlicesDone
    \/ \E s \in Sids : pop(s) \/ exitSliceFile(s) \/ skipSlice(s)
    \/ \E s \in Sids, f \in Files : readFile(s, f)

\* One step of the running program that no fault interferes with
Program == Refresh \/ LoadDataFiles \/ PrepareForSync \/ CreateSlices \/ SaveSlices
              \/ exitProg

Faults == intHandler \/ crash \/ \E s \in Sids, b \in BOOLEAN : writeError(s, b)
             \/ loseSlice(s)

Users == \E f \in Files, v \in MayVer : editFile(f, v)

Next == Start \/ Program \/ Faults \/ Users

Spec == Init /\ [][Next]_vars

----------------------------------------------------------------------------
TypeOK ==
    /\ fs \in Rows /\ sfile \in [Sids -> Rows]
    /\ marker \in BOOLEAN /\ newer \in SUBSET Sids
    /\ nfVer \in Rows /\ nfMark \in SUBSET Files
    /\ pos \in [Sids -> Rows] /\ head \in [Sids -> HeadStates] /\ dirty \in BOOLEAN
    /\ pc \in Phases /\ cmd \in {"SHOW", "PLAN", "SYNC"} /\ rebuild \in BOOLEAN
    /\ mnt \in SUBSET Disks /\ late \in BOOLEAN /\ disk \in 1..(NDisks + 1)
    /\ todo \in SUBSET Sids /\ victim \in SUBSET Sids
    /\ cancel \in {"no", "space", "sigint"}
    /\ queue \in SUBSET Sids /\ writing \in SUBSET Sids /\ rd \in [Sids -> Rows]
----------------------------------------------------------------------------
(* Properties.                                                             *)

\* Whatever was interrupted, rebuilt or reloaded before, the rows the database has for
\* a slice file are the rows of that file's header: what a restore looks up in slpos
\* (backup.cpp:1087) is what the parity was computed from.  (A slice whose removal as a
\* duplicate was interrupted may have a head and no positions.)
RowsMatchHeader ==
    \A s \in OnDisk : head[s] # "none" => pos[s] \in {sfile[s], Absent}

\* A saved slice is marked outdated, and so removed by the next sync, only when one
\* of its files differs from what was archived (planer.cpp:536-555): not because a
\* disk was not mounted, was not scanned yet, or was scanned while files changed.
\* (One whose removal as a duplicate was interrupted has no positions any more.)
OutdatedForReal ==
    \A s \in Starred : pos[s] # Absent =>
        \E f \in Files : pos[s][f] # NoFile /\ fs[f] # pos[s][f]

\* The parity of a slice that appears on the backup disk was computed from exactly
\* the versions its header records, although users edit files while it is written
\* (backup.cpp:1245 compares size and mtime before the rename).
ParityMatchesHeader ==
    [][\A s \in Sids : s \notin OnDisk /\ sfile'[s] # Absent =>
          \A f \in Files : sfile'[s][f] # NoFile => rd[s][f] = sfile'[s][f]]_vars

\* Once start-up has refreshed the database, it describes every slice file there is
\* (README.md:25: the database can be reconstructed from the archive drive).
KnownSlices ==
    pc \in {"scan", "list", "compare", "prune", "exists", "unsaved", "optimise",
            "recalculate", "plan", "queue"}
        => \A s \in OnDisk : head[s] # "none" /\ pos[s] = sfile[s]

\* No file is in two slices when slices are written: not after reloading slices a
\* cancelled or killed sync left behind, nor with slices planned by earlier runs.
OneSlicePerFile == pc \in {"queue", "save"} => Duplicated = {}

\* When a plan or a sync ends (not when it is stopped), every slice it knows is still to
\* be written or is on the backup disk, with each file of the disks it scanned in the
\* version scanned: outdated, missing and skipped slices are gone from the database or
\* planned anew, and what the workers wrote was read back (main, backup.cpp:2473-2478).
SyncedAsScanned ==
    pc = "exit" /\ cmd # "SHOW" =>
        \A s \in Sids, f \in Files :
            pos[s][f] # NoFile /\ head[s] # "new" /\ DiskOf[f] \in mnt =>
                s \in OnDisk /\ sfile[s][f] = nfVer[f]

\* Every file as it is now is covered by a slice file whose other files are unchanged
Protected ==
    \A f \in Files : fs[f] # NoFile =>
        \E s \in OnDisk : /\ sfile[s][f] = fs[f]
                          /\ \A g \in Files : sfile[s][g] \in {NoFile, fs[g]}

\* When users, faults and the backup disk leave the system alone for good and sync
\* keeps being run, every file is protected in the end and stays so: whatever
\* leftovers (planned slices, skipped slices, duplicates, a marker, a dirty
\* database) earlier interrupted runs left, repeated runs clear them.
EventuallyProtected == <>[]Protected
============================================================================
