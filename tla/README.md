# parity-backup: models, checks and proofs

parity-backup archives files of several data disks as parity. Files of different disks are
grouped into *slices*; the files of a disk laid end to end form its stream, and a *slice file*
on the backup disk holds the XOR of the streams behind a text header that lists the files.
When one data disk is lost its files are computed from the slice files and the other disks.
A SQLite database describes the slices; it can be rebuilt from the headers.

This directory holds TLA+ modules of the program's logic, TLC configurations for them, and
TLAPS proofs. `PROJECT.json` maps every definition to the lines it models and lists runs,
mutants, hazards, findings and theorems. Line numbers refer to `src/`.

    tlc -workers 2 -config MCSlicePool.cfg MCSlicePool     # one run
    tlapm SlicePoolProofs.tla                              # one proof module

## 1. Inventory

| Component | State | Operations | Interacts with |
|---|---|---|---|
| Start-up, watchdog, shutdown (`backup.cpp` startSqlite, exitProg, intHandler; `sql.cpp` closeDB) | `watchdog.prog_start`, rebuild mode, `TCA.operationCanceled` | open or rebuild the database, clean exit, Ctrl-C | everything: a run that was killed forces a rebuild |
| Refresh from the backup disk (refreshFromBackup, loadSliceHeader, markSync, checkDuplicated, removeSlice) | slice files, `SYNC_START_MARKER`, tables `slhead`, `slpos` | list slice files newer than the marker (or all), load their headers, remove duplicates | reads what saving wrote in an earlier run; runs again at the end of saving |
| File scan and slice state (`planer.cpp` loadFileList, refreshState) | table `newfiles` with marks `*` | reload the list of each mounted disk, delete or mark outdated slices, mark archived files | users edit files meanwhile; feeds the planner |
| Preparation (prepareForSync, checkIfExists, prepareForPlan) | slice files, `slhead`, `slpos` | remove outdated slices, forget missing ones, free files of skew slices | refreshState, planner |
| Slice planner (createSlices, selectNextDisk, fillHole, insert2slice) | `SLICE_DISK` sums, counts, `diskFinished`; `slpos` rows | group free files into level slices, one transaction each | writes the positions that saving and restoring use |
| Worker pool (saveSlices, slices2disk, `jobqueue.cpp`, TinyQueue) | array queue, lock, `finishMode`, `TCA` counters | hand slices to threads, cancel, count, join | every thread runs a parity stream |
| Parity stream (`asyncio.cpp` wait4buffers; computeParity, createSliceFile, exitSliceFile) | a buffer per disk, control blocks, hashes, `genCanceled` | asynchronous reads and writes, XOR, hashes, final checks, rename | kernel completes requests in any order |
| Restore (restoreFromDisk, restoreFromSlice, newTargetFile, fitTransferOption, restoreSpecial) | window of the parity stream, file to restore, its hash | compute the lost files one after the other, links and directories after them | `slpos.start`, slice files, the worker pool's queue, access rights |
| Slice file format (writeHeader, loadSliceHeader, verifySliceFiles) | the text header, the tail | write twice, read, check | written by saving, read by refresh and restore |
| Command line and configuration (`argparse.c`, initProgram, readConfigFile) | `CONFIG` | options, commands, disks, checks of devices and mounts | everything starts from it |
| Paths and utilities (`utils.cpp`) | - | disk prefixes, patterns, quoting, sizes, times, status bar, whole-buffer I/O | everything |
| Operating system layer (`linux.cpp`) | temporary files, list of child processes, `.acl` files | run commands, copy control files, access rights, owners, directories | scan, refresh, restore |
| SQL wrapper (`sql.cpp`) | the open transaction, prepared statements | prepare, bind, step, commit, roll back, close | all tables |
| Listings (`show changed`, `show unrecover`) | temporary tables | report what a restore would lose | `slpos` |
| Progress and status bar (initTCA, statusBar, exitTCA, filterByPath) | `TCA` | count, estimate, report | worker pool, restore |
| Logging (`logger.cpp`) | table of destinations | messages and status bars | the stream of every destination |
| Hash library (`xxhash.h`, part XXH64) | `XXH64_state_t` | hash a file read in pieces | parity stream, restore |

What is hard here, and what must hold:

* **Interruption.** Every command is a sequence of transactions, file removals and renames; a
  kill, `log_fatal` or Ctrl-C can fall between any two, and a later run continues from what is
  left. Rows must describe the slice files they are kept for, valid slices must not be
  condemned, and leftovers must not keep a file from being archived for ever.
* **Users edit files all the time**, between the scan, the plan, the reads and the header.
* **Threads.** Several threads pop one queue while a cancellation clears it; each has to get
  its own slice, nothing may be lost, and `saveSlices` must return.
* **Asynchronous I/O.** Short reads and completions in any order must leave the disks' streams
  aligned; an abandoned slice must leave nothing to the next one.
* **Arithmetic of the planner.** Loops over holes, tolerances and limits must end, plan every
  file once, and record positions that restore can use.
* **Restoring with damage.** Files of other disks may have changed or gone; what is restored must
  be exact all the same, and only what really depends on a damaged file may be lost.
* **Text that is written by one part and read by another**: headers, lists of files, links and
  rights, quoted names, options. What comes back must be what went in.

`hazards` in PROJECT.json lists each with its line and the properties that watch it.

## 2. Plan

1. **Archive** - the life of the archive across runs (checked, every safety property proved).
2. **SlicePool**, refining **JobDispenser** - the worker pool (checked, proved).
3. **ParityStream** - what one thread does to several slices (checked, proved); **FaultyStream**
   counts what goes wrong, to say that nothing is given up without a reason.
4. **Planner** - grouping by sizes (checked, proved).
5. **Restore** - a thread that restores files through windows of the parity stream (checked, all
   safety but OnlyListedAreLost proved).
6. What these take from below, as functions: **SliceHeader**, **Paths**, **Links**, **Acl**,
   **ArgParse**, **Startup**, **Skew**, **Listings** (checked over bounded inputs); **BlockHash**,
   **FileIO** (checked and proved about); **Logger**, **Sql**, **Progress**, **Shell** (proved
   about); **Texts**.
7. Still worth doing: the composition of Planner's positions with Restore's windows (Restore takes
   `start` as given, which is where finding planner_start would show); open file descriptors in
   ParityStream; OnlyListedAreLost as a theorem about files that lie end to end.

## 3. The modules

### Archive

One machine: users' files (`fs`), the backup disk (`sfile`, `marker`, `newer`), the database
(`nfVer`, `nfMark`, `pos`, `head`, `dirty`) and the running process (the rest). `pc` walks
through main(): startSqlite, refreshFromBackup, loadDataFiles disk by disk, prepareForSync,
createSlices, saveSlices with its threads, the closing checkAndFix, exitProg. A transaction, and
a statement that commits by itself, is one action; `removeSlice` is three actions in
checkDuplicated (no transaction) and file-first in prepareForPlan (inside one). `crash` and
`intHandler` are enabled at every point, `writeError` in the threads, `loseSlice` between runs,
`editFile` always.

Abstractions. A version of a file stands for size, mtime and content: the program compares the
first two, and new content is assumed to come with a new mtime (`editFile` takes only versions
nothing remembers). Which files form a slice, and which slices are skew, is left open (the
planner's sizes decide). `--slices` and slice ids share the bound `Sids`. SHOW stands for all
commands that do not plan. Ctrl-C inside a transaction is a crash: closeDB rolls back its own
`UPDATE watchdog`. Zero-length files, links, ACLs, dry runs and verifySliceFiles are left out; so
are runs without a backup disk.

### SlicePool and JobDispenser

SlicePool is saveSlices from initTCA to exitTCA. A step is what a thread does between two
accesses to shared state: pop is *lock*, *read the cell*, *advance and unlock*; setState writes
`finishMode` before it takes the lock. With one thread the lock is only tried. QUEUE_RUN, push
and the condition variable are never used by the program (both queues are END_OF_DATA from
the start) and are not modelled. CancelledPool adds a record of the slices that waited when the run was
cancelled, for CancelStops; MCSlicePool runs it. cancelRequest reads `operationCanceled` once (optimised build).
JobDispenser is what saveSlices relies on: jobs that wait, are held by a thread, or are done.
The refinement maps TinyQueue's cells between `tail` and `head` to `waiting`; a thread holds its
job from the moment `tail` has passed it.

### ParityStream

One thread of slices2disk and its slices. A byte is `<<slice, disk, offset>>`, its place in that
disk's stream, and since all bytes are distinct the XOR is the set of non-zero bytes combined.
Each turn of the loop of wait4buffers is an action; the kernel completes any request under way
with any number of bytes, or fails it. A failing aio_read call is folded into a failing open.
Dry runs are left out. The files of a disk are in descending order (DescendingAssumption), as
newfiles lists them and getNextFile tests ("should be descending", asyncio.cpp:118; it does not test
empty ones, which are last anyway). FaultyStream counts the faults, for NoFalseSkip: MCParityStream
bounds them, the proofs do not. A file's size is as planned; a truncated one gives a short read
(`requestFails(i, 0)`), a changed one fails the checks of the header (`exitSliceFile(TRUE)`).

### Planner

createSlices over sizes. `size[d]` is the disk's part of `newfiles` in the order of `seq` (largest
first); `marked` are the rows in state `*`, `committed` those of the last COMMIT. A slice is built
by `startSlice` (the largest free file of every disk), then `addFile2slice` (selectNextDisk) and
turns of `fillHole`, until `sliceReady`; `soloSlice` takes the rest of the only disk left.
`cancelRequest` rolls back. `Turn` describes the chunk of files a turn takes: the first of the
candidates at which the limit is reached, none is left, one fills the hole within the tolerance
or is too large. Tolerance, minimal difference, file limit and the 2 GB limit are constants, and
`percentDiff` computes the rounded percentage in integers. Ctrl-C in the middle of a fillHole takes
effect at the next test of createSlices, as in the code; `maxSlices` is set by tests only.

### Restore

One thread of restoreFromDisk. For each slice `sd` holds the SLICE_DISK of every data disk and of the
parity; `T` is the lost disk. `window` is writeStart and writeSize: newTargetFile sets it to the next
wanted file of `T`, getNextFile skips files of other disks outside it (`Skipped`,
`noNextTarget`), fitTransferOption cuts the overlap out of each, wait4buffers reads, computeParity
combines, startAIO writes the work file, finishCurrentFile compares its hash and renames it. A byte is
`<<slice, disk, file, index>>`, a buffer slot the set of bytes combined there: XOR keeps what occurs an
odd number of times. `damaged` says which files of other disks changed or are gone before the
restore; `badFile`, `requestFails`, short writes, a destination that exists or cannot be renamed, a
slice file that cannot be opened and Ctrl-C are faults. `Garbage` is the value dseq has when
getNextFile found no row (an uninitialised variable). A request for the slice file is for the rest of
the window (`rest`), one for a data file for the rest of its part. The threads of a restore share the
job queue and the counters only; SlicePool has those.

`written` and `canceled` are the counts of the slice at work, `told` the part of them that monitorRun
was given; whether a round calls it is left open (it does once enough bytes were written). On Ctrl-C
restoreFromSlice returns before it hands the rest back, and what was not told is dropped
(backup.cpp:2171, 2187): files already at the destination are then missing in the summary.

A thread may give up the same file for ever (finding restore_next), so `countOne` stops counting what
cancelAIO gives up at `CountBound`, on both counters alike: the only bound inside the module. A
cancel while no file of `T` is open - an empty helper file is missing as well - counts a file too
many; EveryFileCounted therefore says at least.

### What the core takes from below

Functions of their input rather than state machines; each is translated from the code
and compared with an independent definition over bounded inputs (a module *Cases* holds the inputs).

| Module | Code | Compared with |
|---|---|---|
| SliceHeader, HeaderCases | writeHeader, loadSliceHeader, checkSliceHeader, verifySliceFiles | what was written comes back; a header cut off at any line, or without its tail, is refused |
| BlockHash, HashCases | XXH64, XXH64_update, XXH64_digest, the wrappers of utils.cpp | the hash of the file in one piece. The arithmetic of a round is uninterpreted: two hashes are equal only if they are the same term |
| FileIO | readFD, writeFD, openAt, linesInFile, suid_popen, suid_pclose | a transfer without error is a start of the data, whole unless a call moved nothing |
| Paths, PathCases | getDiskIndex, prefix2path, path2prefix, savePatterns, pathMatchPattern, path4shell, replaceStr | each pattern selects by itself; a shell reads a quoted name as that one word |
| Links, PathCases, MCLinks | loadFileList's links and hard links, saveEmptyDirs, loadLinks, restoreSpecial, restoreDirs | what symlink and link are called for, and what they make: links and directories as the disk has them, moved to the destination |
| Acl, AclCases | genACLfile, locateInACL, getFileOwner, updateOwners, restoreACL | each file's own block, and what getFileOwner finds there; the rights of getfacl |
| ArgParse, Startup, StartupCases | argparse_parse, initProgram, readConfigFile, listDisks | the same in another order; what the commands rely on |
| Skew, SkewCases | computeFillFactor, sidChanged, the choice of slices in prepareForPlan | the sizes the slices have |
| Listings | createTempTables, listChanged, listUnrecover | what Restore really loses (OnlyListedAreLost) |
| Texts, Progress | formatSize, sec2hours, str2timestamp, StatusBar; initTCA, statusBar, filterByPath, restoreFromArchive | theorems of UtilityProofs |
| Shell | execExternal, generateFileList, copyConfig, cleanDir, temporary files | theorems of UtilityProofs |
| Sql | sql(), sqlImmediate, errors, closeDB: a state machine | theorems of SqlProofs |
| Logger | log_log with its three steps, the handler of SIGINT that logs between them, file_callback, destinations: a state machine | theorem of UtilityProofs |

The functions read no variable, so they need no run of their own: slice_pool evaluates those of
start-up, scan and choice of slices in its initial state (`AtStart => ...`), because that is what has
happened before slices are saved; parity_stream does so with the hash, the header and the transfers
it rests on; restore with the listings.

## 4. What the runs check

| Run | Bounds | Shows |
|---|---|---|
| archive_faults | 2 disks, a file on each, 3 versions, 2 slice ids, 1 edit, 1 fault anywhere, all rebuild modes | RowsMatchHeader, OutdatedForReal, SyncedAsScanned, ParityMatchesHeader |
| archive_live | same files, 2 versions, 1 edit, 2 faults, Ctrl-C at `SafePoints` | KnownSlices, OneSlicePerFile, EventuallyProtected |
| slice_pool | 2 threads, 4 slices, 3 cells | Implements, NothingForgotten, NoEarlyExit, CancelStops, Joins |
| - in its initial state | two groups of 12 options with 2 words; 20 calls with 365 configuration files; 10 entries of a disk in every subset, two mounts and two destinations; 9 patterns in pairs with 3 owners; names of up to 4 characters; 4 names with 3 owners on two disks, one mounted in the other; 3 saved slices of up to 2 units and up to 4 and 2 units to save | OptionsAnywhere, ReadyIsConsistent, LinksRestored, FilterSelects, QuotedIsOneWord, OwnersAgree, AclKeepsRights, JudgedByOwnSizes |
| parity_stream | 2 disks, 3 slices of up to 4 bytes, buffers of 2, 2 faults | TypeOK, ParityComplete, HashOfEveryFile, NoFalseSkip, Finishes |
| - in its initial state | files of up to three pieces of 10 lengths from 0 to 65; up to 2 files of each of 2 disks; transfers of 3 bytes in 4 calls | StreamIsOneShot, HeaderFaithful, WholeOrError |
| restore | 2 disks, slices of 5 files and 2 files of up to 3 bytes, buffers of 2, 1 damaged or unwanted file, 1 fault | TypeOK, Exact, SavedAreCounted, EveryFileCounted, OnlyListedAreLost, EndsOrGivesUp |
| planner | 3 disks, up to 3 files of 3 sizes on two of them; or up to 6 files, also empty ones, on one disk | MarkedWithSlice, AllPlanned, FilesLimit, FatalForEmptyOnly, FilledToLargest, Finishes |

The type invariants of Archive, SlicePool and Planner are theorems and need no run.

Why these bounds. Archive's rules relate a file to the slice that names it and two slices that
name the same file, and a rescanned disk to one that is not: two of each is the least at which
these differ. One slice may then be planned, one saved, and one slice id reused. Three cells for
four slices make load2queue stop early. Buffers of two bytes make files end inside, at the end of
and across buffers, and a short read possible; three slices give a thread a slice before and
after an abandoned one. In planner, `SameSize = 2` with sizes 7, 14, 26 lets a disk overshoot the
longest one and a finished disk see the slice grow; six files pass the limit of a solo slice. In restore the
files of the lost disk begin and end inside, at the end of and across buffers and other files, one of
them is empty, and a second slice follows one that may be given up. Pieces of the hash lie below, at
and above the 32 bytes of a stripe and twice that. The configurations use every kind of line, and
one that fills every cell of diskDesc; names begin with each other where prefixes matter.

Some properties name what they leave out, because the code fails there (see the remarks below): a
pattern without quotes after a quoted one (FilterSelects), an owner or group that is root
(AclKeepsRights: it gets no entry by its number), a directory whose name begins a sibling's (the names of
LinksRestored), a name that does not fit with its quotes (QuotedIsOneWord).

`SafePoints` leaves out Ctrl-C during a rebuild, and between reloading a disk's list and comparing
it (`compare`: the marks are gone, and a next run without that disk plans its files again);
`CrashPoints` leaves out a kill between creating the new database and setting `prog_start` in it
(`open`). There KnownSlices and OneSlicePerFile really fail (finding archive_rebuild; hazards at
backup.cpp:1604 and planer.cpp:442), so the run says where they hold. archive_faults has no such
restriction.

`CHECK_DEADLOCK FALSE` is said where the modelled function returns: SlicePool, ParityStream,
Planner, Restore and MCLinks stop when their loop has ended. Archive may always be started again.

### Fairness

* archive_live: the running program takes its steps (weak), and of the runs users start, a full
  sync with all disks mounted is one again and again (strong, as other runs disable it while they
  last). Nothing else guarantees that files are archived. Edits and faults are bounded, so the
  property is about what happens after the last one.
* slice_pool: every thread and the main thread are scheduled (weak); all blocking calls are the
  lock and the join, both modelled.
* parity_stream: the thread is scheduled, and a request under way completes some time (weak) -
  aio_suspend is called without a time limit, so the program relies on it.
* restore: the same two; `EndsOrGivesUp` allows a thread that has given up a file half-way not to end
  (finding restore_next).
* planner: the loop goes on (weak); Ctrl-C is never forced.

### Disagreements found

| Run | What it shows |
|---|---|
| archive_rebuild | README.md:25 says the database can be reconstructed with `--rebuild`. Ctrl-C during the rebuild closes the half-filled database as if it were complete; slice files stay unknown afterwards. |
| stream_stale | backup.cpp:1967 "clear structure": the buffers are not cleared, and bytes read for an abandoned slice get into the parity of the next slice of that thread. |
| stream_orphan | asyncio.cpp:339 "continue check for started and not finished operations": a parity write under way is forgotten when the run is cancelled. |
| planner_start | backup.h:134 "offset in slice parity array": with files of 1000 / 900, 110, 40, 36 / 500, 300, 255 bytes a slice records start 940 and 900 for files that lie at 900 and 1010 in the parity stream. |
| restore_next | asyncio.cpp:416 "Try restore next file from slice": one missing file of another disk, and the thread tries the same window for ever. |
| restore_dirs | backup.cpp:1697 "Full path restored create target object": `mkdir -p %s` with the path appended makes a directory named %s elsewhere; links are made in directories that do not exist. |

Other remarks made while modelling are in `hazards`: a solo slice ends the program when empty files
are left on another disk (FatalForEmptyOnly says this is the only way to reach one of the planner's
fatal checks); a solo slice may hold two files more than `--max-files`; empty files with no data
file to go with are never planned (AllPlanned is about files with data). Rows that refreshState marked
(planer.cpp:555) keep their mark when a later disk makes their unsaved slice go; the files wait for the
next scan.

Met in the functions, and modelled as they are:

* Times: str2timestamp reads nanoseconds as 0, so a restored file's mtime differs from the recorded
  one (backup.cpp:1742), and digits with a leading zero as octal (utils.cpp:406).
* Owners: with one data disk grep prints no file name and updateOwners ends with "Bad structure"; the
  owner it stores ends with a newline, the owner of a scan does not, so that the listings of a set-uid
  user find nothing after a rebuild (backup.cpp:1451, 2297). Where the destination has no access
  control lists, a file restored by another user leaves its owner's rights to that user, and
  setfacl is still given the archived owner by number (linux.cpp:352).
* verifySliceFiles is fatal with exactly one slice file, and with two interrupted ones, whose
  placeholder ids collide (backup.cpp:1381).
* Restore: Ctrl-C drops the counts since the last call of monitorRun (backup.cpp:2171). An empty file
  that exists already ends the rest of its slice; descriptors of helper files stay open per slice; without a destination getDiskIndex is called with NULL (backup.cpp:925);
  option `zero` and a lower-case `d<n>` are refused although usage names them (backup.cpp:743, 890).
* Start-up: `--dry h` with an unmounted backup disk is refused in listDisks, and an unmounted disk
  without mountDir is strlen(NULL) (backup.cpp:194); nine data disks leave no cell for a
  destination; OPT_BOOLEAN writes an int over a bool and its neighbours (`store` in ArgParse).
* saveEmptyDirs takes an empty directory `a` beside `a.txt` for not empty (planer.cpp:402); links to a
  disk mounted inside the lost one get the outer disk's prefix.
* prepareForPlan judges slices after the first one it takes apart by single rows (planer.cpp:722).
* generateFileList ignores the result of find (linux.cpp:36); execExternal reports no failure of a
  command that wrote nothing to stderr (linux.cpp:83); getOutputLine closes a suid_popen stream with
  pclose, so its process stays in the list (utils.cpp:673).
* copyConfig: no reserve of the database exists from planer.cpp:609 to the end of a run (proved).
* Two threads that log at once can put a message behind a status bar (logger.cpp:224-228). With one
  thread only SIGINT does, between the bar's text and the store of its offset (proved); the handler's
  text is then behind the bar, and the interrupted message stores an offset that is over.
* The branch of statusBar that would show the current speed is never taken (proved).

## 5. What is proved

All theorems hold for every value of the constants that satisfies the named assumptions of the
module, without bounds on edits, faults or runs.

**ArchiveProofs** (assumptions NoFileAssumption, DisksAssumption, ThreadsAssumption)

* `TypeCorrect`: TypeOK with the conjunct that `disk` is inside the loop while a disk is scanned;
  without it `disk + 1` could leave its range.
* `RowsMatchHeaderHolds`: RowsMatchHeader is inductive given TypeOK, because a slice id is fresh only
  if neither the database nor the backup disk has it, and a header is loaded only where there is
  no row; the lemmas RowsAfterRemoval and RowsAfterDelete cover the actions that remove files or rows.
* `OutdatedForRealHolds`: strengthened by ScanCompared, what refreshState is about to find: a row of
  the scanned disk that differs from a position does so because the file differs. It survives
  edits between loadFileList and the comparison because no version comes back.
* `SyncedAsScannedHolds`: SyncInv follows the rows of a run. A position of a disk already compared is
  the file scanned, or its slice is marked outdated (ComparedRows); behind prepareForSync no outdated
  slice is left, every saved one is on the backup disk, and what was written since is newer than
  the marker and known (PreparedSlices), so the closing refresh reads back what was planned;
  removeSlice takes the rows before the file (RemovedInOrder). It rests on RowsMatchHeader.
* `KnownSlicesHolds`, `OneSlicePerFileHolds`: under `SafeInterrupts` (no Ctrl-C at `open`, during a rebuild
  or at `compare`; no kill at `open`, nor with `--sqliteMode=f` during a rebuild or at `compare`). The
  constants of archive_live satisfy it, and outside it both fail (backup.cpp:415, planer.cpp:442).
  By KnownInv every slice file is described by rows unless a rebuild, running or due, has still to read
  it (HeadersKnown, Unread); a slice file that an interrupted sync left is newer than the marker,
  so start-up finds it (LeftOver); a scanned file that is in a slice is marked while no disk is
  being compared, which keeps the planner from taking it again (RowsMarked); and no two slices
  ever hold one file, so the code for duplicates in checkDuplicated is not reached (Flow).
* `ParityMatchesHeaderHolds`: an action property from ReadInv: a file that is in its planned version
  now was in that version when its bytes were read, so the check before the rename is enough.

**SlicePoolProofs** (assumptions SlicesAssumption, WorkersAssumption, QueueSizeAssumption)

* `PoolInvariant`: the inductive invariant `PoolInv`: types; who holds the lock is the thread inside
  pop (LockInv); cells in use hold distinct jobs (QueueInv); a job read and not yet passed by `tail` is
  still in its cell (PeekInv); where threads have a job (JobInv); waiting, held and written slices
  are apart (PlaceInv).
* `NoEarlyExitHolds`: with ExitInv, a thread that got no job leaves an empty queue behind, and by
  OneWorker a single thread never fails its trylock.
* `NothingForgottenHolds`: CountInv, a counting invariant of runs not cancelled: the queue's length is
  the counted slices, plus those between tail and head, plus the threads that have one (Busy); saved
  and skipped slices are the counted ones plus those saved and not counted yet (Uncounted). At the
  join nobody has a slice (ThreadInv) and NoEarlyExit says that none waits.
* `TypeCorrect`, and `PoolImplements`: every step of the pool is a step of
  JobDispenser or leaves it unchanged; `SlicesInOnePlace`: JobDispenser's OnePlace holds of the pool.
* `CancelStopsHolds` (of CancelledPool, SlicePool with a record of what waited at the cancellation): a
  thread past the test for a cancellation took its slice before it, so by PlaceInv the slice was not
  waiting then; PoolInv is carried over, since every step is a step of SlicePool.

**ParityStreamProofs** (assumptions NDisksAssumption, BufSizeAssumption, PlanAssumption,
DescendingAssumption, ZeroAssumption; of FaultyStream with any MaxFaults for the last)

* `TypeCorrect`: with PlaceInv, which says where a disk is: `got` bytes read are the files before `seq`
  and what is read of it, a request never asks for more than the buffer or the file has left, and
  the parity's request is for all of `plen`. Without it a short read could overrun a buffer.
* `HashOfEveryFileHolds`: HashInv, what is hashed of the file under way is what was read of it, and each
  earlier file with data has its hash. A file has data left exactly while the thread stays in it,
  except for an empty one; behind an empty one there are only empty ones (DescendingAssumption), so a
  disk that stops there has read everything.
* `ParityCompleteHolds`: StepInv. The argument is that all disks are in step although each takes its
  own number of requests for a round: a disk's buffer starts at the smaller of the bytes combined so
  far and the disk's total (LevelInv), so slot k of every buffer holds byte k behind the parity
  written (BufInv), or nothing where the disk has ended; what computeParity combines is then exactly
  that byte of every disk that has one (CombinedInv). Bytes of an earlier, abandoned slice may be in a
  buffer (finding stream_stale): the invariant says so and ParityComplete is about the own ones.
* `NoFalseSkipHolds`: CleanInv, while nothing went wrong no request has failed, every file passed has its hash,
  and the rounds end with the longest disk; so each of the three checks before the rename succeeds.

**PlannerProofs** (assumptions NDisksAssumption, MaxFilesAssumption, SizesAssumption; the files of a
disk are listed largest first, as loadFileList orders newfiles)

* The inductive invariant `PlanInv`: the statistics of the slice under way are those of the rows marked
  and not committed, each of which has one place in it (SliceInv); nothing is left of an earlier
  slice (StartInv); consumedSize claims no more than the rows committed hold (ConsumedInv); maxFilledDisk
  leads (LeadInv) and the hole is what nextDisk lags behind (HoleInv); every disk in use has its
  largest free file in the slice (FirstInv); a disk finished early has no free file that fits
  below any file of the slice (FinInv).
* `FatalForEmptyOnlyHolds`: by ConsumedInv consumedSize never passes the size of the files ("Program BUG").
  "Incorrect sum" cannot come: a turn of fillHole takes a prefix of the free files that fit and files
  are listed largest first, so the hole it leaves is the old one less what it took (TurnFacts). "Not
  processed files" needs a free row that no disk in use has, which is an empty file.
* `FilesLimitHolds`: fillHole tests the limit before it takes a file; the loop of a solo slice tests it
  after, with `>`, and does not count the file the slice was started with, hence `MaxFiles + 2`.
* `MarkedWithSliceHolds`, `AllPlannedHolds`, `FilledToLargestHolds`: action properties from PlanInv; the last
  from FirstInv, which bounds what is free by the files of the slice, and FinInv.
* A chunk of files is taken from the candidates in order (`InOrder`). Instead of an induction over that
  sequence the proof counts: the rank of an element in a finite set of numbers is below the set's
  cardinality and different for different elements, so it takes every value (RanksTaken, Enumerated).

**RestoreProofs** (assumptions DisksAssumption, BufSizeAssumption, PlanAssumption)

* `ExactHolds`: the inductive invariant `RestoreInv` says of the file of T that is open that its work file
  begins with the bytes hashed so far and has nothing behind those of the buffer that are being
  written (WorkInv: `Len(work)` lies between `off` and `off + len`, and is `off + len` once a write of the
  whole buffer has succeeded). So when finishCurrentFile compares the hash, the work file is what
  was hashed; a short write, or a write to a descriptor that is closed, never gets there (WriteInv).
  TargetInv: the open file is one to be restored, and an empty one is saved as it is.
* `SavedAreCountedHolds`: CountInv, the files of the slice at the destination are rows the thread has
  passed (SavedBefore), so that the file it saves next is one more. For Ctrl-C, ToldAreSaved:
  what was told is no more than the files that were there then, and files stay where they are, so
  that dropping the rest (DropCounted) leaves no file reported that is not there.
* `EveryFileCountedHolds`: under `RoomToCount` (CountBound is no smaller than any slice's number of files of
  T, so the model's bound never hides a file). AllInv: what is counted, plus one for a file that is
  Pending, reaches the selected files passed so far. Pending is the file that is open, or that was
  closed unsaved and canceled while the disk was not full: the cancel will count it.
* `TypeOKHolds`: RestInv, the other fields' types on top of the types of RestoreInv. A row's `left` may be
  below 0 (a window before the file), and startAIO asks for nothing then (`nbytes`).
* Nothing is assumed of the buffers' contents, of `start` or of where a window lies: wrong parity, stale
  bytes and helper files that changed are all caught by the hash. Its check is the one guard the
  proof cannot do without, and `wrongHash` takes the hash for collision-free.

**SumTheorems** - lemmas that ParityStreamProofs, PlannerProofs and RestoreProofs rest on: sums over finite sets
(`SumFunctionOnSet` of the community modules) unfold, add up over disjoint sets and grow with them. The
library's definition is a recursion that the provers cannot unfold, and its induction theorems cannot
be cited; NatInduct and SubsetInduct say the same of sets (a set of numbers or of subsets that holds
the first and is closed under the step holds all), proved by a smallest counterexample.

**SqlProofs** - `DatabaseComplete` and `DatabaseCommitted`: changes that are not durable are those of an
open transaction, none survives the end of the program, and what a later start finds changes only
by a commit or outside a transaction, whatever statements fail and whenever.

**UtilityProofs** - `PartsAddUp`, `HoursAddUp`: printed sizes and times add up. `BarMoves`: before the end of
a run the bar moves within one second only after more than a megabyte of data, and always after
more than a gigabyte; `MeanSpeedOnly` with `SpeedStart`: the current speed is
never shown; `ReserveGap`, `ReserveIsCurrent`: what the two copies of the control files leave in the
configuration directory. `BlockHashOneShot`: the hash of a file that is fed in any number of pieces of
any length is that of the file in one block, the general form of StreamIsOneShot. The state after
each piece has consumed the whole stripes of what was fed and holds the rest (Fed); a piece that only
fills the buffer (UpdateKeeps) and one that completes it (UpdateTakes) both keep this, and
MoreStripes adds stripes to a run of them. `ReadsWhole` and `WritesWhole`: the general form of WholeOrError,
from what the calls so far have moved (Moved). `OneThreadGlues`: with one thread a text is put behind a
status bar only where SIGINT interrupted log_log between the bar's text and the store of its offset.
The invariant relates the table's lineOffset to the stream's cursor, except while the thread - in the
message it logs, or in the one SIGINT has interrupted - carries the result back to the table.

Sql, Logger, Progress and Shell have no run: their theorems hold for every value of the constants, and
for the last two there is no step to interleave.

Only model-checked:

* OnlyListedAreLost of Restore. It holds only if the files of every disk lie end to end in the slice,
  which Restore does not assume, and is about the arithmetic of windows and the bytes combined in
  the parity, an invariant of its own.
* The functions evaluated in initial states: OptionsAnywhere, ReadyIsConsistent, LinksRestored, FilterSelects,
  QuotedIsOneWord, OwnersAgree, AclKeepsRights, JudgedByOwnSizes, HeaderFaithful. They compare
  folds and recursive functions over a list of words, lines or rows with a definition of another form,
  which takes an induction over that list. StreamIsOneShot and WholeOrError are the bounded forms
  of theorems above.
* Liveness under fairness, out of the prover's reach: EventuallyProtected, Joins, EndsOrGivesUp and
  every Finishes.

## 6. Not modelled

* The producer side of JobQueue (push, QUEUE_RUN, the condition variable): the program fills both
  queues before the threads start.
* The rest of xxhash.h (XXH32, XXH3, vector code) and rapidhash.h: vendored, never called. SQLite, find,
  sort, grep, getfacl, setfacl, mkdir and the kernel are external and modelled from their use.
* hexdump, stdDeviation, checkTimestamp, the usage texts, setting up of log files, wording of messages.
* updateOwners, verifySliceFiles and the copies of the control files are functions here and not steps
  of Archive: no property of Archive depends on them.
* Dry runs, `maxSlices` (tests only), not-owner lists, and what section 3 names for each module.
