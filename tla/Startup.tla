------------------------------ MODULE Startup ------------------------------
(***************************************************************************)
(* initProgram and readConfigFile (backup.cpp): from the command line, the *)
(* configuration file and the disks found to a CONFIG the commands run     *)
(* with.  Each stage maps a configuration to the next one; the first stage *)
(* that ends the program decides: "exit" and "fatal" say why, "undefined"  *)
(* is a NULL dereference or an access behind diskDesc.                     *)
(*                                                                         *)
(* A path is a sequence of characters and names; an unmounted disk is one  *)
(* whose path statvfs does not find.  Messages and log files are left out. *)
(***************************************************************************)
EXTENDS ArgParse

CONSTANTS
    MaxDisks,   \* MAX_DISKS: the backup disk has the last cell until the data disks are known
    UUIDs,      \* UUID -> path it is mounted at, or None
    Device,     \* path -> device, for the paths there are (they end in a separator)
    ConfigAt    \* directories with a configuration file

P == INSTANCE Paths

None   == <<>>
Backup == MaxDisks - 1
SubDir == <<".parity-backup/">>
DefaultConfigDir == <<"/", "parity-backup/">>
NoDisk == [id |-> None, path |-> None, mountDir |-> None, mounted |-> FALSE, f_sid |-> 0]
Exists(path) == path \in DOMAIN Device

\* findmnt finds a mount point only for a path there is
getMountDir(path) == CASE path \in DOMAIN UUIDs -> UUIDs[path]
                       [] path \notin DOMAIN UUIDs /\ Exists(path) -> path
                       [] OTHER -> None

getDiskStat(path) ==
    LET at == IF path \in DOMAIN UUIDs /\ UUIDs[path] # None THEN UUIDs[path] ELSE path
    IN [NoDisk EXCEPT !.path = at, !.mountDir = getMountDir(path), !.mounted = Exists(at),
                      !.f_sid = IF Exists(at) THEN Device[at] ELSE 0]

----------------------------------------------------------------------------
End(c, how) == IF c.end = "" THEN [c EXCEPT !.end = how] ELSE c
FatalIf(c, cond) == IF c.end = "" /\ cond THEN [c EXCEPT !.end = "fatal"] ELSE c

Commands == {"plan", "sync", "restore", "show"}

\* What the command line says: argc and argv are those argparse_parse left
Given(argv) ==
    LET p == argparse_parse(argv, {"acl"})
    IN [arg |-> p, out |-> p.out, end |-> IF p.exit THEN "exit" ELSE "",
        cmd |-> "", restoreDest |-> None, restoreDiskId |-> None, patterns |-> None,
        replace |-> -1, flat |-> FALSE, acl |-> TRUE, owner |-> -1, dry |-> "",
        disks |-> 0, diskDesc |-> [i \in 0..MaxDisks |-> NoDisk],
        workDir |-> None, parityDir |-> None]

field(c, f) == c.arg.opt[f]

getCommand(c) ==
    IF c.end # "" THEN c
    ELSE IF On(c.arg, "help") \/ c.out = <<>> \/ c.out[1] \notin {<<w>> : w \in Commands}
    THEN End(c, "exit")
    ELSE FatalIf([c EXCEPT !.cmd = c.out[1][1]],
                 field(c, "sqliteMode") # None /\ field(c, "sqliteMode")[1] \notin {"r", "f"})

\* D<n>=dest: the id is stored with the destination only
commandArguments(c) ==
    IF c.end # "" THEN c
    ELSE IF Len(c.out) < 2 THEN FatalIf(c, c.cmd \in {"restore", "show"})
    ELSE IF c.cmd # "restore" THEN c
    ELSE LET arg   == c.out[2]
             eq    == {i \in DOMAIN arg : arg[i] = "="}
             disk  == IF eq = {} THEN arg ELSE SubSeq(arg, 1, (CHOOSE i \in eq : TRUE) - 1)
             index == P!getDiskIndex(Append(disk, "/"))
             saved == P!savePatterns(SubSeq(c.out, 3, Len(c.out)), Append(P!diskId(index), "/"))
         IN FatalIf([c EXCEPT !.restoreDiskId = IF eq = {} THEN None ELSE disk,
                              !.restoreDest   = IF eq = {} THEN None ELSE SubSeq(arg, Len(disk) + 2, Len(arg)),
                              !.patterns      = saved.patterns \o saved.regex],
                    saved.fatal)

\* One of the options separated by commas; zero is stored and then found illegal
roption(c, t) ==
    CASE t \in {"repl", "replace"} -> [c EXCEPT !.replace = 1]
      [] t = "flat"                -> [c EXCEPT !.flat = TRUE]
      [] t = "noacl"               -> [c EXCEPT !.acl = FALSE]
      [] t = "owner"               -> [c EXCEPT !.owner = 0]
      [] OTHER                     -> End([c EXCEPT !.replace = IF t = "zero" THEN 0 ELSE @], "fatal")

restoreOptions(c) ==
    IF c.end # "" THEN c
    ELSE LET set == FoldLeft(LAMBDA st, t : IF st.end = "" THEN roption(st, t) ELSE st, c,
                             SelectSeq(field(c, "options"), LAMBDA t : t # ","))
             dry == field(c, "dryOption")
         IN FatalIf([set EXCEPT !.dry = IF dry = None THEN "" ELSE dry[1],
                                !.diskDesc[Backup] = IF field(c, "backup") = None THEN @
                                                     ELSE getDiskStat(field(c, "backup"))],
                    dry # None /\ dry[1] \notin {"r", "h", "c"})

----------------------------------------------------------------------------
(* readConfigFile                                                          *)

configDir(c) == IF field(c, "configDir") = None THEN DefaultConfigDir ELSE field(c, "configDir")

\* Which file is read.  file: the one in the arguments of plan and sync can be opened
findConfig(c, file) ==
    LET named == c.cmd \in {"plan", "sync"} /\ Len(c.out) > 1
        desc  == c.diskDesc[Backup]
        sub   == desc.path \o SubDir
        found == \/ named
                 \/ IF desc.path # None
                    THEN sub \in ConfigAt \/ (c.dry # "" /\ c.cmd = "sync" /\ configDir(c) \in ConfigAt)
                    ELSE configDir(c) \in ConfigAt
        work  == IF desc.path # None THEN sub ELSE IF named THEN None ELSE configDir(c)
    IN IF c.end # "" THEN c
       ELSE FatalIf([c EXCEPT !.workDir = work,
                              !.diskDesc[Backup].path = IF desc.path = None THEN @ ELSE sub,
                              !.parityDir = IF desc.path = None THEN None ELSE sub],
                    \/ named /\ ~file
                    \/ desc.path # None /\ ~desc.mounted
                    \/ ~found)

backupLine(c, val) ==
    LET wrk == [getDiskStat(val) EXCEPT !.path = @ \o SubDir]
    IN IF c.parityDir = None
       THEN [c EXCEPT !.diskDesc[Backup] = wrk, !.parityDir = wrk.path]
       ELSE FatalIf(c, c.parityDir # wrk.path /\ ~(c.dry # "" /\ c.cmd = "sync"))

\* Mutant: the disk takes the next cell, whatever its number
diskLineNext(c, key, val) ==
    LET did == P!getDiskIndex([key EXCEPT ![1] = "D"])
    IN IF c.disks >= MaxDisks \/ did >= MaxDisks \/ did < 0 \/ c.diskDesc[c.disks].path # None
       THEN End(c, "fatal")
       ELSE [c EXCEPT !.disks = @ + 1,
                      !.diskDesc[c.disks] = [getDiskStat(val) EXCEPT !.id = P!diskId(did)]]

diskLine(c, key, val) ==
    LET did == P!getDiskIndex([key EXCEPT ![1] = "D"])
    IN IF c.disks >= MaxDisks \/ did >= MaxDisks \/ did < 0 \/ c.diskDesc[did].path # None
       THEN End(c, "fatal")
       ELSE [c EXCEPT !.disks = @ + 1,
                      !.diskDesc[did] = [getDiskStat(val) EXCEPT !.id = P!diskId(did)]]

\* Comments and blank lines are skipped, exclusions do not concern the disks; a line without
\* "=" ends the file and is fatal
configLine(c, line) ==
    CASE c.end # "" \/ line.key[1] \in {"#", " "} -> c
      [] c.end = "" /\ line.key[1] \notin {"#", " "} /\ ~line.eq -> End(c, "fatal")
      [] c.end = "" /\ line.eq /\ line.key[1] \in {"b", "B"} -> backupLine(c, line.val)
      [] c.end = "" /\ line.eq /\ line.key[1] \in {"d", "D"} -> diskLine(c, line.key, line.val)
      [] OTHER -> c

\* Mutant: a missing disk below the highest number is not noticed
placeAnyway(c) ==
    IF c.end # "" THEN c
    ELSE IF c.diskDesc[Backup].path = None THEN End(c, "fatal")
    ELSE LET desc == [c.diskDesc EXCEPT ![c.disks] = c.diskDesc[Backup]]
         IN [c EXCEPT !.diskDesc = [desc EXCEPT ![c.disks].id = <<"BCK">>],
                      !.workDir = IF desc[c.disks].mounted THEN c.parityDir ELSE @]

\* The backup disk is copied behind the data disks
placeBackup(c) ==
    IF c.end # "" THEN c
    ELSE IF c.diskDesc[Backup].path = None THEN End(c, "fatal")
    ELSE LET desc == [c.diskDesc EXCEPT ![c.disks] = c.diskDesc[Backup]]
         IN FatalIf([c EXCEPT !.diskDesc = [desc EXCEPT ![c.disks].id = <<"BCK">>],
                              !.workDir = IF desc[c.disks].mounted THEN c.parityDir ELSE @],
                    \E i \in 0..c.disks : desc[i].path = None)

\* Line after line
readConfigFile(c, lines) == FoldLeft(configLine, c, lines)

----------------------------------------------------------------------------
(* The checks at the end of initProgram                                    *)

\* The cell behind the backup disk is the last one or none; getDiskIndex(NULL) is undefined
restoreDisk(c) ==
    IF c.end # "" \/ c.cmd # "restore" THEN c
    ELSE IF c.restoreDiskId = None \/ c.disks + 1 >= MaxDisks THEN End(c, "undefined")
    ELSE LET index == P!getDiskIndex(c.restoreDiskId)
             dest  == [getDiskStat(c.restoreDest) EXCEPT !.id = <<"RST">>]
         IN IF index < 0 \/ index >= c.disks THEN End(c, "fatal")
            ELSE [c EXCEPT !.diskDesc = [@ EXCEPT ![c.disks + 1] = dest, ![index].path = c.restoreDest]]

\* A UUID that is not mounted has the subdirectory behind it, and is none any more
checkBackup(c) ==
    LET rebuild == field(c, "sqliteMode") # None /\ field(c, "sqliteMode")[1] = "r"
    IN IF c.end # "" THEN c
       ELSE IF c.diskDesc[Backup].path[1] # "/" THEN End(c, "fatal")
       ELSE IF c.diskDesc[c.disks].mounted THEN c
       ELSE IF c.cmd = "sync"
       THEN FatalIf([c EXCEPT !.diskDesc[c.disks].path = c.workDir], c.dry # "h")
       ELSE FatalIf(c, rebuild \/ c.cmd = "restore")

\* Mutant: the backup disk is not compared with the data disks
duplicatedData(c, i) ==
    {k \in 0..(c.disks - 1) : k # i /\ c.diskDesc[k].f_sid = c.diskDesc[i].f_sid /\ i < c.disks}

\* The first cell with the same device
duplicatedDevice(c, i) ==
    {k \in 0..c.disks : k # i /\ c.diskDesc[k].f_sid = c.diskDesc[i].f_sid}

Refused(c, i) ==
    IF c.diskDesc[i].mounted
    THEN c.cmd = "sync" /\ ~On(c.arg, "allowSameDevices") /\ duplicatedDevice(c, i) # {}
    ELSE /\ c.cmd \in {"sync", "restore"}
         /\ ~(c.restoreDest # None /\ i = P!getDiskIndex(c.restoreDiskId))

\* Disk by disk: the length of mountDir is taken before the message is given
listDisks(c) ==
    LET last  == IF c.restoreDest # None THEN c.disks + 1 ELSE c.disks
        stops == {i \in 0..last : c.diskDesc[i].mountDir = None \/ Refused(c, i)}
        first == CHOOSE i \in stops : \A j \in stops : i <= j
    IN IF c.end # "" \/ stops = {} THEN c
       ELSE End(c, IF c.diskDesc[first].mountDir = None THEN "undefined" ELSE "fatal")

\* --buffer-size in MB, 16 at most
checkSizes(c) ==
    LET size == field(c, "fileBufferSize")
    IN FatalIf(c, size # None /\ Number[size[1]] > 16)

\* restore to a flat directory needs one
restoreFlat(c) == FatalIf(c, c.cmd = "restore" /\ c.flat /\ c.restoreDest = None)

\* Stage after stage
initProgram(argv, file, lines) ==
    LET stage(c, s) == CASE s = 1 -> getCommand(c)
                         [] s = 2 -> commandArguments(c)
                         [] s = 3 -> restoreOptions(c)
                         [] s = 4 -> findConfig(c, file)
                         [] s = 5 -> readConfigFile(c, lines)
                         [] s = 6 -> placeBackup(c)
                         [] s = 7 -> restoreDisk(c)
                         [] s = 8 -> checkBackup(c)
                         [] s = 9 -> restoreFlat(c)
                         [] s = 10 -> listDisks(c)
                         [] s = 11 -> checkSizes(c)
                         [] s = 12 -> End(c, "ready")
    IN FoldLeft(stage, Given(argv), [s \in 1..12 |-> s])
=============================================================================
