-------------------------------- MODULE Shell --------------------------------
(***************************************************************************)
(* Programs the backup runs through a shell (linux.cpp), and the files it  *)
(* keeps with their help: the list of a disk, temporary files, the copy of *)
(* the control files in the configuration directory.                       *)
(*                                                                         *)
(* Files are a set of paths [dir, name, of, regular]: of is what is in it. *)
(* A run of a program is its exit (a status, -1: by a signal), what it     *)
(* writes to stderr (TRUE: something) and the files it leaves.             *)
(***************************************************************************)
EXTENDS Integers, FiniteSets

TEMP_SUBDIR == ".parity_backup_temp/"

\* The state of the program as far as it is touched here
World(files, fatal, warned) == [files |-> files, fatal |-> fatal, warned |-> warned]

\* A program that cannot be started, or that does not exit, ends this one
runSystem(exit) == IF exit < 0 THEN [fatal |-> TRUE, rv |-> 0] ELSE [fatal |-> FALSE, rv |-> exit]

\* Files of the run are created with the bits of mask cleared
setExecUmask(mode, mask) == mode \ mask

\* Temporary files go to the target of a restore, and else to the working directory
tempDir(config) == [dir |-> IF config.cmd = "RESTORE" THEN config.restorePath ELSE config.workDir,
                    sub |-> TEMP_SUBDIR]

\* unique: the name mkstemps found
openTempFD(files, config, unique, refused, fatal) ==
    IF refused THEN [fd |-> IF fatal THEN "fatal" ELSE "none", files |-> files]
    ELSE [fd |-> unique, files |-> files \cup {[dir |-> tempDir(config), name |-> unique, of |-> {}, regular |-> TRUE]}]

unlinkTmp(files, name) == {f \in files : f.name # name}

\* The temporary file for stderr is there while the program runs and is gone after it.  What
\* it wrote there is a warning; a status alone is not.
execExternal(files, run, unreadable) ==
    LET r == runSystem(run.exit)
    IN [rv |-> IF run.stderr /\ unreadable THEN -1 ELSE r.rv,
        world |-> World(run.files, r.fatal \/ (run.stderr /\ unreadable), run.stderr)]

\* find: what it is asked for of the disk: files it can read, on the disk itself, outside the
\* program's own directories and what the configuration excludes.  missed: entries it could
\* not look at, which it writes to stderr.  The status is that of sort, and not looked at.
generateFileList(entries, missed, excluded) ==
    LET list == {e \in entries \ missed : e.mounted /\ e.readable /\ e.path \notin excluded}
    IN [list |-> list, fatal |-> FALSE, warned |-> missed # {}]

\* The paths of a directory that are copied: named, and there.  What cannot be copied is an
\* error message.
copyFiles(files, srcDir, names, dst, refused) ==
    LET src == {f \in files : f.dir = srcDir /\ f.name \in names /\ f.name \notin refused}
        new == {[f EXCEPT !.dir = dst] : f \in src}
        old == {f \in files : f.dir = dst /\ \E n \in new : n.name = f.name}
    IN IF srcDir = dst THEN files ELSE (files \ old) \cup new

\* Regular files of the directory that match are removed.  1: there is no such directory; one
\* that is not a directory, or files that stay, end the program.
cleanDir(files, dirs, notDirs, dir, matches, refused) ==
    IF dir \notin dirs THEN [rv |-> 1, fatal |-> FALSE, files |-> files]
    ELSE LET gone == {f \in files : f.dir = dir /\ f.regular /\ f.name \in matches}
         IN [rv |-> 0, fatal |-> dir \in notDirs \/ refused \cap gone # {},
             files |-> IF dir \in notDirs THEN files ELSE files \ (gone \ refused)]

\* The temporary directory is emptied, or made for everyone (umask 0)
clearWorkDir(config, files, dirs, notDirs, all, refused, mkdirFails) ==
    LET c == cleanDir(files, dirs, notDirs, tempDir(config), all, refused)
    IN [fatal |-> c.fatal \/ (c.rv # 0 /\ mkdirFails), files |-> c.files,
        dirs |-> IF c.rv # 0 /\ ~mkdirFails THEN dirs \cup {tempDir(config)} ELSE dirs]

\* The control files: the database, lists of files, access rights and links, and the configuration
Control == {"database", "files", "acl", "lnk"}
Conf    == {"conf"}

\* The configuration directory is emptied first.  For the copy to a backup disk that is only
\* simulated source and destination are one text: every file is copied to itself.
copyConfig(config, files, dirs, notDirs, all, confOnly, dryBackup, refused) ==
    LET names == IF confOnly THEN Conf ELSE Control \cup Conf
        clean == cleanDir(files, dirs, notDirs, config.configDir, all, {})
    IN IF config.workDir = config.configDir \/ dryBackup THEN World(files, FALSE, FALSE)
       ELSE World(copyFiles(clean.files, config.workDir, names, config.configDir, refused),
                  clean.fatal, names \cap refused # {})
=============================================================================
