------------------------------- MODULE Links -------------------------------
(***************************************************************************)
(* What is not a file of a slice: symbolic links, hard links and empty     *)
(* directories.  A sync finds them while it loads the file list of a disk  *)
(* (loadFileList) and writes them to D<idx>.lnk; loadLinks keeps them in   *)
(* the table links; restoreSpecial creates them again, with the            *)
(* directories above them (restoreDirs).                                   *)
(***************************************************************************)
EXTENDS Paths

CONSTANT Chars  \* characters in the order the database compares them

Rank(c) == CHOOSE i \in DOMAIN Chars : Chars[i] = c

\* name > ? of the SELECT
less(a, b) ==
    \/ IsStrictPrefix(a, b)
    \/ \E i \in DOMAIN a \cap DOMAIN b : /\ UpTo(a, i - 1) = UpTo(b, i - 1)
                                         /\ Rank(a[i]) < Rank(b[i])

dirname(p) == IF Places(p, Sep) = {} THEN <<>> ELSE UpTo(p, Max(Places(p, Sep)) - 1)

Line(ftype, link, target) == [ftype |-> ftype, link |-> link, target |-> target]

----------------------------------------------------------------------------
(* Scan of a disk.  An entry of its list has type, path, inode, readable   *)
(* and, for a link, the target realpath finds (<<>>: none).                *)

saveSpecialFile(disk, lnk, e) ==
    IF e.type = "l" /\ e.target = <<>> THEN lnk
    ELSE Append(lnk, Line(e.type, path2prefix(disk, e.path),
                          IF e.type = "l" THEN path2prefix(disk, e.target) ELSE <<>>))

\* Mutant: the names of a hard link are swapped
loadEntrySwapped(disk, i, st, e) ==
    LET name == disk2prefix(disk, i, e.path)
    IN CASE e.path = disk[i] \/ ~e.readable -> st
         [] e.path # disk[i] /\ e.readable /\ e.inode = st.lastInode ->
              [st EXCEPT !.lnk = Append(@, Line("h", st.lastPath, name))]
         [] e.path # disk[i] /\ e.readable /\ e.inode # st.lastInode /\ e.type = "l" ->
              [st EXCEPT !.lnk = saveSpecialFile(disk, @, e), !.acl = Append(@, name)]
         [] OTHER -> [st EXCEPT !.acl = Append(@, name), !.lastInode = e.inode, !.lastPath = name,
                                !.newfiles = @ \cup {[name |-> name, type |-> e.type]}]

\* The list is sorted by size, inode and path: names of one file follow each other
loadEntry(disk, i, st, e) ==
    LET name == disk2prefix(disk, i, e.path)
    IN CASE e.path = disk[i] \/ ~e.readable -> st
         [] e.path # disk[i] /\ e.readable /\ e.inode = st.lastInode ->
              [st EXCEPT !.lnk = Append(@, Line("h", name, st.lastPath))]
         [] e.path # disk[i] /\ e.readable /\ e.inode # st.lastInode /\ e.type = "l" ->
              [st EXCEPT !.lnk = saveSpecialFile(disk, @, e), !.acl = Append(@, name)]
         [] OTHER -> [st EXCEPT !.acl = Append(@, name), !.lastInode = e.inode, !.lastPath = name,
                                !.newfiles = @ \cup {[name |-> name, type |-> e.type]}]

\* The next name after that of the directory, if it is a file, decides
IsEmptyDir(newfiles, dir) ==
    LET after == {r \in newfiles : r.type = "f" /\ less(dir, r.name)}
        next  == CHOOSE r \in after : \A q \in after : r = q \/ less(r.name, q.name)
    IN after = {} \/ ~isPrefix(dir, next.name)

saveEmptyDirs(newfiles, lnk) ==
    lnk \o SetToSeq({Line("d", r.name, <<>>) :
                       r \in {q \in newfiles : q.type = "d" /\ IsEmptyDir(newfiles, q.name)}})

\* loadFileList of a sync
loadFileList(disk, i, entries) ==
    LET one(st, e) == loadEntry(disk, i, st, e)
        st == FoldLeft(one, [newfiles |-> {}, lnk |-> <<>>, acl |-> <<>>,
                             lastInode |-> 0, lastPath |-> <<>>], entries)
    IN [st EXCEPT !.lnk = saveEmptyDirs(st.newfiles, @)]

\* The rows of the disk are replaced by the lines of its file
loadLinks(links, i, lnk) ==
    SelectSeq(links, LAMBDA r : ~isPrefix(diskId(i), r.link)) \o lnk

----------------------------------------------------------------------------
(* Restore.  dirs: the directories there are; a path has no separator at   *)
(* its end.                                                                *)

Above(p) == {UpTo(p, k - 1) : k \in Places(p, Sep) \ {1}} \cup {p}

\* mkdir -p: a name that does not begin with a separator is one below cwd
mkdir(dirs, cwd, name) ==
    dirs \cup Above(IF name[1] = Sep THEN name ELSE cwd \o <<Sep>> \o name)

\* dest ends in a separator.  The name is put behind the "%s" of the command.
restoreDirs(dirs, cwd, dest, name, withLast) ==
    LET dir  == IF withLast THEN name ELSE dirname(name)
        path == dest \o Tail(strchr(dir, Sep))
    IN IF Places(dir, Sep) = {} \/ path \in dirs THEN dirs
       ELSE mkdir(dirs, cwd, <<"%", "s">> \o path)

\* symlink and link fail if the directory is not there or the name is taken; a link whose
\* directory was not created is given up as well.  st: dirs, calls and made of restoreSpecial
restoreLink(st, disk, cwd, dest, r) ==
    LET dirs == restoreDirs(st.dirs, cwd, dest, r.link, r.ftype = "d")
        path == dest \o Tail(strchr(r.link, Sep))
        call == [path |-> path, to |-> prefix2path(disk, r.target), hard |-> r.ftype = "h"]
    IN IF r.ftype \notin {"l", "h"} THEN [st EXCEPT !.dirs = dirs]
       ELSE [dirs |-> dirs, calls |-> st.calls \cup {call},
             made |-> IF dirname(path) \in dirs /\ \A m \in st.made : m.path # path
                      THEN st.made \cup {call} ELSE st.made]

restoreSpecial(links, id, filter, owner, ownerOf, disk, cwd, dest, dirs) ==
    FoldLeft(LAMBDA st, r :
               IF isPrefix(id, r.link) /\ pathMatchPattern(filter, r.link, owner, ownerOf[r.link])
               THEN restoreLink(st, disk, cwd, dest, r) ELSE st,
             [dirs |-> dirs, calls |-> {}, made |-> {}], links)
=============================================================================
