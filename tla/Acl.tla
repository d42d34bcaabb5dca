-------------------------------- MODULE Acl --------------------------------
(***************************************************************************)
(* Owners and access control lists.  A sync writes D<idx>.acl for every    *)
(* disk: the path the disk is mounted at, then what getfacl prints for     *)
(* each file (genACLfile).  updateOwners copies the owners into slpos,     *)
(* getFileOwner looks one up, restoreACL gives a restored file what its    *)
(* block says - or, for a user who does not own it, what that user can.    *)
(*                                                                         *)
(* A line is [key, val, perm]: key is "disk", "file", "owner", "group" for *)
(* the comments; "user", "group_", "other", "mask" for entries, whose val  *)
(* is the qualifier (-1: none); "blank" between blocks.                    *)
(***************************************************************************)
EXTENDS Paths, TLC

Text(key, val, perm) == [key |-> key, val |-> val, perm |-> perm]
Entries == {"user", "group_", "other", "mask"}

\* Block of one file as getfacl -n prints it
getfacl(path, f) ==
    <<Text("file", path, ""), Text("owner", f.owner, ""), Text("group", f.group, ""),
      Text("user", -1, f.user)>> \o f.named
    \o <<Text("group_", -1, f.grp), Text("other", -1, f.other), Text("blank", <<>>, "")>>

\* path: where disk i is mounted; list: its files, D<idx>acl.list; has: their attributes
genACLfile(i, path, list, has) ==
    <<[key |-> "disk", val |-> path, perm |-> "", id |-> diskId(i)]>> \o FlattenSeq([k \in DOMAIN list |-> getfacl(list[k], has[list[k]])])

\* Mutant: a path that begins with the one looked for is found as well
prefixInFile(f, path) == {i \in DOMAIN f : f[i].key = "file" /\ isPrefix(path, f[i].val)}

\* Lines of the file that name path
pathInFile(f, path) == {i \in DOMAIN f : f[i].key = "file" /\ f[i].val = path}

\* Place of the line of D<idx>/path; 0: not found.  The path is the one of the file's first line.
locateInACL(f, name) ==
    LET path  == f[1].val \o Tail(strchr(name, Sep))
        found == pathInFile(f, path)
    IN IF f = <<>> THEN 0 ELSE IF f[1].key # "disk" \/ found = {} THEN 0 ELSE Min(found)

\* -1: not known
getFileOwner(f, name) ==
    LET at == locateInACL(f, name)
    IN IF at = 0 \/ at = Len(f) THEN -1
       ELSE IF f[at + 1].key = "owner" THEN f[at + 1].val ELSE -1

\* The lines filterLines keeps of all the files, each behind the name of its file - unless
\* there is one file only, which grep does not name
filterLines(files, keys) ==
    FlattenSeq([i \in 1..Cardinality(DOMAIN files) |->
                  LET f == files[SetToSortSeq(DOMAIN files, <)[i]]
                  IN [k \in 1..Len(SelectSeq(f, LAMBDA l : l.key \in keys)) |->
                        [line  |-> SelectSeq(f, LAMBDA l : l.key \in keys)[k],
                         named |-> Cardinality(DOMAIN files) > 1]]])

\* The text fgets leaves in the line: it ends with the newline
Stored(val) == <<val, "newline">>

\* One line after the other; a file's owner has to be on the line behind it.  disk: where the
\* disks are mounted now.  path is the key of file_owners.
ownerOf(disk, st, l) ==
    CASE \/ ~l.named
         \/ (st.file # <<>>) # (l.line.key = "owner")
         \/ l.line.key = "owner" /\ st.file \in DOMAIN st.owner -> [st EXCEPT !.fatal = TRUE]
      [] l.named /\ st.file = <<>> /\ l.line.key = "disk" -> [st EXCEPT !.disk = getDiskIndex(l.line.id)]
      [] l.named /\ st.file = <<>> /\ l.line.key = "file" ->
           [st EXCEPT !.file = disk2prefix(disk, st.disk, l.line.val)]
      [] OTHER -> [st EXCEPT !.owner = st.file :> Stored(l.line.val) @@ @, !.file = <<>>]

updateOwners(files, disk) ==
    LET one(st, l) == IF st.fatal THEN st ELSE ownerOf(disk, st, l)
        st == FoldLeft(one, [disk |-> 0, file |-> <<>>, owner |-> <<>>, fatal |-> FALSE],
                       filterLines(files, {"disk", "file", "owner"}))
    IN [st EXCEPT !.fatal = @ \/ st.file # <<>>]

\* UPDATE slpos SET owner FROM file_owners
setOwners(rows, owner) ==
    {IF r.fpath \in DOMAIN owner THEN [r EXCEPT !.owner = owner[r.fpath]] ELSE r : r \in rows}

----------------------------------------------------------------------------
(* restoreACL                                                              *)

\* Lines behind the one at place at, up to the next file
Block(f, at) ==
    LET next == {k \in DOMAIN f : k > at /\ f[k].key = "file"}
    IN SubSeq(f, at + 1, IF next = {} THEN Len(f) ELSE Min(next) - 1)

\* The entries of the archived owner and group, to be granted by name as well
AsOwner(st, l) == l.key = "user" /\ l.val = -1 /\ st.fowner > 0
AsGroup(st, l) == l.key = "group_" /\ l.val = -1 /\ st.fgroup > 0

\* Mutant: what the owner could do is left to the new owner only
emulateForUser(st, l, user, supported) ==
    CASE l.key = "owner" /\ user > 0 /\ l.val # user -> [st EXCEPT !.fowner = l.val, !.rv = -1]
      [] l.key = "group" /\ user > 0 /\ st.fowner > 0 -> [st EXCEPT !.fgroup = l.val, !.rv = -1]
      [] l.key \in Entries \ {"other"} /\ st.fowner > 0 /\ ~supported -> st
      [] OTHER -> [st EXCEPT !.out = Append(@, l)]

\* user: effective user, 0 is root; supported: ACLs are, at the destination.  A line "user::"
\* is followed by one that names the owner, "group::" by one that names the group; "user:n:"
\* is an entry like any other.
emulate(st, l, user, supported) ==
    CASE l.key = "owner" /\ user > 0 /\ l.val # user -> [st EXCEPT !.fowner = l.val, !.rv = -1]
      [] l.key = "group" /\ user > 0 /\ st.fowner > 0 -> [st EXCEPT !.fgroup = l.val, !.rv = -1]
      [] AsOwner(st, l) -> [st EXCEPT !.out = @ \o <<l, [l EXCEPT !.val = st.fowner]>>]
      [] AsGroup(st, l) -> [st EXCEPT !.out = @ \o <<l, [l EXCEPT !.val = st.fgroup]>>]
      [] /\ l.key \notin {"owner", "group", "other"} /\ ~AsOwner(st, l) /\ ~AsGroup(st, l)
         /\ st.fowner > 0 /\ ~supported -> st
      [] OTHER -> [st EXCEPT !.out = Append(@, l)]

\* What setfacl --restore is given for the restored file (<<>>: it is not run), and rv.
\* An owner that is root has no number to be named by: fowner is not positive.
restoreACL(f, name, wfile, user, supported) ==
    LET at  == locateInACL(f, name)
        one(st, l) == emulate(st, l, user, supported)
        st  == FoldLeft(one, [fowner |-> -1, fgroup |-> -1, rv |-> 0,
                              out |-> <<Text("file", wfile, "")>>], Block(f, at))
    IN IF at = 0 THEN [out |-> <<>>, rv |-> -1]
       ELSE [out |-> IF st.rv = 0 \/ st.fowner > 0 \/ st.fgroup > 0 THEN st.out ELSE <<>>, rv |-> st.rv]
=============================================================================
