------------------------------ MODULE AclCases ------------------------------
(* Files with owners and access control lists for Acl.                     *)
EXTENDS Acl

\* Names that begin with each other
Names == {<<"f">>, <<"f", "x">>, <<"d", "/", "f">>, <<"d", "/", "f", "x">>}
Disks == [i \in 0..1 |-> IF i = 0 THEN <<"/", "a", "/">> ELSE <<"/", "a", "/", "d", "/">>]

Has(owner, group, named) ==
    [owner |-> owner, group |-> group, user |-> "rw", grp |-> "r", other |-> "", named |-> named]

Named == {<<>>, <<Text("user", 7, "w")>>, <<Text("user", 7, "w"), Text("mask", -1, "rw")>>}
Attributes == {Has(o, g, n) : o \in {0, 5, 6}, g \in {0, 8}, n \in Named}

InOrder(S) == SetToSortSeq(S, LAMBDA p, q : Len(p) < Len(q) \/ (Len(p) = Len(q) /\ p[1] = "f"))

\* D<idx>.acl of disk i with the files of S
AclFile(i, S, has) == genACLfile(i, Disks[i], [k \in 1..Cardinality(S) |-> Disks[i] \o InOrder(S)[k]],
                                 [p \in {Disks[i] \o n : n \in S} |-> has[p]])
NameOf(i, n) == diskId(i) \o <<Sep>> \o n
Everywhere == {Disks[i] \o n : i \in DOMAIN Disks, n \in Names}

\* Owners that differ from file to file, the first one 0, 5 or 6
Owners(o) == [p \in Everywhere |-> Has((o + Len(p)) % 7, 8, <<>>)]

Disagree == {<<S, T, o>> \in (SUBSET Names) \X (SUBSET Names) \X {0, 5, 6} :
    LET files == [i \in DOMAIN Disks |-> AclFile(i, IF i = 0 THEN S ELSE T, Owners(o))]
        all   == updateOwners(files, Disks)
        names == {NameOf(0, n) : n \in S} \cup {NameOf(1, n) : n \in T}
    IN \/ all.fatal
       \/ DOMAIN all.owner # names
       \/ \E s \in {NameOf(i, n) : i \in DOMAIN Disks, n \in Names} :
            LET own == getFileOwner(files[getDiskIndex(s)], s)
            IN IF s \in names THEN own < 0 \/ all.owner[s] # Stored(own) ELSE own # -1}

----------------------------------------------------------------------------
\* Entries as getfacl names them, those of the owner and the group by their numbers too
Rights(lines, owner, group) ==
    LET entries == {l \in lines : l.key \in Entries}
    IN entries \cup {[l EXCEPT !.val = IF l.key = "user" THEN owner ELSE group] :
                       l \in {e \in entries : e.key \in {"user", "group_"} /\ e.val = -1}}

\* The block without mask and without entries for others than owner and group
Plain(block) == {l \in Range(block) : l.key \in Entries => l.key # "mask" /\ l.val = -1}

Lost == {<<has, user, supported>> \in Attributes \X {0, 5, 9} \X BOOLEAN :
    LET p      == Disks[0] \o <<"f", "x">>
        file   == genACLfile(0, Disks[0], <<Disks[0] \o <<"f">>, p, Disks[0] \o <<"d", "/", "f">>>>,
                             [q \in Everywhere |-> IF q = p THEN has ELSE Has(6, 8, <<>>)])
        r      == restoreACL(file, NameOf(0, <<"f", "x">>), <<"/", "x">>, user, supported)
        block  == Tail(getfacl(p, has))
        mine   == user \in {0, has.owner}
    IN IF mine THEN r # [out |-> <<Text("file", <<"/", "x">>, "")>> \o block, rv |-> 0]
       ELSE /\ has.owner # 0 /\ has.group # 0
            /\ \/ r.rv # -1
               \/ {l \in Range(r.out) : l.key \in {"owner", "group"}} # {}
               \/ {l \in Range(r.out) : l.key \in Entries} #
                    Rights(IF supported THEN Range(block) ELSE Plain(block), has.owner, has.group)}
=============================================================================
