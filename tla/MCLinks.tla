------------------------------ MODULE MCLinks ------------------------------
(* restoreSpecial, one row of the table links after the other.            *)
EXTENDS PathCases

VARIABLES todo, st
vars == <<todo, st>>

Dest == <<"/", "g", "/">>
Disk == [i \in 0..1 |-> IF i = 0 THEN Dest ELSE <<"/", "m", "/">>]

Init ==
    /\ todo \in {Links!loadFileList([Disk EXCEPT ![0] = <<"/", "a", "/">>], 0, list).lnk : list \in Lists(Disk[1])}
    /\ st = [dirs |-> {UpTo(Dest, 2)}, calls |-> {}, made |-> {}]

Restore ==
    /\ todo # <<>> /\ todo' = Tail(todo)
    /\ st' = Links!restoreLink(st, Disk, <<"/", "x">>, Dest, Head(todo))

Spec == Init /\ [][Restore]_vars

\* "Full path restored create target object" (backup.cpp:1697): when a link is made, the
\* directories above it are there.
FullPathRestored == \A c \in st.calls : Links!dirname(c.path) \in st.dirs
=============================================================================
