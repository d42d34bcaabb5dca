----------------------------- MODULE MCPlanner -----------------------------
(* Planner with every assignment of a few sizes to a few files.            *)
EXTENDS Planner

CONSTANTS Values, MaxPerDisk, MaxSolo

\* Sizes of up to n files of a disk, largest first
Lists(S, n) == UNION {{s \in [1..k -> S] : \A i \in 1..(k - 1) : s[i] >= s[i + 1]}
                      : k \in 0..n}

\* Files with data; one at most on the first disk, which may be in an older slice
Several ==
    \E first \in Lists(Values, 1), others \in [2..NDisks -> Lists(Values, MaxPerDisk)] :
        /\ size = [d \in Disks |-> IF d = 1 THEN first ELSE others[d]]
        /\ \E m \in SUBSET DOMAIN first : marked = [None EXCEPT ![1] = m]

\* Many files on one disk; a few small, empty or older ones on another
Solo ==
    \E many \in Lists(Values \cup {0}, MaxSolo), first \in Lists({0, least(Values)}, 2) :
        /\ size = [d \in Disks |-> IF d = 1 THEN first ELSE IF d = 2 THEN many ELSE <<>>]
        /\ \E m \in SUBSET DOMAIN first : marked = [None EXCEPT ![1] = m]

MCInit == (Several \/ Solo) /\ Init

MCSpec == MCInit /\ [][Next]_vars /\ WF_vars(CreateSlices)

\* Three disks with the byte sizes of real small files
ExampleInit ==
    /\ size = <<<<1000>>, <<900, 110, 40, 36>>, <<500, 300, 255>>>>
    /\ marked = None /\ Init

ExampleSpec == ExampleInit /\ [][Next]_vars
=============================================================================
