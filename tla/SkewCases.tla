------------------------------ MODULE SkewCases ------------------------------
(***************************************************************************)
(* Inputs for Skew: what there is to save and what is saved.               *)
(* Bounds: two disks, three saved slices with up to two units on a disk,   *)
(* up to four units to save on one disk and up to two on the other.        *)
(***************************************************************************)
EXTENDS Skew

Loads == (0..2) \X (0..2) \ {<<0, 0>>}

\* The rows of a slice, with the size and the fill factor its head has
Rows(sid, load) ==
    LET Row(i) == [sid |-> sid, disk |-> i, fsize |-> load[i], ssize |-> load[Longest(load)],
                   fill |-> computeFillFactor(load)]
    IN {Row(i) : i \in {j \in DOMAIN load : load[j] > 0}}

\* The first slice taken is judged by what it has, none by more than it has, and none is
\* taken twice
Fair(removed, loads) ==
    /\ removed # <<>> => removed[1].sizes = loads[removed[1].sid]
    /\ \A k \in DOMAIN removed :
          /\ \A i \in 1..2 : removed[k].sizes[i] <= loads[removed[k].sid][i]
          /\ \A j \in 1..(k - 1) : removed[j].sid # removed[k].sid

Overrated ==
    {c \in (0..4) \X (0..2) \X Loads \X Loads \X Loads :
       LET loads == <<c[3], c[4], c[5]>>
       IN ~Fair(prepareForPlan(<<c[1], c[2]>>, UNION {Rows(s, loads[s]) : s \in 1..3}), loads)}
=============================================================================
