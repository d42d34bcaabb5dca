----------------------------- MODULE MCRestore -----------------------------
(* Restore from two slices, with few damaged files and a bounded number of *)
(* faults.                                                                 *)
EXTENDS Restore

CONSTANTS MaxFaults, MaxDamage

VARIABLES faults, excused
mcVars == <<vars, faults, excused>>

\* Files of these sizes laid end to end
EndToEnd(s) == [i \in DOMAIN s |-> [size |-> s[i], start |-> SumFunctionOnSet(s, 1..(i - 1))]]
Laid(p) == [m \in DOMAIN p |-> [d \in DOMAIN p[m] |-> EndToEnd(p[m][d])]]

\* Files of the lost disk (2) that begin and end inside, at the end of and across buffers
\* and other files; an empty file; a slice with a longer disk after one that may be given up
MCPlan == Laid(<< <<<<2, 2>>, <<3, 1, 0>>>>, <<<<2>>, <<1>>>> >>)

MCInit ==
    /\ wanted \in [Targets -> {"no", "skip", "yes"}]
    /\ damaged \in [HelperFiles -> {"ok", "changed", "gone"}]
    /\ Cardinality({f \in HelperFiles : damaged[f] # "ok"})
         + Cardinality({f \in Targets : wanted[f] # "yes"}) <= MaxDamage
    /\ Start /\ faults = 0 /\ excused = {}

\* The file at work; a duplicate of an empty file ends the slice
AtFault == {n} \X {i \in Rows(n, T) : i = sd[T].seq \/ (pc = "empty" /\ i > sd[T].seq)}

MCNext ==
    \/ (Kernel \/ Thread) /\ UNCHANGED <<faults, excused>>
    \/ /\ faults < MaxFaults /\ faults' = faults + 1
       /\ \/ SaveFaults /\ excused' = excused \cup AtFault
          \/ Faults /\ excused' = Targets

MCSpec == MCInit /\ [][MCNext]_mcVars

\* Requests complete some time, and the thread is scheduled
MCLiveSpec ==
    /\ MCSpec
    /\ WF_mcVars(Thread /\ UNCHANGED <<faults, excused>>)
    /\ WF_mcVars(Kernel /\ UNCHANGED <<faults, excused>>)

Finished(m) == m < n \/ (m = n /\ pc \in {"next", "done"})

\* A file of another disk it needs is gone (one that touches its window is opened too), or
\* one that overlaps it was changed
Reason(m, i) ==
    \E d \in Helpers : \E j \in Rows(m, d) :
        LET f == Plan[m][T][i]
            h == Plan[m][d][j]
        IN \/ damaged[<<m, d, j>>] = "gone" /\ h.start <= f.start + f.size /\ f.start <= h.start + h.size
           \/ damaged[<<m, d, j>>] = "changed" /\ h.start < f.start + f.size /\ f.start < h.start + h.size

\* slpos with the rows of changed and missing files marked, which listUnrecover looks through
L == INSTANCE Listings
Row(m, d, j) ==
    [disk |-> d, start |-> Plan[m][d][j].start, fsize |-> Size(m, d, j), sid |-> m,
     fpath |-> <<m, d, j>>, mtime |-> 0, owner |-> <<0>>,
     state |-> IF d # T /\ damaged[<<m, d, j>>] # "ok" THEN "*" ELSE ""]
Slpos == {Row(m, d, j) : <<m, d, j>> \in UNION {{k} \X {e} \X Rows(k, e) : k \in DOMAIN Plan, e \in Disks}}
Listed == L!createTempTables(Slpos, [m \in DOMAIN Plan |-> "D*"], 0, 0).tmp2

\* With nothing else going wrong, a file that is not restored, or that the thread gives up half-way,
\* has a reason of its own - never a damaged file of another window, of another slice or next to
\* its window - and is one that listUnrecover lists (backup.cpp:2303).
OnlyListedAreLost ==
    \A f \in Targets \ excused :
        /\ wanted[f] = "yes"
        /\ \/ Finished(f[1]) /\ ~\E g \in dest : g[1] = f[1] /\ g[2] = f[2]
           \/ TargetLost /\ f = <<n, sd[T].seq>>
        => Reason(f[1], f[2]) /\ Row(f[1], T, f[2]) \in Listed
=============================================================================
