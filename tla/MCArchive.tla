---------------------------- MODULE MCArchive ----------------------------
(* Archive with a bounded number of user edits and of faults.             *)
EXTENDS Archive, TLC

CONSTANTS MaxEdits, MaxFaults, f1

VARIABLES edits, faults
mcVars == <<vars, edits, faults>>

MCDiskOf  == [f \in Files |-> IF f = f1 THEN 1 ELSE 2]

AllPoints == Phases \cup {"rebuild"}
CrashPoints == AllPoints \ {"open"}
SafePoints == AllPoints \ {"rebuild", "open", "compare"}

MCInit == Init /\ (\A f \in Files : fs[f] # NoFile) /\ edits = 0 /\ faults = 0

MCNext ==
    \/ Start /\ UNCHANGED <<edits, faults>>
    \/ Program /\ UNCHANGED <<edits, faults>>
    \/ Faults /\ faults < MaxFaults /\ faults' = faults + 1 /\ UNCHANGED edits
    \/ Users /\ edits < MaxEdits /\ edits' = edits + 1 /\ UNCHANGED faults

MCSpec == MCInit /\ [][MCNext]_mcVars

\* The versions of a file can be exchanged, so its first one does not matter
MCLiveInit == MCInit /\ \A f \in Files : fs[f] = CHOOSE v \in Vers : TRUE

\* The process is scheduled, and some time a sync is run with every disk mounted.
MCLiveSpec ==
    /\ MCLiveInit /\ [][MCNext]_mcVars
    /\ WF_mcVars(Program /\ UNCHANGED <<edits, faults>>)
    /\ SF_mcVars(startSqlite("SYNC", "", Disks) /\ UNCHANGED <<edits, faults>>)

Symm == Permutations(Sids) \cup Permutations(Vers)
=============================================================================
