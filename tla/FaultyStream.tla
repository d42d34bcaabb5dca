--------------------------- MODULE FaultyStream ---------------------------
(***************************************************************************)
(* ParityStream with a count of what went wrong: files that cannot be      *)
(* opened or were changed, requests that fail, Ctrl-C.                     *)
(***************************************************************************)
EXTENDS ParityStream

CONSTANT MaxFaults

VARIABLE faults
faultyVars == <<vars, faults>>

FaultyInit == Init /\ faults = 0

FaultyNext ==
    \/ (Kernel \/ Thread) /\ UNCHANGED faults
    \/ Faults /\ faults < MaxFaults /\ faults' = faults + 1

FaultySpec == FaultyInit /\ [][FaultyNext]_faultyVars

\* None of the checks on the way (bytes2transfer at the end, size of the file before the
\* tail, a hash for every file) gives up a slice with which nothing went wrong.
NoFalseSkip == faults = 0 => skipped = {}
=============================================================================
