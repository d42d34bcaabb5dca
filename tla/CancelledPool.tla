--------------------------- MODULE CancelledPool ---------------------------
(***************************************************************************)
(* SlicePool with the slices that waited when the run was cancelled.       *)
(***************************************************************************)
EXTENDS SlicePool

VARIABLE atCancel
cancelVars == <<vars, atCancel>>

CancelInit == Init /\ atCancel = {}

CancelNext == Next /\ atCancel' = IF operationCanceled' /\ ~operationCanceled
                                  THEN Waiting' ELSE atCancel

CancelSpec == CancelInit /\ [][CancelNext]_cancelVars

\* After Ctrl-C or a full disk the threads only finish what they had begun: a slice
\* that still waited in the queue at that moment is never written in this run
\* (backup.cpp:1963 tests between pop and createSliceFile, :1917 and :1794 later).
CancelStops == written \cap atCancel = {}
=============================================================================
