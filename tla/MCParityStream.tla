--------------------------- MODULE MCParityStream ---------------------------
(***************************************************************************)
(* ParityStream with three slices of two disks and a bounded number of     *)
(* faults.  What it takes from below - the hash of a file read in pieces,  *)
(* the header in front of the parity, whole buffers read and written - is  *)
(* evaluated over all its cases in the initial state.                      *)
(***************************************************************************)
EXTENDS FaultyStream

Header == INSTANCE HeaderCases
Buffer == INSTANCE FileIO WITH MaxBytes <- 3, MaxCalls <- 4
Hash   == INSTANCE HashCases WITH Bytes <- 0..255

\* Files that end inside, at the end of and across buffers; an empty file; a disk
\* that takes no part in a slice
MCPlan == << <<<<3, 1>>, <<2>>>>, <<<<1, 0>>, <<3>>>>, <<<<>>, <<2, 1>>>> >>

\* Requests complete some time, and the thread is scheduled
MCLiveSpec ==
    /\ FaultySpec
    /\ WF_faultyVars(Thread /\ UNCHANGED faults)
    /\ WF_faultyVars(Kernel /\ UNCHANGED faults)

----------------------------------------------------------------------------
AtStart == Init

\* The hash of a file read in pieces of any length (updateBlockHash after each aio_read) is the
\* hash of the file, whatever the pieces leave in the 32 bytes XXH64_update keeps back.
StreamIsOneShot == AtStart => Hash!Different = {}

\* The header of a slice file, written in order of disks and positions and read line by line,
\* gives back every row, and a file whose header was cut off or damaged is refused.
HeaderFaithful == AtStart => Header!Unfaithful = {}

\* A transfer that does not report an error has moved a start of the data, in order and nothing
\* twice, and stopped short only where a call moved nothing (readFD, writeFD).
WholeOrError == AtStart => Buffer!Torn = {}
=============================================================================
