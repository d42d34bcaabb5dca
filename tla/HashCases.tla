----------------------------- MODULE HashCases -----------------------------
(***************************************************************************)
(* Pieces a file may be read in: up to three of lengths below, at and      *)
(* above the 32 bytes of a stripe and twice that.                          *)
(***************************************************************************)
EXTENDS Integers, SequencesExt, BlockHash

Lengths == {0, 1, 5, 8, 31, 32, 33, 60, 64, 65}
Pieces  == UNION {[1..k -> Lengths] : k \in 1..3}
Length(pieces) == FoldLeft(+, 0, pieces)

\* Byte k of the file is k: no two pieces of it are alike
Read(pieces) ==
    FoldLeft(LAMBDA st, n : updateBlockHash(st, [k \in 1..n |-> st.total_len + k], n),
             startBlockHash, pieces)

Different == {p \in Pieces : getBlockHash(Read(p)) # getHash([k \in 1..Length(p) |-> k], Length(p))}
=============================================================================
