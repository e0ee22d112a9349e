---------------------------- MODULE ResumeBitmap ----------------------------
(***************************************************************************)
(* The resume bitmap of one file of a manifest, byte by byte.  Transfer    *)
(* keeps the set of finished chunks; the code keeps a vector of bytes with *)
(* a bit for each chunk, and passes over a chunk whose bit is past its end *)
(* without an error, both when it writes and when it reads.                *)
(***************************************************************************)
EXTENDS Integers

\* A byte is what its eight bits say; a vector of bytes is numbered from 0.
Bytes == [0..7 -> BOOLEAN]

\* Slip: the division of the length rounds down.
WholeBytes(n) == n \div 8

\* chunk_hashes.len().div_ceil(8)
BytesFor(n) == (n + 7) \div 8

\* The bitmap build_entry gives a file of n chunks.
NoChunkDone(n) == [b \in 0..(BytesFor(n) - 1) |-> [k \in 0..7 |-> FALSE]]

set_bitmap(bitmap, idx, value) ==
    IF idx \div 8 \in DOMAIN bitmap
    THEN [bitmap EXCEPT ![idx \div 8][idx % 8] = value]
    ELSE bitmap

get_bitmap(bitmap, idx) ==
    idx \div 8 \in DOMAIN bitmap /\ bitmap[idx \div 8][idx % 8]

mark_chunk_done(bitmap, i)  == set_bitmap(bitmap, i, TRUE)
clear_chunk_done(bitmap, i) == set_bitmap(bitmap, i, FALSE)
is_chunk_done(bitmap, i)    == get_bitmap(bitmap, i)

-----------------------------------------------------------------------------
\* The bytes stand for the set S of finished chunks of a file of n chunks.
StandsFor(bitmap, n, S) ==
    /\ bitmap \in [0..(BytesFor(n) - 1) -> Bytes]
    /\ \A i \in 0..(n - 1) : is_chunk_done(bitmap, i) <=> i \in S
=============================================================================
