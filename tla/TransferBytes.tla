--------------------------- MODULE TransferBytes ---------------------------
(***************************************************************************)
(* Transfer with the vectors of bytes that its manifest and its checkpoint *)
(* really hold.  Each step is one of Transfer's and what it does to them;  *)
(* where Transfer writes the set of finished chunks, the code calls        *)
(* mark_chunk_done and clear_chunk_done on the bitmap of the entry.        *)
(***************************************************************************)
EXTENDS Transfer, ResumeBitmap

VARIABLES
    bytes,  \* entry.resume_bitmap of every entry of the manifest
    saved   \* those in the checkpoint file

NoBytes == [e \in Entries |-> NoChunkDone(0)]

BytesInit == Init /\ bytes = NoBytes /\ saved = NoBytes

\* build_entry allocates the vector by the chunks it has hashed.
HashEndBytes ==
    /\ HashEnd
    /\ bytes' = [e \in Entries |-> IF e = file THEN NoChunkDone(ChunkCount(e)) ELSE bytes[e]]
    /\ UNCHANGED saved

\* Cleared if was_done, which is read from the bytes.
NeedChunkBytes ==
    /\ NeedChunk
    /\ bytes' = IF is_chunk_done(bytes[file], chunk)
                THEN [bytes EXCEPT ![file] = clear_chunk_done(@, chunk)]
                ELSE bytes
    /\ UNCHANGED saved

CopyChunkBytes ==
    /\ CopyChunk
    /\ bytes' = [bytes EXCEPT ![file] = mark_chunk_done(@, chunk)]
    /\ UNCHANGED saved

\* save_manifest writes the manifest, load_manifest returns what is in the file, and
\* build_manifest starts from nothing.
TruncateBytes == TruncateCheckpoint /\ saved' = NoBytes /\ UNCHANGED bytes
WriteBytes    == WriteCheckpoint /\ saved' = bytes /\ UNCHANGED bytes
LoadBytes     == LoadCheckpoint /\ bytes' = saved /\ UNCHANGED saved
BuildAnew     == BuildAgain /\ bytes' = NoBytes /\ UNCHANGED saved

OtherStep ==
    /\ \/ StatEntry \/ HashChunk \/ FinishManifest \/ Begin
       \/ OpenFile \/ SkipChunk \/ ReadPart \/ CopyMismatch \/ CheckFile
       \/ Disturbance
    /\ UNCHANGED <<bytes, saved>>

BytesNext ==
    \/ HashEndBytes \/ NeedChunkBytes \/ CopyChunkBytes
    \/ TruncateBytes \/ WriteBytes \/ LoadBytes \/ BuildAnew
    \/ OtherStep

BytesSpec == BytesInit /\ [][BytesNext]_<<vars, bytes, saved>>

\* With the fairness of RetrySpec.
RetryBytesSpec == BytesSpec /\ WF_vars(BuildStep \/ TransferStep) /\ WF_vars(CallerStep)

-----------------------------------------------------------------------------
\* The marked chunks of an entry.
Marks(done, e) == {i \in Offsets : <<e, i>> \in done}

\* Once the manifest is built, is_chunk_done answers from the bytes of an entry what
\* the set of finished chunks says, through marks, cleared marks, saved and resumed
\* bitmaps; and no chunk is marked that the vector has no bit for, which the code
\* would pass over without an error.
BytesSayMarks ==
    pc \notin {"plan", "hash_entry"} =>
        /\ \A e \in Entries : StandsFor(bytes[e], ChunkCount(e), Marks(resume_bitmap, e))
        /\ resume_bitmap \subseteq Chunks
=============================================================================
