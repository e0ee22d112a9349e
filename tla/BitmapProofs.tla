---------------------------- MODULE BitmapProofs ----------------------------
(***************************************************************************)
(* Theorems about the bytes of the resume bitmap, for files of any number  *)
(* of chunks: about the operations on one vector, and about TransferBytes, *)
(* where the executor calls them.                                          *)
(***************************************************************************)
EXTENDS TransferBytes, TransferProofs

\* Where the bit of a chunk is: inside the vector, and no two chunks share one.
LEMMA BitOfItsOwn ==
    ASSUME NEW n \in Nat, NEW i \in 0..(n - 1), NEW j \in 0..(n - 1)
    PROVE  /\ i \div 8 \in 0..(BytesFor(n) - 1) /\ i % 8 \in 0..7
           /\ i \div 8 = j \div 8 /\ i % 8 = j % 8 => i = j
  BY DEF BytesFor

LEMMA SetOne ==
    ASSUME NEW n \in Nat, NEW i \in 0..(n - 1), NEW value \in BOOLEAN,
           NEW bitmap \in [0..(BytesFor(n) - 1) -> Bytes]
    PROVE  /\ set_bitmap(bitmap, i, value) \in [0..(BytesFor(n) - 1) -> Bytes]
           /\ get_bitmap(set_bitmap(bitmap, i, value), i) = value
           /\ \A j \in 0..(n - 1) : j # i =>
                 (get_bitmap(set_bitmap(bitmap, i, value), j) <=> get_bitmap(bitmap, j))
<1> DEFINE B == set_bitmap(bitmap, i, value)
<1>1. i \div 8 \in 0..(BytesFor(n) - 1) /\ i % 8 \in 0..7
  BY BitOfItsOwn
<1>2. B = [bitmap EXCEPT ![i \div 8] = [bitmap[i \div 8] EXCEPT ![i % 8] = value]]
  BY <1>1 DEF set_bitmap
<1>3. [bitmap[i \div 8] EXCEPT ![i % 8] = value] \in Bytes
  BY <1>1 DEF Bytes
<1>4. B \in [0..(BytesFor(n) - 1) -> Bytes]
  BY <1>2, <1>3
<1>5. get_bitmap(B, i) = value
  <2>1. bitmap[i \div 8] \in Bytes
    BY <1>1
  <2>2. B[i \div 8][i % 8] = value
    BY <1>1, <1>2, <2>1 DEF Bytes
  <2>3. i \div 8 \in DOMAIN B
    BY <1>1, <1>4
  <2> HIDE DEF B
  <2> QED
    BY <2>2, <2>3 DEF get_bitmap
<1>6. ASSUME NEW j \in 0..(n - 1), j # i
      PROVE  get_bitmap(B, j) <=> get_bitmap(bitmap, j)
  <2>1. j \div 8 \in 0..(BytesFor(n) - 1) /\ j % 8 \in 0..7
        /\ ~(i \div 8 = j \div 8 /\ i % 8 = j % 8)
    BY <1>6, BitOfItsOwn
  <2>2. bitmap[j \div 8] \in Bytes /\ bitmap[i \div 8] \in Bytes
    BY <1>1, <2>1
  <2>3. B[j \div 8][j % 8] = bitmap[j \div 8][j % 8]
    BY <1>1, <1>2, <2>1, <2>2 DEF Bytes
  <2>4. DOMAIN B = DOMAIN bitmap
    BY <1>4
  <2> HIDE DEF B
  <2> QED
    BY <2>3, <2>4 DEF get_bitmap
<1> QED
  BY <1>4, <1>5, <1>6

\* The bytes lose no mark and mix up no two, for any number of chunks: what
\* build_entry, mark_chunk_done and clear_chunk_done do to the vector is what Transfer
\* does to its set of finished chunks.
THEOREM BitmapIsASet ==
    ASSUME NEW n \in Nat
    PROVE  /\ StandsFor(NoChunkDone(n), n, {})
           /\ \A bitmap, S : \A i \in 0..(n - 1) : StandsFor(bitmap, n, S) =>
                 /\ StandsFor(mark_chunk_done(bitmap, i), n, S \cup {i})
                 /\ StandsFor(clear_chunk_done(bitmap, i), n, S \ {i})
<1>1. StandsFor(NoChunkDone(n), n, {})
  <2>1. [k \in 0..7 |-> FALSE] \in Bytes
    BY DEF Bytes
  <2>2. NoChunkDone(n) \in [0..(BytesFor(n) - 1) -> Bytes]
    BY <2>1 DEF NoChunkDone
  <2>3. ASSUME NEW i \in 0..(n - 1)
        PROVE  ~is_chunk_done(NoChunkDone(n), i)
    <3>1. i \div 8 \in 0..(BytesFor(n) - 1) /\ i % 8 \in 0..7
      BY BitOfItsOwn
    <3>2. NoChunkDone(n)[i \div 8] = [k \in 0..7 |-> FALSE]
      BY <3>1 DEF NoChunkDone
    <3>3. NoChunkDone(n)[i \div 8][i % 8] = FALSE
      BY <3>1, <3>2
    <3> QED
      BY <3>3 DEF is_chunk_done, get_bitmap
  <2> QED
    BY <2>2, <2>3 DEF StandsFor
<1>2. ASSUME NEW bitmap, NEW S, NEW i \in 0..(n - 1), StandsFor(bitmap, n, S)
      PROVE  /\ StandsFor(mark_chunk_done(bitmap, i), n, S \cup {i})
             /\ StandsFor(clear_chunk_done(bitmap, i), n, S \ {i})
  <2>1. /\ bitmap \in [0..(BytesFor(n) - 1) -> Bytes]
        /\ \A j \in 0..(n - 1) : get_bitmap(bitmap, j) <=> j \in S
    BY <1>2 DEF StandsFor, is_chunk_done
  <2>2. StandsFor(set_bitmap(bitmap, i, TRUE), n, S \cup {i})
    <3>1. get_bitmap(set_bitmap(bitmap, i, TRUE), i)
      BY <2>1, SetOne
    <3>2. /\ set_bitmap(bitmap, i, TRUE) \in [0..(BytesFor(n) - 1) -> Bytes]
          /\ \A j \in 0..(n - 1) : j # i =>
                (get_bitmap(set_bitmap(bitmap, i, TRUE), j) <=> get_bitmap(bitmap, j))
      BY <2>1, SetOne
    <3> QED
      BY <2>1, <3>1, <3>2 DEF StandsFor, is_chunk_done
  <2>3. StandsFor(set_bitmap(bitmap, i, FALSE), n, S \ {i})
    <3>1. ~get_bitmap(set_bitmap(bitmap, i, FALSE), i)
      BY <2>1, SetOne
    <3>2. /\ set_bitmap(bitmap, i, FALSE) \in [0..(BytesFor(n) - 1) -> Bytes]
          /\ \A j \in 0..(n - 1) : j # i =>
                (get_bitmap(set_bitmap(bitmap, i, FALSE), j) <=> get_bitmap(bitmap, j))
      BY <2>1, SetOne
    <3> QED
      BY <2>1, <3>1, <3>2 DEF StandsFor, is_chunk_done
  <2> QED
    BY <2>2, <2>3 DEF mark_chunk_done, clear_chunk_done
<1> QED
  BY <1>1, <1>2
-----------------------------------------------------------------------------
(* The bytes of a transfer.                                                *)

\* The bytes v of every entry say which chunks are in `done', all of them chunks of the
\* manifest.
Say(v, done) ==
    /\ \A e \in Entries : StandsFor(v[e], ChunkCount(e), Marks(done, e))
    /\ done \subseteq Chunks

\* The bytes in memory, of the entries hashed so far, and those in a checkpoint that
\* can be read.  While a manifest is built nothing is marked and nothing saved.
BytesInv ==
    /\ DOMAIN bytes = Entries
    /\ IF pc \in {"plan", "hash_entry"}
       THEN /\ resume_bitmap = {} /\ ~checkpoint.valid
            /\ \A e \in Entries : e < file => StandsFor(bytes[e], ChunkCount(e), {})
       ELSE Say(bytes, resume_bitmap)
    /\ checkpoint.valid =>
          DOMAIN saved = Entries /\ Say(saved, checkpoint.done)

\* A chunk that is copied is one that the vector has a bit for.
LEMMA CopiedChunk ==
    ASSUME TypeInv, LoopInv, pc = "copy"
    PROVE  file \in Entries /\ chunk \in Offsets /\ chunk \in 0..(ChunkCount(file) - 1)
<1>1. file \in Entries /\ chunk \in Nat /\ ChunkBytes(file, chunk) # {}
  BY DEF TypeInv, TypeOK, ControlOK
<1>2. chunk < ChunkCount(file)
  BY <1>1 DEF LoopInv
<1> QED
  BY <1>1, <1>2, ChunkInRange, ChunkCountType DEF TypeInv

\* The steps that mark or clear a chunk change one bit of one vector.
LEMMA OneBit ==
    ASSUME TypeInv, Say(bytes, resume_bitmap),
           DOMAIN bytes = Entries,
           NEW e \in Entries, NEW c \in Offsets, c \in 0..(ChunkCount(e) - 1)
    PROVE  /\ Say([bytes EXCEPT ![e] = mark_chunk_done(@, c)], resume_bitmap \cup {<<e, c>>})
           /\ Say([bytes EXCEPT ![e] = clear_chunk_done(@, c)], resume_bitmap \ {<<e, c>>})
           /\ is_chunk_done(bytes[e], c) <=> <<e, c>> \in resume_bitmap
<1>1. /\ StandsFor(bytes[e], ChunkCount(e), Marks(resume_bitmap, e))
      /\ ChunkCount(e) \in Nat
  BY ChunkCountType DEF Say, TypeInv
<1>2. /\ StandsFor(mark_chunk_done(bytes[e], c), ChunkCount(e), Marks(resume_bitmap, e) \cup {c})
      /\ StandsFor(clear_chunk_done(bytes[e], c), ChunkCount(e), Marks(resume_bitmap, e) \ {c})
  BY <1>1, BitmapIsASet
<1>3. /\ Marks(resume_bitmap \cup {<<e, c>>}, e) = Marks(resume_bitmap, e) \cup {c}
      /\ Marks(resume_bitmap \ {<<e, c>>}, e) = Marks(resume_bitmap, e) \ {c}
      /\ \A d \in Entries : d # e =>
            /\ Marks(resume_bitmap \cup {<<e, c>>}, d) = Marks(resume_bitmap, d)
            /\ Marks(resume_bitmap \ {<<e, c>>}, d) = Marks(resume_bitmap, d)
  BY DEF Marks
<1>4. <<e, c>> \in Chunks
  BY ChunkCountType DEF Chunks, TypeInv
<1>5. is_chunk_done(bytes[e], c) <=> <<e, c>> \in resume_bitmap
  BY <1>1 DEF StandsFor, Marks
<1> QED
  BY <1>2, <1>3, <1>4, <1>5 DEF Say

LEMMA BytesInitially == BytesInit => BytesInv
  BY DEF BytesInit, NoBytes, Init, BytesInv, Entries

\* Nothing else changes a mark, or the number of chunks of an entry.
LEMMA SayStays ==
    ASSUME NEW v, NEW done, cuts' = cuts, Say(v, done)
    PROVE  Say(v, done)'
  BY DEF Say, ChunkCount, Chunks, Marks

LEMMA BytesStep ==
    ASSUME TypeInv, LoopInv, BytesInv, [BytesNext]_<<vars, bytes, saved>>
    PROVE  BytesInv'
<1>0. /\ file \in 1..(Files + 1) /\ resume_bitmap \in SUBSET (Entries \X Offsets)
      /\ DOMAIN cuts = Entries
  BY DEF TypeInv, TypeOK
<1>1. CASE HashEndBytes
  <2>1. /\ pc = "hash_entry" /\ pc' = "plan" /\ file' = file + 1 /\ file \in Entries
        /\ cuts' = cuts
        /\ bytes' = [e \in Entries |->
                       IF e = file THEN NoChunkDone(ChunkCount(e)) ELSE bytes[e]]
        /\ UNCHANGED <<saved, resume_bitmap, checkpoint>>
    BY <1>1 DEF HashEndBytes, HashEnd, Goto, manifest, TypeInv, ControlOK
  <2>2. ASSUME NEW e \in Entries, e < file'
        PROVE  StandsFor(bytes'[e], ChunkCount(e)', {})
    <3>1. CASE e = file
      <4>1. ChunkCount(e) \in Nat /\ ChunkCount(e)' = ChunkCount(e)
        BY <2>1, ChunkCountType DEF TypeInv, ChunkCount
      <4> QED
        BY <2>1, <3>1, <4>1, BitmapIsASet
    <3>2. CASE e < file
      <4>1. bytes'[e] = bytes[e]
        BY <1>0, <2>1, <3>2 DEF Entries
      <4> QED
        BY <2>1, <3>2, <4>1 DEF BytesInv, ChunkCount
    <3> QED
      BY <2>1, <2>2, <3>1, <3>2 DEF Entries
  <2>3. checkpoint.valid => DOMAIN saved = Entries /\ Say(saved, checkpoint.done)'
    BY <2>1, SayStays DEF BytesInv
  <2> QED
    BY <2>1, <2>2, <2>3 DEF BytesInv
<1>2. CASE NeedChunkBytes
  <2>1. /\ pc = "chunk" /\ pc' = "copy" /\ chunk < ChunkCount(file)
        /\ ChunkBytes(file, chunk) # {} /\ file \in Entries /\ chunk \in Nat
        /\ resume_bitmap' = resume_bitmap \ {<<file, chunk>>}
        /\ bytes' = IF is_chunk_done(bytes[file], chunk)
                    THEN [bytes EXCEPT ![file] = clear_chunk_done(@, chunk)] ELSE bytes
        /\ UNCHANGED <<saved, cuts, checkpoint>>
    BY <1>2 DEF NeedChunkBytes, NeedChunk, Goto, manifest, TypeInv, TypeOK, ControlOK
  <2>2. chunk \in Offsets /\ chunk \in 0..(ChunkCount(file) - 1)
    BY <2>1, ChunkInRange, ChunkCountType DEF TypeInv
  <2>3. Say(bytes, resume_bitmap) /\ DOMAIN bytes = Entries
    BY <2>1 DEF BytesInv
  <2>4. /\ Say([bytes EXCEPT ![file] = clear_chunk_done(@, chunk)],
               resume_bitmap \ {<<file, chunk>>})
        /\ is_chunk_done(bytes[file], chunk) <=> <<file, chunk>> \in resume_bitmap
    BY <2>1, <2>2, <2>3, OneBit
  <2>5. CASE is_chunk_done(bytes[file], chunk)
    <3> DEFINE v == [bytes EXCEPT ![file] = clear_chunk_done(@, chunk)]
    <3>1. bytes' = v /\ DOMAIN v = Entries
      BY <2>1, <2>3, <2>5
    <3>2. Say(v, resume_bitmap')
      BY <2>1, <2>4
    <3> HIDE DEF v
    <3>3. Say(bytes, resume_bitmap)'
      BY <2>1, <3>1, <3>2 DEF Say, ChunkCount, Chunks, Marks
    <3> QED
      BY <2>1, <3>1, <3>3, SayStays DEF BytesInv
  <2>6. CASE ~is_chunk_done(bytes[file], chunk)
    <3>1. bytes' = bytes /\ resume_bitmap' = resume_bitmap
      BY <2>1, <2>4, <2>6
    <3> QED
      BY <2>1, <2>3, <3>1, SayStays DEF BytesInv
  <2> QED
    BY <2>5, <2>6
<1>3. CASE CopyChunkBytes
  <2>1. /\ pc = "copy" /\ pc' = "save"
        /\ resume_bitmap' = resume_bitmap \cup {<<file, chunk>>}
        /\ bytes' = [bytes EXCEPT ![file] = mark_chunk_done(@, chunk)]
        /\ UNCHANGED <<saved, cuts, checkpoint>>
    BY <1>3 DEF CopyChunkBytes, CopyChunk, Goto, manifest
  <2>2. Say(bytes, resume_bitmap) /\ DOMAIN bytes = Entries
    BY <2>1 DEF BytesInv
  <2> DEFINE v == [bytes EXCEPT ![file] = mark_chunk_done(@, chunk)]
  <2>3. Say(v, resume_bitmap')
    BY <2>1, <2>2, CopiedChunk, OneBit
  <2>4. bytes' = v /\ DOMAIN v = Entries
    BY <2>1, <2>2
  <2> HIDE DEF v
  <2>5. Say(bytes, resume_bitmap)'
    BY <2>1, <2>3, <2>4 DEF Say, ChunkCount, Chunks, Marks
  <2> QED
    BY <2>1, <2>4, <2>5, SayStays DEF BytesInv
<1>4. CASE TruncateBytes
  <2>1. /\ ~checkpoint'.valid /\ pc \in {"save", "file"} /\ pc' = "saving"
        /\ UNCHANGED <<bytes, resume_bitmap, cuts>>
    BY <1>4 DEF TruncateBytes, TruncateCheckpoint, manifest
  <2> QED
    BY <2>1, SayStays DEF BytesInv
<1>5. CASE WriteBytes
  <2>1. /\ saved' = bytes /\ checkpoint'.done = resume_bitmap /\ pc = "saving"
        /\ pc' \in {"ok", "chunk"}
        /\ UNCHANGED <<bytes, resume_bitmap, cuts>>
    BY <1>5 DEF WriteBytes, WriteCheckpoint, manifest
  <2>2. Say(bytes, resume_bitmap)' /\ DOMAIN bytes' = Entries
    BY <2>1, SayStays DEF BytesInv
  <2> QED
    BY <2>1, <2>2 DEF BytesInv, Say, Marks
<1>6. CASE LoadBytes
  <2>1. /\ checkpoint.valid /\ pc' = "planned" /\ bytes' = saved
        /\ resume_bitmap' = checkpoint.done
        /\ UNCHANGED <<saved, checkpoint, cuts>>
    BY <1>6 DEF LoadBytes, LoadCheckpoint, Goto, manifest
  <2>2. Say(saved, checkpoint.done)' /\ DOMAIN saved = Entries
    BY <2>1, SayStays DEF BytesInv
  <2> QED
    BY <2>1, <2>2 DEF BytesInv, Say, Marks
<1>7. CASE BuildAnew
  <2>1. /\ pc' = "plan" /\ file' = 1 /\ resume_bitmap' = {} /\ ~checkpoint'.valid
        /\ bytes' = NoBytes
    BY <1>7 DEF BuildAnew, BuildAgain, Goto
  <2> QED
    BY <2>1 DEF BytesInv, NoBytes, Entries
<1>9. CASE OtherStep /\ HashChunk
  <2>1. /\ pc = "hash_entry" /\ pc' = pc /\ file' = file /\ file \in Entries
        /\ UNCHANGED <<bytes, saved, resume_bitmap, checkpoint>>
        /\ \A e \in Entries : e # file => cuts'[e] = cuts[e]
    BY <1>9 DEF OtherStep, HashChunk, TypeInv, TypeOK, ControlOK
  <2>2. ASSUME NEW e \in Entries, e < file
        PROVE  StandsFor(bytes'[e], ChunkCount(e)', {})
    <3>1. ChunkCount(e)' = ChunkCount(e)
      BY <1>0, <2>1, <2>2 DEF ChunkCount, Entries
    <3> QED
      BY <2>1, <2>2, <3>1 DEF BytesInv
  <2> QED
    BY <2>1, <2>2 DEF BytesInv
<1>8. CASE (OtherStep /\ ~HashChunk) \/ UNCHANGED <<vars, bytes, saved>>
  <2>1. UNCHANGED <<bytes, saved, resume_bitmap, checkpoint>>
    BY <1>8 DEF OtherStep, StatEntry, FinishManifest, Begin, OpenFile, SkipChunk, ReadPart,
       CopyMismatch, CheckFile, Disturbance, CopyFault, IOFault, Crash, EditSource, Retarget,
       vars
  <2>6. CASE StatEntry
    <3>1. /\ pc = "plan" /\ pc' = "hash_entry" /\ file' = file /\ file \in Entries
          /\ \A e \in Entries : e # file => cuts'[e] = cuts[e]
      BY <2>6 DEF StatEntry, Goto, TypeInv, TypeOK
    <3>2. ASSUME NEW e \in Entries, e < file
          PROVE  StandsFor(bytes'[e], ChunkCount(e)', {})
      <4>1. ChunkCount(e)' = ChunkCount(e)
        BY <1>0, <3>1, <3>2 DEF ChunkCount, Entries
      <4> QED
        BY <2>1, <3>1, <3>2, <4>1 DEF BytesInv
    <3> QED
      BY <2>1, <3>1, <3>2 DEF BytesInv
  <2>7. ASSUME ~StatEntry PROVE cuts' = cuts
    BY <1>8, <2>7 DEF OtherStep, FinishManifest, Begin, OpenFile, SkipChunk, ReadPart,
       CopyMismatch, CheckFile, Disturbance, CopyFault, IOFault, Crash, EditSource, Retarget,
       vars, manifest
  <2>2. CASE pc \in {"plan", "hash_entry"} /\ pc' \in {"plan", "hash_entry"} /\ ~StatEntry
    <3>1. file' = file
      BY <1>8, <2>2 DEF OtherStep, FinishManifest, Begin, OpenFile, SkipChunk, ReadPart,
         CopyMismatch, CheckFile, Disturbance, CopyFault, IOFault, Crash, EditSource,
         Retarget, vars, Goto
    <3> QED
      BY <2>1, <2>2, <2>7, <3>1 DEF BytesInv, ChunkCount
  <2>3. CASE FinishManifest
    <3>1. /\ pc = "plan" /\ pc' = "planned" /\ \A e \in Entries : e < file
      BY <1>0, <2>3, TransferAssumption DEF FinishManifest, Goto, Entries
    <3>2. Say(bytes, resume_bitmap) /\ cuts' = cuts
      BY <2>3, <3>1 DEF BytesInv, Say, Marks, FinishManifest, manifest
    <3> QED
      BY <2>1, <3>1, <3>2, SayStays DEF BytesInv
  <2>4. CASE pc \notin {"plan", "hash_entry"} /\ pc' \notin {"plan", "hash_entry"}
    <3>1. cuts' = cuts
      BY <2>4, <2>7 DEF StatEntry, Goto
    <3> QED
      BY <2>1, <2>4, <3>1, SayStays DEF BytesInv
  <2>5. FinishManifest \/ (pc \in {"plan", "hash_entry"} <=> pc' \in {"plan", "hash_entry"})
    BY <1>8 DEF OtherStep, StatEntry, Begin, OpenFile, SkipChunk, ReadPart, CopyMismatch,
       CheckFile, Disturbance, CopyFault, IOFault, Crash, EditSource, Retarget, Running,
       RetryOrFail, vars, Goto
  <2> QED
    BY <2>2, <2>3, <2>4, <2>5, <2>6
<1> QED
  BY <1>1, <1>2, <1>3, <1>4, <1>5, <1>6, <1>7, <1>8, <1>9 DEF BytesNext

\* The vectors of bytes do not stray from the set of finished chunks: for any number
\* of entries and chunks, and whatever is retried, cleared, saved, killed and resumed,
\* is_chunk_done reads what was marked, and no mark is set past the end of a vector.
THEOREM BytesHoldTheMarks == BytesSpec => []BytesSayMarks
<1>1. BytesSpec => Spec
  <2>1. BytesInit => Init
    BY DEF BytesInit
  <2>2. [BytesNext]_<<vars, bytes, saved>> => [Next]_vars
    BY DEF BytesNext, HashEndBytes, NeedChunkBytes, CopyChunkBytes, TruncateBytes,
       WriteBytes, LoadBytes, BuildAnew, OtherStep, Next, BuildStep, TransferStep, CallerStep
  <2> QED
    BY <2>1, <2>2, PTL DEF BytesSpec, Spec
<1>2. BytesInv => BytesSayMarks
  BY DEF BytesInv, BytesSayMarks, Say
<1> QED
  BY <1>1, <1>2, CopiedInvariant, TypeInvariant, BytesInitially, BytesStep, PTL DEF BytesSpec
=============================================================================
