--------------------------- MODULE TransferProofs ---------------------------
(***************************************************************************)
(* Theorems about Transfer for every number of files, every chunk size,    *)
(* every content, every number of retries, crashes, faults and edits.      *)
(*                                                                         *)
(* TypeOK needs to know where the executor is (ControlOK).  That Ok is the *)
(* truth needs what was established on the way to it (VerifiedFiles,       *)
(* CurrentFile), how the bytes hashed were cut into chunks (HashInv), and  *)
(* that a chunk about to be copied is not counted yet (part of ControlOK). *)
(* That a call goes forward needs the bounds of its loops (LoopInv), and   *)
(* that the hash of a file is never why it fails needs the chunks behind   *)
(* it (CopiedInv), which are then where the executor looks for them        *)
(* (StraightInv).                                                          *)
(***************************************************************************)
EXTENDS Transfer, FiniteSetTheorems, SequenceTheorems, TLAPS

-----------------------------------------------------------------------------
(* Chunks and files.                                                       *)

\* Every byte of n chunks of k bytes, the last of which may be shorter, lies in one.
LEMMA ByteInChunk ==
    ASSUME NEW k \in Nat \ {0}, NEW o \in Nat, NEW n \in Nat, o < n * k
    PROVE  o \div k \in Nat /\ o \div k < n
  BY SMT

\* The k bytes from c * k on are those of chunk c, in order.
LEMMA PlaceInChunk ==
    ASSUME NEW k \in Nat \ {0}, NEW c \in Nat
    PROVE  /\ c * k \in Nat /\ (c + 1) * k = c * k + k
           /\ \A i \in 0..(k - 1) : (c * k + i) \div k = c /\ (c * k + i) % k = i
           /\ \A o \in Nat : o % k \in 0..(k - 1)
           /\ \A o \in Nat : o \div k = c => o = c * k + (o % k)
  BY SMT

\* The chunk of a byte comes no later than the byte.
LEMMA ChunkIndex ==
    ASSUME NEW k \in Nat \ {0}, NEW o \in Nat
    PROVE  o \div k \in 0..o
  BY SMT

\* set_len makes a file of the length asked for.
LEMMA SetLenType ==
    ASSUME NEW f \in File, NEW n \in 0..MaxLen
    PROVE  /\ SetLen(f, n) \in File
           /\ SetLen(f, n).len = n
  BY TransferAssumption DEF File, SetLen, Offsets

\* Writing a chunk leaves the length of the target as set_len made it.
LEMMA OverwriteType ==
    ASSUME NEW f \in File, NEW g \in File, NEW S
    PROVE  /\ Overwrite(f, g, S) \in File
           /\ Overwrite(f, g, S).len = f.len
  BY DEF File, Overwrite, Offsets

\* The bytes of a set of chunks are finitely many.
LEMMA FinitelyManyBytes ==
    /\ IsFiniteSet(Entries \X Offsets)
    /\ \A done : IsFiniteSet(DoneBytes(done))
    /\ \A e, c : IsFiniteSet(ChunkBytes(e, c))
<1>1. IsFiniteSet(Entries) /\ IsFiniteSet(Offsets)
  BY FS_Interval, TransferAssumption DEF Entries, Offsets
<1>2. IsFiniteSet(Entries \X Offsets)
  BY <1>1, FS_Product
<1>3. ASSUME NEW done PROVE IsFiniteSet(DoneBytes(done))
  <2>1. DoneBytes(done) \in SUBSET (Entries \X Offsets)
    BY DEF DoneBytes
  <2> QED
    BY <1>2, <2>1, FS_Subset
<1>4. ASSUME NEW e, NEW c PROVE IsFiniteSet(ChunkBytes(e, c))
  <2>1. ChunkBytes(e, c) \in SUBSET Offsets
    BY DEF ChunkBytes
  <2> QED
    BY <1>1, <2>1, FS_Subset
<1> QED
  BY <1>2, <1>3, <1>4

\* Marking one more chunk adds exactly its read_len bytes to done_size.
LEMMA MarkedChunk ==
    ASSUME NEW e \in Entries, NEW c, NEW done, <<e, c>> \notin done
    PROVE  /\ done_size(done) \in Nat
           /\ Cardinality(ChunkBytes(e, c)) \in Nat
           /\ done_size(done \cup {<<e, c>>})
                = done_size(done) + Cardinality(ChunkBytes(e, c))
<1> DEFINE old == DoneBytes(done)
           new == {e} \X ChunkBytes(e, c)
<1>1. DoneBytes(done \cup {<<e, c>>}) = old \cup new
  BY DEF DoneBytes, ChunkBytes
<1>2. old \cap new = {}
  BY DEF DoneBytes, ChunkBytes
<1>3. IsFiniteSet(old) /\ IsFiniteSet(ChunkBytes(e, c))
  BY FinitelyManyBytes
<1>4. /\ Cardinality(ChunkBytes(e, c)) \in Nat
      /\ Cardinality(old) \in Nat
  BY <1>3, FS_CardinalityType
<1>5. IsFiniteSet(new) /\ Cardinality(new) = Cardinality(ChunkBytes(e, c))
  <2>1. IsFiniteSet({e}) /\ Cardinality({e}) = 1
    BY FS_Singleton
  <2> QED
    BY <1>3, <1>4, <2>1, FS_Product
<1>6. Cardinality(old \cup new) = Cardinality(old) + Cardinality(new) - Cardinality({})
  <2> HIDE DEF old, new
  <2> QED
    BY <1>2, <1>3, <1>5, FS_Union
<1>7. /\ done_size(done) = Cardinality(old)
      /\ done_size(done \cup {<<e, c>>}) = Cardinality(old \cup new)
  BY <1>1 DEF done_size
<1> QED
  <2> HIDE DEF old, new
  <2> QED
    BY <1>4, <1>5, <1>6, <1>7, FS_EmptySet

\* Clearing a mark takes exactly as many away, so saturating_sub never saturates.
LEMMA ClearedChunk ==
    ASSUME NEW e \in Entries, NEW c, NEW done, <<e, c>> \in done
    PROVE  /\ done_size(done) \in Nat
           /\ Cardinality(ChunkBytes(e, c)) \in 0..done_size(done)
           /\ done_size(done \ {<<e, c>>})
                = done_size(done) - Cardinality(ChunkBytes(e, c))
<1> DEFINE rest == done \ {<<e, c>>}
<1>1. rest \cup {<<e, c>>} = done
  OBVIOUS
<1>2. <<e, c>> \notin rest
  OBVIOUS
<1> HIDE DEF rest
<1>3. /\ done_size(rest) \in Nat
      /\ Cardinality(ChunkBytes(e, c)) \in Nat
      /\ done_size(done) = done_size(rest) + Cardinality(ChunkBytes(e, c))
  BY <1>1, <1>2, MarkedChunk
<1> QED
  BY <1>3 DEF rest

-----------------------------------------------------------------------------
(* Type correctness.                                                       *)

\* Where the executor is: inside an entry where it works on one, at a chunk that
\* has bytes and is not marked while it copies it, and marked once it is written.
ControlOK ==
    /\ pc \in {"hash_entry", "chunk", "copy", "save"} => file \in Entries
    /\ pc = "ok" => file = Files + 1
    /\ pc = "copy" => /\ ChunkBytes(file, chunk) # {}
                      /\ <<file, chunk>> \notin resume_bitmap
    /\ pc \in {"save", "saving"} /\ file \in Entries =>
          <<file, chunk>> \in resume_bitmap

TypeInv == TypeOK /\ ControlOK

\* The empty file, which stands for no file at the target, is a file.
LEMMA EmptyFileType == EmptyFile \in File
  BY TransferAssumption DEF EmptyFile, File

\* The types and the control invariant hold before build_manifest.
LEMMA TypeInit == Init => TypeInv
  BY EmptyFileType, TransferAssumption
  DEF Init, TypeInv, TypeOK, ControlOK, Entries, Events

\* A chunk with bytes in it is one of the chunks the bitmap has room for.
LEMMA ChunkInRange ==
    ASSUME NEW e, NEW c \in Nat, ChunkBytes(e, c) # {}
    PROVE  c \in Offsets
<1>1. PICK o \in Offsets : o \div ChunkSize = c
  BY DEF ChunkBytes
<1>2. o \in Nat /\ o <= MaxLen - 1
  BY TransferAssumption DEF Offsets
<1>3. c \in 0..o
  BY <1>1, <1>2, ChunkIndex, TransferAssumption
<1> QED
  BY <1>2, <1>3, TransferAssumption DEF Offsets

\* What an attempt has seen of the source is a file.
LEMMA SeenType ==
    ASSUME TypeOK, file \in Entries
    PROVE  Seen \in File /\ Seen.len = src[file].len
<1>1. /\ src[file] \in File /\ buf \in Seq(Byte)
      /\ \A o \in Offsets : o \in Nat
  BY TransferAssumption DEF TypeOK, Offsets
<1>2. ASSUME NEW o \in Offsets, o % ChunkSize < Len(buf)
      PROVE  buf[(o % ChunkSize) + 1] \in Byte
  <2>1. o % ChunkSize \in Nat
    BY <1>1, PlaceInChunk, TransferAssumption
  <2>2. (o % ChunkSize) + 1 \in 1..Len(buf)
    BY <1>1, <1>2, <2>1
  <2> QED
    BY <1>1, <2>2
<1> QED
  BY <1>1, <1>2 DEF Seen, File

\* What is read of g behind k bytes are bytes.
LEMMA PieceType ==
    ASSUME NEW g \in File, NEW k \in Nat, NEW n \in Nat, k + n <= g.len
    PROVE  /\ [i \in 1..n |-> g.byte[k + i - 1]] \in Seq(Byte)
           /\ Len([i \in 1..n |-> g.byte[k + i - 1]]) = n
<1>1. ASSUME NEW i \in 1..n PROVE g.byte[k + i - 1] \in Byte
  <2>1. k + i - 1 \in Offsets /\ g.byte \in [Offsets -> Byte]
    BY TransferAssumption DEF File, Offsets
  <2> QED
    BY <2>1
<1> QED
  BY <1>1, IsASeq

\* A read takes an attempt further into the chunk.
LEMMA ReadPartType ==
    ASSUME TypeInv, ReadPart
    PROVE  buf' \in Seq(Byte) /\ Len(buf) \in Nat /\ Len(buf') \in Nat /\ Len(buf) < Len(buf')
<1>1. PICK n \in (Len(buf) + 1)..(Cardinality(ChunkBytes(file, chunk)) - 1) :
        /\ chunk * ChunkSize + n <= src[file].len
        /\ buf' = [i \in 1..n |-> Seen.byte[chunk * ChunkSize + i - 1]]
  BY DEF ReadPart
<1>2. Cardinality(ChunkBytes(file, chunk)) \in Nat /\ Len(buf) \in Nat
  BY FinitelyManyBytes, FS_CardinalityType DEF TypeInv, TypeOK
<1>3. n \in Nat /\ Len(buf) < n
  BY <1>1, <1>2
<1>4. file \in Entries /\ chunk * ChunkSize \in Nat
  BY PlaceInChunk, TransferAssumption DEF ReadPart, TypeInv, TypeOK, ControlOK
<1>5. Seen \in File /\ Seen.len = src[file].len
  BY <1>4, SeenType DEF TypeInv
<1> QED
  BY <1>1, <1>2, <1>3, <1>4, <1>5, PieceType

\* A read that returns n bytes of g makes a file of f and them.
LEMMA ExtendedType ==
    ASSUME NEW f \in File, NEW g \in File, NEW n \in Nat \ {0}, f.len + n <= g.len
    PROVE  /\ Extended(f, g, n) \in File
           /\ Extended(f, g, n).len = f.len + n
           /\ f.len + n \in 1..MaxLen
  BY TransferAssumption DEF File, Extended, Offsets

\* An event takes one from its budget and from that of all, and none from the others.
LEMMA Spent ==
    ASSUME budget \in [Events -> Nat], NEW event \in Events, event # "all", Spend(event)
    PROVE  /\ budget' \in [Events -> Nat]
           /\ budget'[event] = budget[event] - 1 /\ budget'["all"] = budget["all"] - 1
           /\ \A other \in Events : other \notin {event, "all"} => budget'[other] = budget[other]
<1>1. "all" \in Events
  BY DEF Events
<1> QED
  BY <1>1 DEF Spend

LEMMA EventTypes == {"edit", "short", "fault", "crash", "retarget"} = Events \ {"all"}
  BY DEF Events

\* Every step keeps the types ...
LEMMA TypeOKStep == TypeInv /\ [Next]_vars => TypeOK'
<1> SUFFICES ASSUME TypeInv, [Next]_vars PROVE TypeOK'
  OBVIOUS
<1> USE TransferAssumption, EventTypes DEF TypeInv, TypeOK, Goto, manifest, counters
<1>1. CASE StatEntry
  <2>1. /\ src[file].len \in 0..MaxLen
        /\ file \in Entries
    BY <1>1 DEF StatEntry, File
  <2>2. /\ image' = [image EXCEPT ![file] = EmptyFile] /\ EmptyFile \in File
        /\ cuts' = [cuts EXCEPT ![file] = <<>>] /\ <<>> \in Seq(1..MaxLen)
    BY <1>1, EmptyFileType DEF StatEntry
  <2> QED
    BY <1>1, <2>1, <2>2 DEF StatEntry
<1>2. CASE HashEnd
  <2>1. file \in Entries
    BY <1>2 DEF HashEnd, ControlOK
  <2> QED
    BY <1>2, <2>1 DEF HashEnd, Entries
<1>21. CASE HashChunk
  <2>1. PICK n \in 1..ChunkSize :
          /\ ReadReturns(n, src[file], image[file].len)
          /\ image' = [image EXCEPT ![file] = Extended(@, src[file], n)]
          /\ cuts' = [cuts EXCEPT ![file] = Append(@, image[file].len + n)]
    BY <1>21 DEF HashChunk
  <2>2. file \in Entries
    BY <1>21 DEF HashChunk, ControlOK
  <2>3. /\ Extended(image[file], src[file], n) \in File
        /\ image[file].len + n \in 1..MaxLen
    BY <2>1, <2>2, ExtendedType DEF ReadReturns
  <2>4. Append(cuts[file], image[file].len + n) \in Seq(1..MaxLen)
    BY <2>2, <2>3
  <2>5. budget' \in [Events -> Nat]
    BY <2>1, Spent DEF ReadReturns
  <2> QED
    BY <1>21, <2>1, <2>2, <2>3, <2>4, <2>5 DEF HashChunk
<1>3. CASE FinishManifest
  BY <1>3 DEF FinishManifest
<1>4. CASE Begin
  <2>1. done_size(resume_bitmap) \in Nat
    BY FinitelyManyBytes, FS_CardinalityType DEF done_size
  <2> QED
    BY <1>4, <2>1 DEF Begin
<1>5. CASE OpenFile
  <2>1. SetLen(dst[file], size[file]) \in File
    BY <1>5, SetLenType DEF OpenFile
  <2> QED
    BY <1>5, <2>1 DEF OpenFile
<1>6. CASE SkipChunk
  BY <1>6 DEF SkipChunk, NextChunk
<1>7. CASE NeedChunk
  <2>1. Cardinality(ChunkBytes(file, chunk)) \in Nat
    BY FinitelyManyBytes, FS_CardinalityType
  <2>2. bytes_done' \in Nat
    BY <1>7, <2>1 DEF NeedChunk, Uncount
  <2>3. resume_bitmap' \in SUBSET (Entries \X Offsets)
    BY <1>7 DEF NeedChunk
  <2> QED
    BY <1>7, <2>2, <2>3 DEF NeedChunk
<1>71. CASE ReadPart
  <2>1. file \in Entries /\ budget' \in [Events -> Nat] /\ chunk \in Nat
    BY <1>71, Spent DEF ReadPart, ControlOK
  <2> QED
    BY <1>71, <2>1, ReadPartType DEF ReadPart
<1>8. CASE CopyChunk
  <2>1. Cardinality(ChunkBytes(file, chunk)) \in Nat
    BY FinitelyManyBytes, FS_CardinalityType
  <2>2. <<file, chunk>> \in Entries \X Offsets
    BY <1>8, ChunkInRange DEF CopyChunk, ControlOK
  <2>3. Overwrite(dst[file], Seen, ChunkBytes(file, chunk)) \in File
    BY <2>2, OverwriteType, SeenType
  <2>4. dst' \in [Entries -> File]
    BY <1>8, <2>3 DEF CopyChunk
  <2>5. resume_bitmap' \in SUBSET (Entries \X Offsets) /\ bytes_done' \in Nat
    BY <1>8, <2>1, <2>2 DEF CopyChunk
  <2> QED
    BY <1>8, <2>4, <2>5 DEF CopyChunk
<1>9. CASE CopyMismatch
  BY <1>9 DEF CopyMismatch, RetryOrFail
<1>10. CASE TruncateCheckpoint
  BY <1>10 DEF TruncateCheckpoint
<1>11. CASE WriteCheckpoint
  BY <1>11 DEF WriteCheckpoint, NextChunk
<1>12. CASE CheckFile
  <2>1. file \in Entries
    BY <1>12 DEF CheckFile, ControlOK
  <2>2. /\ file' \in 1..(Files + 1) /\ files_completed' \in Nat
        /\ pc' \in {"file", "failed"}
    BY <1>12, <2>1 DEF CheckFile, Entries
  <2> QED
    BY <1>12, <2>2 DEF CheckFile
<1>13. CASE LoadCheckpoint
  BY <1>13 DEF LoadCheckpoint
<1>14. CASE BuildAgain
  BY <1>14 DEF BuildAgain
<1>15. CASE CopyFault
  <2>1. file \in Entries
    BY <1>15 DEF CopyFault, ControlOK
  <2>2. \A S : Overwrite(dst[file], Seen, S) \in File
    BY <2>1, OverwriteType, SeenType
  <2>3. dst' \in [Entries -> File]
    <3>1. dst' = dst \/ \E S : dst' = [dst EXCEPT ![file] = Overwrite(@, Seen, S)]
      BY <1>15 DEF CopyFault
    <3> QED
      BY <2>1, <2>2, <3>1
  <2>4. budget' \in [Events -> Nat]
    BY <1>15, Spent DEF CopyFault
  <2> QED
    BY <1>15, <2>3, <2>4 DEF CopyFault, RetryOrFail
<1>16. CASE IOFault
  BY <1>16, Spent DEF IOFault
<1>17. CASE Crash
  <2>1. buf' \in Seq(Byte)
    BY <1>17 DEF Crash
  <2> QED
    BY <1>17, <2>1, Spent DEF Crash
<1>18. CASE EditSource
  <2>1. src' \in [Entries -> File]
    BY <1>18 DEF EditSource
  <2>2. budget' \in [Events -> Nat]
    BY <1>18, Spent DEF EditSource
  <2> QED
    BY <1>18, <2>1, <2>2 DEF EditSource
<1>19. CASE Retarget
  <2>1. dst' \in [Entries -> File]
    BY <1>19 DEF Retarget
  <2>2. budget' \in [Events -> Nat]
    BY <1>19, Spent DEF Retarget
  <2> QED
    BY <1>19, <2>1, <2>2 DEF Retarget
<1>20. CASE UNCHANGED vars
  BY <1>20 DEF vars
<1> QED
  BY <1>1, <1>2, <1>21, <1>3, <1>4, <1>5, <1>6, <1>7, <1>71, <1>8, <1>9, <1>10, <1>11, <1>12,
     <1>13, <1>14, <1>15, <1>16, <1>17, <1>18, <1>19, <1>20
  DEF Next, BuildStep, TransferStep, CallerStep, Disturbance

\* ... and the executor where it may be.
LEMMA ControlStep == TypeInv /\ [Next]_vars => ControlOK'
<1> SUFFICES ASSUME TypeInv, [Next]_vars PROVE ControlOK'
  OBVIOUS
<1>1. file \in 1..(Files + 1) /\ Files \in Nat
  BY TransferAssumption DEF TypeInv, TypeOK
<1> USE <1>1 DEF ControlOK, TypeInv, Goto, Entries
<1>2. CASE BuildStep
  BY <1>2 DEF BuildStep, StatEntry, HashChunk, HashEnd, FinishManifest
<1>3. CASE CallerStep
  BY <1>3 DEF CallerStep, Begin, LoadCheckpoint, BuildAgain
<1>4. CASE OpenFile \/ SkipChunk \/ CheckFile
  BY <1>4 DEF OpenFile, SkipChunk, CheckFile
<1>5. CASE NeedChunk
  <2>1. ChunkBytes(file, chunk)' = ChunkBytes(file, chunk)
    BY <1>5 DEF NeedChunk, ChunkBytes, manifest
  <2> QED
    BY <1>5, <2>1 DEF NeedChunk
<1>6. CASE CopyChunk
  BY <1>6 DEF CopyChunk
<1>7. CASE CopyMismatch \/ CopyFault
  <2>1. ChunkBytes(file, chunk)' = ChunkBytes(file, chunk)
    BY <1>7 DEF CopyMismatch, CopyFault, ChunkBytes, manifest
  <2>2. pc' \in {"copy", "failed"} /\ pc = "copy"
    BY <1>7 DEF CopyMismatch, CopyFault, RetryOrFail
  <2> QED
    BY <1>7, <2>1, <2>2 DEF CopyMismatch, CopyFault
<1>8. CASE TruncateCheckpoint
  BY <1>8 DEF TruncateCheckpoint
<1>9. CASE WriteCheckpoint
  BY <1>9 DEF WriteCheckpoint
<1>10. CASE IOFault \/ Crash
  BY <1>10 DEF IOFault, Crash
<1>11. CASE EditSource \/ UNCHANGED vars
  <2>1. ChunkBytes(file, chunk)' = ChunkBytes(file, chunk)
    BY <1>11 DEF EditSource, vars, ChunkBytes, manifest
  <2> QED
    BY <1>11, <2>1 DEF EditSource, vars
<1>12. CASE Retarget
  BY <1>12 DEF Retarget, Running
<1>13. CASE ReadPart
  <2>1. ChunkBytes(file, chunk)' = ChunkBytes(file, chunk)
    BY <1>13 DEF ReadPart, ChunkBytes, manifest
  <2> QED
    BY <1>13, <2>1 DEF ReadPart
<1> QED
  BY <1>13, <1>2, <1>3, <1>4, <1>5, <1>6, <1>7, <1>8, <1>9, <1>10, <1>11, <1>12
  DEF Next, TransferStep, Disturbance

\* The types and the control invariant hold throughout.
LEMMA TypeInvariant == Spec => []TypeInv
<1>1. Init => TypeInv
  BY TypeInit
<1>2. TypeInv /\ [Next]_vars => TypeInv'
  BY TypeOKStep, ControlStep DEF TypeInv
<1> QED
  BY <1>1, <1>2, PTL DEF Spec

\* The variables have their types: offsets, sizes and lengths stay within files, and
\* a resume bitmap, in memory or saved, only names entries and chunks of them.
THEOREM TypeCorrect == Spec => []TypeOK
  BY TypeInvariant, PTL DEF TypeInv

-----------------------------------------------------------------------------
(* How a file was hashed.                                                  *)

\* The number of chunks of an entry is one.
LEMMA ChunkCountType ==
    ASSUME TypeOK, NEW e \in Entries
    PROVE  ChunkCount(e) \in Nat
  BY DEF TypeOK, ChunkCount

\* Every read has returned one byte or more, at most a buffer full of them, and the image
\* is what they have returned.
Hashed(e) ==
    /\ image[e].len = ChunkStart(e, ChunkCount(e))
    /\ image[e].len <= ChunkCount(e) * ChunkSize
    /\ \A c \in 0..(ChunkCount(e) - 1) :
          /\ ChunkStart(e, c) < ChunkEnd(e, c)
          /\ ChunkEnd(e, c) <= ChunkStart(e, c) + ChunkSize
          /\ ChunkEnd(e, c) <= image[e].len

HashInv == \A e \in Entries : Hashed(e)

\* Where the chunks of chunk_hashes are cut.
LEMMA CutType ==
    ASSUME TypeOK, NEW e \in Entries
    PROVE  /\ ChunkCount(e) \in Nat
           /\ \A c \in 0..ChunkCount(e) : ChunkStart(e, c) \in 0..MaxLen
           /\ \A c \in 0..(ChunkCount(e) - 1) :
                 ChunkEnd(e, c) \in 1..MaxLen /\ ChunkEnd(e, c) = ChunkStart(e, c + 1)
           /\ image[e].len \in 0..MaxLen /\ size[e] \in 0..MaxLen
<1>1. cuts[e] \in Seq(1..MaxLen) /\ image[e] \in File /\ size[e] \in 0..MaxLen
  BY DEF TypeOK
<1>2. \A i \in 1..Len(cuts[e]) : cuts[e][i] \in 1..MaxLen
  BY <1>1, ElementOfSeq
<1>3. Len(cuts[e]) \in Nat /\ MaxLen \in Nat
  BY <1>1, TransferAssumption
<1>4. ASSUME NEW c \in 0..Len(cuts[e]) PROVE ChunkStart(e, c) \in 0..MaxLen
  <2>1. c = 0 \/ c \in 1..Len(cuts[e])
    BY <1>3
  <2> QED
    BY <1>2, <1>3, <2>1 DEF ChunkStart
<1>5. ASSUME NEW c \in 0..(Len(cuts[e]) - 1)
      PROVE  ChunkEnd(e, c) \in 1..MaxLen /\ ChunkEnd(e, c) = ChunkStart(e, c + 1)
  <2>1. c + 1 \in 1..Len(cuts[e]) /\ c + 1 # 0
    BY <1>3
  <2> QED
    BY <1>2, <2>1 DEF ChunkStart, ChunkEnd
<1> QED
  BY <1>1, <1>3, <1>4, <1>5 DEF ChunkCount, File

LEMMA HashInit == Init => HashInv
  BY TransferAssumption DEF Init, HashInv, Hashed, ChunkCount, ChunkStart, ChunkEnd, EmptyFile

\* A read that has returned n bytes.
LEMMA NextRead ==
    ASSUME TypeInv, HashInv, HashChunk
    PROVE  /\ file \in Entries /\ image[file].len \in Nat
           /\ \A e \in Entries \ {file} : image'[e] = image[e] /\ cuts'[e] = cuts[e]
           /\ \A e \in {file} : \E n \in 1..ChunkSize :
                 /\ ReadReturns(n, src[e], image[e].len)
                 /\ image' = [image EXCEPT ![e] = Extended(@, src[e], n)]
                 /\ image'[e].len = image[e].len + n
                 /\ cuts' = [cuts EXCEPT ![e] = Append(@, image[e].len + n)]
                 /\ ChunkCount(e)' = ChunkCount(e) + 1
                 /\ \A c \in 0..ChunkCount(e) : ChunkStart(e, c)' = ChunkStart(e, c)
                 /\ \A c \in 0..(ChunkCount(e) - 1) : ChunkEnd(e, c)' = ChunkEnd(e, c)
                 /\ \A c \in {ChunkCount(e)} : /\ ChunkStart(e, c + 1)' = image[e].len + n
                                             /\ ChunkEnd(e, c)' = image[e].len + n
<1>1. PICK n \in 1..ChunkSize :
        /\ ReadReturns(n, src[file], image[file].len)
        /\ image' = [image EXCEPT ![file] = Extended(@, src[file], n)]
        /\ cuts' = [cuts EXCEPT ![file] = Append(@, image[file].len + n)]
  BY DEF HashChunk
<1>2. /\ file \in Entries /\ image \in [Entries -> File] /\ image[file].len \in Nat
      /\ cuts \in [Entries -> Seq(1..MaxLen)] /\ cuts[file] \in Seq(1..MaxLen)
  BY TransferAssumption DEF HashChunk, TypeInv, TypeOK, ControlOK, File
<1>3. image'[file].len = image[file].len + n
  BY <1>1, <1>2 DEF Extended
<1>4. cuts'[file] = Append(cuts[file], image[file].len + n)
  BY <1>1, <1>2
<1>5. /\ Len(cuts'[file]) = Len(cuts[file]) + 1 /\ Len(cuts[file]) \in Nat
      /\ \A i \in 1..Len(cuts[file]) : cuts'[file][i] = cuts[file][i]
      /\ cuts'[file][Len(cuts[file]) + 1] = image[file].len + n
  BY <1>2, <1>4, AppendProperties
<1>6. ASSUME NEW e \in {file}
      PROVE  /\ \A c \in 0..ChunkCount(e) : ChunkStart(e, c)' = ChunkStart(e, c)
             /\ \A c \in 0..(ChunkCount(e) - 1) : ChunkEnd(e, c)' = ChunkEnd(e, c)
             /\ \A c \in {ChunkCount(e)} : /\ ChunkStart(e, c + 1)' = image[e].len + n
                                         /\ ChunkEnd(e, c)' = image[e].len + n
             /\ ChunkCount(e)' = ChunkCount(e) + 1
  <2>0. \A c \in 0..(Len(cuts[e]) - 1) : cuts'[e][c + 1] = cuts[e][c + 1]
    BY <1>5
  <2>1. \A c \in 0..ChunkCount(e) : ChunkStart(e, c)' = ChunkStart(e, c)
    BY <1>5 DEF ChunkStart, ChunkCount
  <2>4. \A c \in 0..(ChunkCount(e) - 1) : ChunkEnd(e, c)' = ChunkEnd(e, c)
    BY <2>0 DEF ChunkEnd, ChunkCount
  <2>2. \A c \in {ChunkCount(e)} : /\ ChunkStart(e, c + 1)' = image[e].len + n
                                  /\ ChunkEnd(e, c)' = image[e].len + n
    BY <1>5 DEF ChunkStart, ChunkEnd, ChunkCount
  <2>3. ChunkCount(e)' = ChunkCount(e) + 1
    BY <1>5 DEF ChunkCount
  <2> QED
    BY <2>1, <2>2, <2>3, <2>4
<1> QED
  BY <1>1, <1>2, <1>3, <1>6

\* Steps that leave the hashes alone.
LEMMA ManifestStays ==
    ASSUME TypeInv, [Next]_vars, ~StatEntry, ~HashChunk
    PROVE  size' = size /\ image' = image /\ cuts' = cuts
  BY DEF Next, BuildStep, HashEnd, FinishManifest, TransferStep, CallerStep, Disturbance, OpenFile,
     SkipChunk, NeedChunk, ReadPart, CopyChunk, CopyMismatch, TruncateCheckpoint,
     WriteCheckpoint, CheckFile, Begin, LoadCheckpoint, BuildAgain, CopyFault, IOFault, Crash,
     EditSource, Retarget, vars, manifest

LEMMA HashStep == TypeInv /\ HashInv /\ [Next]_vars => HashInv'
<1> SUFFICES ASSUME TypeInv, HashInv, [Next]_vars, NEW e \in Entries
             PROVE  Hashed(e)'
  BY DEF HashInv
<1>1. CASE StatEntry
  <2>1. CASE e = file
    <3>1. image'[e] = EmptyFile /\ cuts'[e] = <<>>
      BY <1>1, <2>1 DEF StatEntry, TypeInv, TypeOK
    <3> QED
      BY <3>1, TransferAssumption DEF Hashed, ChunkCount, ChunkStart, ChunkEnd, EmptyFile
  <2>2. CASE e # file
    <3>1. image'[e] = image[e] /\ cuts'[e] = cuts[e]
      BY <1>1, <2>2 DEF StatEntry, TypeInv, TypeOK
    <3> QED
      BY <3>1 DEF HashInv, Hashed, ChunkCount, ChunkStart, ChunkEnd
  <2> QED
    BY <2>1, <2>2
<1>2. CASE HashChunk
  <2>1. CASE e = file
    <3> PICK count \in Nat : count = ChunkCount(e)
      BY CutType DEF TypeInv
    <3>0. /\ count \in Nat
          /\ \A c \in 0..count : ChunkStart(e, c) \in 0..MaxLen
          /\ \A c \in 0..(count - 1) : ChunkEnd(e, c) \in 1..MaxLen
      BY CutType DEF TypeInv
    <3>1. /\ count \in Nat /\ count * ChunkSize \in Nat
          /\ (count + 1) * ChunkSize = count * ChunkSize + ChunkSize /\ ChunkSize \in Nat
          /\ \A c \in 0..count : ChunkStart(e, c) \in Nat
          /\ \A c \in 0..(count - 1) : ChunkEnd(e, c) \in Nat
      <4>1. \A n \in 0..MaxLen : n \in Nat
        BY TransferAssumption
      <4>2. count * ChunkSize \in Nat /\ (count + 1) * ChunkSize = count * ChunkSize + ChunkSize
        BY <3>0, PlaceInChunk, TransferAssumption
      <4> QED
        BY <3>0, <4>1, <4>2, TransferAssumption
    <3>2. PICK n \in 1..ChunkSize :
            /\ image'[e].len = image[e].len + n
            /\ ChunkCount(e)' = count + 1
            /\ \A c \in 0..count : ChunkStart(e, c)' = ChunkStart(e, c)
            /\ ChunkStart(e, count + 1)' = image[e].len + n
            /\ \A c \in 0..(count - 1) : ChunkEnd(e, c)' = ChunkEnd(e, c)
            /\ ChunkEnd(e, count)' = image[e].len + n
      BY <1>2, <2>1, NextRead
    <3>3. image[e].len \in Nat /\ Hashed(e)
      BY <1>2, <2>1, NextRead DEF HashInv
    <3>4. /\ image[e].len = ChunkStart(e, count)
          /\ image[e].len <= count * ChunkSize
          /\ \A c \in 0..(count - 1) :
                /\ ChunkStart(e, c) < ChunkEnd(e, c)
                /\ ChunkEnd(e, c) <= ChunkStart(e, c) + ChunkSize
                /\ ChunkEnd(e, c) <= image[e].len
      BY <3>3 DEF Hashed
    <3>5. image'[e].len = ChunkStart(e, count + 1)' /\ image'[e].len <= (count + 1) * ChunkSize
      <4>1. image[e].len + n <= count * ChunkSize + ChunkSize
        BY <3>1, <3>2, <3>3, <3>4
      <4> QED
        BY <3>1, <3>2, <4>1
    <3>6. ASSUME NEW c \in 0..count
          PROVE  /\ ChunkStart(e, c)' < ChunkEnd(e, c)'
                 /\ ChunkEnd(e, c)' <= ChunkStart(e, c)' + ChunkSize
                 /\ ChunkEnd(e, c)' <= image'[e].len
      <4>1. CASE c = count
        BY <3>1, <3>2, <3>3, <3>4, <4>1
      <4>2. CASE c \in 0..(count - 1)
        BY <3>1, <3>2, <3>3, <3>4, <4>2
      <4> QED
        BY <3>1, <4>1, <4>2
    <3>7. 0..(ChunkCount(e)' - 1) = 0..count
      BY <3>1, <3>2
    <3> QED
      BY <3>1, <3>2, <3>5, <3>6, <3>7 DEF Hashed
  <2>2. CASE e # file
    <3>1. image'[e] = image[e] /\ cuts'[e] = cuts[e]
      BY <1>2, <2>2, NextRead
    <3> QED
      BY <3>1 DEF HashInv, Hashed, ChunkCount, ChunkStart, ChunkEnd
  <2> QED
    BY <2>1, <2>2
<1>3. CASE ~StatEntry /\ ~HashChunk
  BY <1>3, ManifestStays DEF HashInv, Hashed, ChunkCount, ChunkStart, ChunkEnd
<1> QED
  BY <1>1, <1>2, <1>3

LEMMA HashInvariant == Spec => [](TypeInv /\ HashInv)
  BY HashInit, HashStep, TypeInvariant, PTL DEF Spec

\* Places before the end of what fits.
LEMMA Within ==
    ASSUME NEW s \in Nat, NEW m \in Nat, NEW b \in Nat, NEW n \in 0..m, NEW k \in 0..b,
           s + k <= n, NEW i \in 0..(k - 1)
    PROVE  i \in 0..(b - 1) /\ s + i \in 0..(m - 1) /\ s + i < n
  OBVIOUS

\* The executor's chunk of k bytes, if k is what is left or a whole chunk.
LEMMA ChunkPlaces ==
    ASSUME NEW e \in Entries, size[e] \in 0..MaxLen, NEW c \in Nat, NEW k \in 0..ChunkSize,
           c * ChunkSize + k <= size[e], k = ChunkSize \/ c * ChunkSize + k = size[e]
    PROVE  {o % ChunkSize : o \in ChunkBytes(e, c)} = 0..(k - 1)
<1> DEFINE S == c * ChunkSize
<1>1. /\ \A i \in 0..(ChunkSize - 1) : (S + i) \div ChunkSize = c /\ (S + i) % ChunkSize = i
      /\ \A o \in Nat : o % ChunkSize \in 0..(ChunkSize - 1)
      /\ \A o \in Nat : o \div ChunkSize = c => o = S + (o % ChunkSize)
      /\ S \in Nat /\ ChunkSize \in Nat /\ MaxLen \in Nat
  BY PlaceInChunk, TransferAssumption
<1> HIDE DEF S
<1>2. /\ S + k <= size[e] /\ (k = ChunkSize \/ S + k = size[e])
      /\ S \in Nat /\ ChunkSize \in Nat /\ MaxLen \in Nat /\ size[e] \in 0..MaxLen
  BY <1>1 DEF S
<1>3. ASSUME NEW o \in ChunkBytes(e, c) PROVE o % ChunkSize \in 0..(k - 1)
  <2>1. o \in Nat /\ o < size[e] /\ o \div ChunkSize = c
    BY <1>3 DEF ChunkBytes, Offsets
  <2>2. o = S + (o % ChunkSize) /\ o % ChunkSize \in 0..(ChunkSize - 1)
    BY <1>1, <2>1
  <2> QED
    BY <1>1, <1>2, <2>1, <2>2
<1>4. ASSUME NEW i \in 0..(k - 1) PROVE \E o \in ChunkBytes(e, c) : o % ChunkSize = i
  <2>1. i \in 0..(ChunkSize - 1) /\ S + i \in 0..(MaxLen - 1) /\ S + i < size[e]
    BY <1>2, Within
  <2>2. (S + i) \div ChunkSize = c /\ (S + i) % ChunkSize = i
    BY <1>1, <2>1
  <2> QED
    BY <2>1, <2>2 DEF ChunkBytes, Offsets
<1> QED
  BY <1>3, <1>4

\* If a chunk of chunk_hashes that is not the last starts where the executor's does, and
\* any file matches it, then it is of chunk_size bytes, and so the next does.
LEMMA NextStart ==
    ASSUME TypeOK, HashInv, NEW e \in Entries, size[e] = image[e].len,
           NEW c \in Nat, c + 1 < ChunkCount(e), ChunkStart(e, c) = c * ChunkSize,
           ChunkBytes(e, c) = {} \/ \E f : ChunkMatches(f, e, c)
    PROVE  ChunkStart(e, c + 1) = (c + 1) * ChunkSize
<1> DEFINE S == ChunkStart(e, c)
           k == ChunkEnd(e, c) - S
<1>1. /\ ChunkCount(e) \in Nat /\ c \in 0..(ChunkCount(e) - 1)
      /\ c + 1 \in 0..(ChunkCount(e) - 1)
  BY CutType
<1>2. /\ S \in Nat /\ k \in 1..ChunkSize /\ ChunkStart(e, c + 1) = S + k
      /\ S + k < size[e] /\ size[e] \in 0..MaxLen
  <2>1. /\ ChunkStart(e, c) < ChunkEnd(e, c)
        /\ ChunkEnd(e, c) <= ChunkStart(e, c) + ChunkSize
        /\ ChunkStart(e, c + 1) < ChunkEnd(e, c + 1)
        /\ ChunkEnd(e, c + 1) <= image[e].len
    BY <1>1 DEF HashInv, Hashed
  <2>2. /\ ChunkStart(e, c) \in 0..MaxLen /\ ChunkEnd(e, c) \in 1..MaxLen
        /\ ChunkEnd(e, c) = ChunkStart(e, c + 1)
        /\ ChunkEnd(e, c + 1) \in 1..MaxLen /\ image[e].len \in 0..MaxLen
    BY <1>1, CutType
  <2> QED
    BY <2>1, <2>2, TransferAssumption
<1> HIDE DEF k
<1>3. S = c * ChunkSize /\ S \in Nat
  BY <1>2
<1> HIDE DEF S
<1>4. /\ \A i \in 0..(ChunkSize - 1) : (S + i) \div ChunkSize = c /\ (S + i) % ChunkSize = i
      /\ (c + 1) * ChunkSize = S + ChunkSize /\ ChunkSize \in Nat \ {0} /\ MaxLen \in Nat
  BY <1>3, PlaceInChunk, TransferAssumption
<1>5. ASSUME k < ChunkSize PROVE FALSE
  <2>1. k \in 0..(ChunkSize - 1) /\ S + k \in Offsets
    BY <1>2, <1>4, <1>5 DEF Offsets
  <2>2. S + k \in ChunkBytes(e, c) /\ (S + k) % ChunkSize = k
    BY <1>2, <1>4, <2>1 DEF ChunkBytes
  <2>3. {o % ChunkSize : o \in ChunkBytes(e, c)} = 0..(k - 1)
    BY <2>2 DEF ChunkMatches, k, S
  <2>4. k \in 0..(k - 1)
    BY <2>2, <2>3
  <2> QED
    BY <1>2, <2>4
<1> QED
  BY <1>2, <1>4, <1>5

\* A file with the contents that were hashed matches every chunk of an aligned entry.
LEMMA AlignedMatches ==
    ASSUME TypeOK, HashInv, NEW e \in Entries, Aligned(e), size[e] = image[e].len,
           NEW f, SameContent(f, image[e]), NEW c \in Nat, c < ChunkCount(e)
    PROVE  ChunkMatches(f, e, c)
<1> DEFINE S == c * ChunkSize
           k == ChunkEnd(e, c) - ChunkStart(e, c)
<1>1. /\ ChunkCount(e) \in Nat /\ c \in 0..(ChunkCount(e) - 1)
      /\ ChunkStart(e, c) \in 0..MaxLen /\ ChunkEnd(e, c) \in 1..MaxLen
      /\ image[e].len \in 0..MaxLen /\ MaxLen \in Nat /\ ChunkSize \in Nat \ {0}
      /\ S \in Nat /\ (c + 1) * ChunkSize = S + ChunkSize
  <2>1. ChunkCount(e) \in Nat /\ c \in 0..(ChunkCount(e) - 1) /\ c \in 0..ChunkCount(e)
    BY CutType
  <2>2. S \in Nat /\ (c + 1) * ChunkSize = S + ChunkSize
    BY PlaceInChunk, TransferAssumption
  <2> HIDE DEF S
  <2> QED
    BY <2>1, <2>2, CutType, TransferAssumption
<1>2. ChunkStart(e, c) = S
  <2>1. CASE c = 0
    BY <2>1, TransferAssumption DEF ChunkStart
  <2>2. CASE c # 0
    <3>1. c \in 1..(ChunkCount(e) - 1)
      BY <1>1, <2>2
    <3> QED
      BY <2>2, <3>1 DEF Aligned, ChunkStart
  <2> QED
    BY <2>1, <2>2
<1>3. \/ ChunkEnd(e, c) = S + ChunkSize
      \/ ChunkEnd(e, c) = image[e].len
  <2>1. CASE c + 1 = ChunkCount(e)
    <3>1. ChunkEnd(e, c) = ChunkStart(e, ChunkCount(e))
      BY <1>1, <2>1, CutType
    <3> QED
      BY <3>1 DEF HashInv, Hashed
  <2>2. CASE c + 1 # ChunkCount(e)
    <3>1. c + 1 \in 1..(ChunkCount(e) - 1)
      BY <1>1, <2>2
    <3> QED
      BY <1>1, <3>1 DEF Aligned, ChunkEnd
  <2> QED
    BY <2>1, <2>2
<1>4. /\ ChunkStart(e, c) < ChunkEnd(e, c) /\ ChunkEnd(e, c) <= ChunkStart(e, c) + ChunkSize
      /\ ChunkEnd(e, c) <= image[e].len
  BY <1>1 DEF HashInv, Hashed
<1> HIDE DEF S
<1>5. /\ k \in 0..ChunkSize /\ S + k <= size[e] /\ size[e] \in 0..MaxLen
      /\ k = ChunkSize \/ S + k = size[e]
  BY <1>1, <1>2, <1>3, <1>4
<1>6. {o % ChunkSize : o \in ChunkBytes(e, c)} = 0..(k - 1)
  <2> HIDE DEF k
  <2> QED
    BY <1>5, ChunkPlaces DEF S
<1>7. ASSUME NEW o \in ChunkBytes(e, c)
      PROVE  o < f.len /\ f.byte[o] = image[e].byte[ChunkStart(e, c) + (o % ChunkSize)]
  <2>1. o \in Offsets /\ o \in Nat /\ o < size[e] /\ o \div ChunkSize = c
    BY <1>7 DEF ChunkBytes, Offsets
  <2>2. o = S + (o % ChunkSize)
    BY <1>1, <2>1, PlaceInChunk DEF S
  <2>3. o < f.len /\ f.byte[o] = image[e].byte[o]
    BY <2>1 DEF SameContent
  <2> QED
    BY <1>2, <2>2, <2>3
<1> QED
  BY <1>6, <1>7 DEF ChunkMatches

-----------------------------------------------------------------------------
(* A manifest of an unedited source is the source.                         *)

Unedited  == budget["edit"] = Budget["edit"]
FullReads == budget["short"] = Budget["short"]

\* Of an entry that is hashed ...
Told(e) ==
    /\ SameContent(src[e], image[e]) /\ size[e] = src[e].len
    /\ FullReads => Aligned(e)

\* ... and of one that is being hashed: what was read is how the source begins.
Telling(e) ==
    /\ size[e] = src[e].len /\ image[e].len <= src[e].len
    /\ \A o \in Offsets : o < image[e].len => image[e].byte[o] = src[e].byte[o]
    /\ FullReads => \/ \A i \in 1..ChunkCount(e) : cuts[e][i] = i * ChunkSize
                    \/ image[e].len = src[e].len /\ Aligned(e)

SourceInv ==
    /\ budget["edit"] <= Budget["edit"] /\ budget["short"] <= Budget["short"]
    /\ Unedited =>
          /\ \A e \in Entries : (pc \in {"plan", "hash_entry"} => e < file) => Told(e)
          /\ pc = "hash_entry" => Telling(file)

LEMMA SourceInit == Init => SourceInv
  BY TransferAssumption DEF Init, SourceInv, Entries, Events

\* No step gives a budget back, and an edit is the only one that touches a source.
LEMMA BudgetFalls ==
    ASSUME TypeInv, SourceInv, [Next]_vars
    PROVE  /\ budget'["edit"] <= Budget["edit"] /\ budget'["short"] <= Budget["short"]
           /\ FullReads' => FullReads
           /\ Unedited' => Unedited /\ src' = src
<1>1. /\ budget \in [Events -> Nat] /\ Budget \in [Events -> Nat]
      /\ "edit" \in Events /\ "short" \in Events
      /\ budget["edit"] <= Budget["edit"] /\ budget["short"] <= Budget["short"]
  BY TransferAssumption DEF TypeInv, TypeOK, Events, SourceInv
<1>2. budget' = budget \/ \E event \in Events : event # "all" /\ Spend(event)
  BY EventTypes DEF Next, BuildStep, StatEntry, HashChunk, HashEnd, FinishManifest, ReadReturns,
     TransferStep, OpenFile, SkipChunk, NeedChunk, ReadPart, CopyChunk, CopyMismatch,
     TruncateCheckpoint, WriteCheckpoint, CheckFile, CallerStep, Begin, LoadCheckpoint,
     BuildAgain, Disturbance, CopyFault, IOFault, Crash, EditSource, Retarget, vars
<1>3. \A event \in Events : budget'[event] <= budget[event]
  <2>1. ASSUME NEW event \in Events, event # "all", Spend(event), NEW other \in Events
        PROVE  budget'[other] <= budget[other]
    <3>1. budget[event] \in Int /\ budget[other] \in Int
      BY <1>1
    <3>2. budget'[other] = budget[other] - 1 \/ budget'[other] = budget[other]
      BY <1>1, <2>1, Spent
    <3> QED
      BY <3>1, <3>2
  <2> QED
    BY <1>1, <1>2, <2>1
<1>4. /\ budget'["edit"] <= budget["edit"] /\ budget'["short"] <= budget["short"]
      /\ budget["edit"] \in Int /\ budget["short"] \in Int
      /\ Budget["edit"] \in Int /\ Budget["short"] \in Int
  BY <1>1, <1>3
<1>5. budget'["edit"] \in Int /\ budget'["short"] \in Int
  <2>1. budget' \in [Events -> Nat]
    BY TypeOKStep DEF TypeOK
  <2> QED
    BY <1>1, <2>1
<1>6. EditSource => budget'["edit"] = budget["edit"] - 1
  BY <1>1, Spent DEF EditSource
<1>7. src' = src \/ EditSource
  BY DEF Next, BuildStep, StatEntry, HashChunk, HashEnd, FinishManifest,
     TransferStep, OpenFile, SkipChunk, NeedChunk, ReadPart, CopyChunk, CopyMismatch,
     TruncateCheckpoint, WriteCheckpoint, CheckFile, CallerStep, Begin, LoadCheckpoint,
     BuildAgain, Disturbance, CopyFault, IOFault, Crash, Retarget, vars
<1> QED
  BY <1>1, <1>4, <1>5, <1>6, <1>7 DEF FullReads, Unedited

\* A read that fills the buffer, or comes to the end of the source, keeps the chunks of an
\* entry where the executor's are.
LEMMA TellingOn ==
    ASSUME TypeInv, HashInv, HashChunk, Telling(file), src' = src, FullReads' => FullReads
    PROVE  Telling(file)'
<1>1. PICK e \in Entries : e = file
  BY NextRead
<1>2. PICK n \in 1..ChunkSize :
        /\ ReadReturns(n, src[e], image[e].len)
        /\ image' = [image EXCEPT ![e] = Extended(@, src[e], n)]
        /\ image'[e].len = image[e].len + n
        /\ cuts' = [cuts EXCEPT ![e] = Append(@, image[e].len + n)]
        /\ ChunkCount(e)' = ChunkCount(e) + 1
        /\ \A c \in {ChunkCount(e)} : ChunkEnd(e, c)' = image[e].len + n
  BY <1>1, NextRead
<1>3. /\ src[e] \in File /\ image[e] \in File /\ image \in [Entries -> File]
      /\ cuts[e] \in Seq(1..MaxLen) /\ cuts \in [Entries -> Seq(1..MaxLen)]
      /\ ChunkCount(e) \in Nat
  BY ChunkCountType DEF TypeInv, TypeOK
<1>4. /\ file' = file /\ size' = size
  BY DEF HashChunk
<1>5. /\ image[e].len \in Nat /\ src[e].len \in Nat /\ ChunkSize \in Nat
      /\ size[e] = src[e].len /\ image[e].len + n <= src[e].len
  BY <1>1, <1>2, <1>3, TransferAssumption DEF File, ReadReturns, Telling
<1>6. ASSUME NEW o \in Offsets, o < image'[e].len
      PROVE  image'[e].byte[o] = src[e].byte[o]
  <2>1. image'[e] = Extended(image[e], src[e], n)
    BY <1>2, <1>3
  <2>2. o \in Nat /\ o < image[e].len + n
    BY <1>2, <1>6 DEF Offsets
  <2>3. image'[e].byte[o] = IF o < image[e].len THEN image[e].byte[o] ELSE src[e].byte[o]
    BY <2>1, <2>2 DEF Extended
  <2> QED
    BY <1>1, <2>3 DEF Telling
<1>7. ASSUME FullReads'
      PROVE  \/ \A i \in 1..ChunkCount(e)' : cuts'[e][i] = i * ChunkSize
             \/ image'[e].len = src[e].len /\ Aligned(e)'
  <2>1. budget' = budget
    <3>1. ~Spend("short")
      <4>1. /\ budget["short"] \in Nat /\ Budget["short"] \in Nat /\ FullReads
            /\ "short" \in Events /\ "short" # "all"
        BY <1>7, TransferAssumption DEF TypeInv, TypeOK, Events
      <4>2. Spend("short") => budget'["short"] = budget["short"] - 1
        BY <4>1, Spent DEF TypeInv, TypeOK
      <4> QED
        BY <1>7, <4>1, <4>2 DEF FullReads
    <3> QED
      BY <1>2, <3>1 DEF ReadReturns
  <2>2. \A i \in 1..ChunkCount(e) : cuts[e][i] = i * ChunkSize
    <3>1. image[e].len # src[e].len
      BY <1>2, <1>5
    <3> QED
      BY <1>1, <1>7, <3>1 DEF Telling
  <2>3. image[e].len = ChunkCount(e) * ChunkSize
    <3>1. image[e].len = ChunkStart(e, ChunkCount(e))
      BY DEF HashInv, Hashed
    <3>2. ChunkCount(e) = 0 => ChunkCount(e) * ChunkSize = 0
      BY <1>5
    <3>3. ChunkCount(e) # 0 => ChunkCount(e) \in 1..ChunkCount(e)
      BY <1>3
    <3> QED
      BY <2>2, <3>1, <3>2, <3>3 DEF ChunkStart
  <2>4. /\ \A i \in 1..ChunkCount(e) : cuts'[e][i] = i * ChunkSize
        /\ cuts'[e][ChunkCount(e) + 1] = image[e].len + n
    <3>1. cuts'[e] = Append(cuts[e], image[e].len + n)
      BY <1>2, <1>3
    <3>2. \A i \in 1..Len(cuts[e]) : cuts'[e][i] = cuts[e][i]
      BY <1>3, <3>1, AppendProperties
    <3>3. cuts'[e][Len(cuts[e]) + 1] = image[e].len + n
      BY <1>3, <3>1, AppendProperties
    <3> QED
      BY <2>2, <3>2, <3>3 DEF ChunkCount
  <2>5. CASE image[e].len + n = src[e].len
    <3>0. ChunkCount(e)' - 1 = ChunkCount(e)
      BY <1>2, <1>3
    <3>1. \A i \in 1..(ChunkCount(e)' - 1) : cuts'[e][i] = i * ChunkSize
      BY <2>4, <3>0
    <3> QED
      BY <1>2, <2>5, <3>1 DEF Aligned
  <2>6. CASE n = ChunkSize
    <3>1. (ChunkCount(e) + 1) * ChunkSize = ChunkCount(e) * ChunkSize + ChunkSize
      BY <1>3, PlaceInChunk, TransferAssumption
    <3>2. cuts'[e][ChunkCount(e) + 1] = (ChunkCount(e) + 1) * ChunkSize
      BY <2>3, <2>4, <2>6, <3>1
    <3>3. \A i \in 1..(ChunkCount(e) + 1) : i \in 1..ChunkCount(e) \/ i = ChunkCount(e) + 1
      BY <1>3
    <3>4. \A i \in 1..(ChunkCount(e) + 1) : cuts'[e][i] = i * ChunkSize
      BY <2>4, <3>2, <3>3
    <3> QED
      BY <1>2, <3>4
  <2>7. n = ChunkSize \/ image[e].len + n = src[e].len
    <3>1. ~Spend("short")
      <4>1. budget["short"] \in Nat /\ "short" \in Events /\ "short" # "all"
        BY EventTypes DEF TypeInv, TypeOK
      <4>2. Spend("short") => budget'["short"] = budget["short"] - 1
        BY <4>1, Spent DEF TypeInv, TypeOK
      <4> QED
        BY <2>1, <4>1, <4>2
    <3> QED
      BY <1>2, <3>1 DEF ReadReturns
  <2> QED
    BY <2>5, <2>6, <2>7
<1>8. image'[e].len <= src[e].len
  BY <1>2, <1>5
<1> QED
  BY <1>1, <1>4, <1>5, <1>6, <1>7, <1>8 DEF Telling

LEMMA SourceStep == TypeInv /\ HashInv /\ SourceInv /\ [Next]_vars => SourceInv'
<1> SUFFICES ASSUME TypeInv, HashInv, SourceInv, [Next]_vars, Unedited'
             PROVE  /\ \A e \in Entries : (pc' \in {"plan", "hash_entry"} => e < file') => Told(e)'
                    /\ pc' = "hash_entry" => Telling(file)'
  BY BudgetFalls DEF SourceInv
<1>1. /\ src' = src /\ Unedited /\ (FullReads' => FullReads)
      /\ file \in 1..(Files + 1) /\ Files \in Nat
  BY BudgetFalls, TransferAssumption DEF TypeInv, TypeOK
<1>7. /\ \A e \in Entries : (pc \in {"plan", "hash_entry"} => e < file) => Told(e)
      /\ pc = "hash_entry" => Telling(file)
  BY <1>1 DEF SourceInv
\* An entry that stays as it is.
<1>2. ASSUME NEW e \in Entries, Told(e), size'[e] = size[e], image'[e] = image[e],
             cuts'[e] = cuts[e]
      PROVE  Told(e)'
  BY <1>1, <1>2, BudgetFalls DEF Told, SameContent, Aligned, ChunkCount
<1>3. CASE StatEntry
  <2>1. /\ pc = "plan" /\ pc' = "hash_entry" /\ file' = file /\ file \in Entries
        /\ size' = [size EXCEPT ![file] = src[file].len]
        /\ image' = [image EXCEPT ![file] = EmptyFile] /\ cuts' = [cuts EXCEPT ![file] = <<>>]
        /\ size \in [Entries -> 0..MaxLen] /\ image \in [Entries -> File]
        /\ cuts \in [Entries -> Seq(1..MaxLen)]
    BY <1>3 DEF StatEntry, Goto, TypeInv, TypeOK
  <2>2. ASSUME NEW e \in Entries, e < file PROVE Told(e)'
    <3>1. size'[e] = size[e] /\ image'[e] = image[e] /\ cuts'[e] = cuts[e]
      <4>1. e # file
        BY <1>1, <2>2 DEF Entries
      <4> QED
        BY <2>1, <4>1
    <3> QED
      BY <1>2, <1>7, <2>2, <3>1
  <2>3. /\ size'[file] = src[file].len /\ image'[file].len = 0 /\ cuts'[file] = <<>>
        /\ src[file].len \in Nat
    BY <2>1, TransferAssumption DEF EmptyFile, TypeInv, TypeOK, File
  <2>4. ChunkCount(file)' = 0
    BY <2>1, <2>3 DEF ChunkCount
  <2>5. Telling(file)'
    <3>1. \A o \in Offsets : ~(o < 0)
      BY DEF Offsets
    <3>2. \A i \in 1..0 : FALSE
      OBVIOUS
    <3> QED
      BY <1>1, <2>1, <2>3, <2>4, <3>1, <3>2 DEF Telling
  <2> QED
    BY <2>1, <2>2, <2>5
<1>4. CASE HashChunk
  <2>1. pc = "hash_entry" /\ pc' = pc /\ file' = file /\ size' = size
    BY <1>4 DEF HashChunk
  <2>2. ASSUME NEW e \in Entries, e < file PROVE Told(e)'
    <3>1. image'[e] = image[e] /\ cuts'[e] = cuts[e]
      BY <1>1, <1>4, <2>2, NextRead
    <3> QED
      BY <1>1, <1>2, <2>1, <2>2, <3>1, <1>7
  <2>3. Telling(file)'
    BY <1>1, <1>4, <2>1, TellingOn, BudgetFalls, <1>7
  <2> QED
    BY <2>1, <2>2, <2>3
<1>5. CASE HashEnd
  <2>1. /\ pc = "hash_entry" /\ pc' = "plan" /\ file' = file + 1 /\ file \in Entries
        /\ AtEnd /\ size' = size /\ image' = image /\ cuts' = cuts
    BY <1>5 DEF HashEnd, Goto, manifest, TypeInv, ControlOK
  <2>2. Told(file)
    <3>1. Telling(file)
      BY <1>7, <2>1
    <3>2. image[file].len \in Nat /\ src[file].len \in Nat /\ ChunkCount(file) \in Nat
      BY <2>1, ChunkCountType, TransferAssumption DEF TypeInv, TypeOK, File
    <3>3. image[file].len = src[file].len
      BY <2>1, <3>1, <3>2 DEF Telling, AtEnd
    <3>4. \A i \in 1..(ChunkCount(file) - 1) : i \in 1..ChunkCount(file)
      BY <3>2
    <3> QED
      BY <3>1, <3>3, <3>4 DEF Told, Telling, SameContent, Aligned
  <2>3. ASSUME NEW e \in Entries, e < file + 1 PROVE Told(e)'
    <3>1. e < file \/ e = file
      BY <1>1, <2>3 DEF Entries
    <3> QED
      BY <1>1, <1>2, <2>1, <2>2, <3>1, <1>7
  <2> QED
    BY <2>1, <2>3
<1>6. CASE ~StatEntry /\ ~HashChunk /\ ~HashEnd
  <2>1. size' = size /\ image' = image /\ cuts' = cuts
    BY <1>6, ManifestStays
  <2>2. \/ pc \notin {"plan", "hash_entry"} /\ pc' \notin {"plan", "hash_entry"}
        \/ pc' = pc /\ file' = file
        \/ pc' = "plan" /\ file' = 1
        \/ pc = "plan" /\ pc' = "planned" /\ file > Files
    BY <1>6 DEF Next, BuildStep, FinishManifest, TransferStep, OpenFile, SkipChunk, NeedChunk,
       ReadPart, CopyChunk, CopyMismatch, RetryOrFail, TruncateCheckpoint, WriteCheckpoint,
       CheckFile, CallerStep, Begin, LoadCheckpoint, BuildAgain, Disturbance, CopyFault,
       IOFault, Crash, EditSource, Retarget, Running, vars, Goto
  <2>3. ASSUME NEW e \in Entries, pc' \in {"plan", "hash_entry"} => e < file'
        PROVE  Told(e)'
    <3>1. pc \in {"plan", "hash_entry"} => e < file
      BY <1>1, <2>2, <2>3 DEF Entries
    <3> QED
      BY <1>1, <1>2, <2>1, <3>1, <1>7
  <2>4. ASSUME pc' = "hash_entry" PROVE Telling(file)'
    <3>1. pc = "hash_entry" /\ file' = file
      BY <2>2, <2>4
    <3> QED
      BY <1>1, <2>1, <3>1, <1>7 DEF Telling, Aligned, ChunkCount
  <2> QED
    BY <2>3, <2>4
<1> QED
  BY <1>3, <1>4, <1>5, <1>6

\* However the bytes of the files were read, and for any chunk size, the manifest of a source
\* that nobody has edited is that source; and unless a read was short, its hashes are those
\* of the chunks that the executor will copy.
THEOREM ManifestIsTrue == Spec => []ManifestIsTheSource
<1>1. SourceInv => ManifestIsTheSource
  BY DEF SourceInv, ManifestIsTheSource, Unedited, FullReads, Told
<1> QED
  BY <1>1, SourceInit, SourceStep, HashInvariant, PTL DEF Spec

-----------------------------------------------------------------------------
(* Ok is the truth.                                                        *)

InCall == Running \/ pc = "ok"

FullyMarked(e, n) ==
    \A o \in Offsets : o < size[e] /\ o \div ChunkSize < n =>
        <<e, o \div ChunkSize>> \in resume_bitmap

\* What the executor has established of the entries behind it ...
VerifiedFiles ==
    InCall => /\ files_completed = file - 1
              /\ \A e \in Entries : e < file =>
                    /\ SameContent(dst[e], image[e])
                    /\ dst[e].len = size[e]
                    /\ FullyMarked(e, ChunkCount(e))

\* ... and of the chunks behind it in the entry it is at.
CurrentFile ==
    pc \in {"chunk", "copy", "save", "saving"} /\ file \in Entries =>
        /\ dst[file].len = size[file]
        /\ FullyMarked(file, chunk)

IInv == VerifiedFiles /\ CurrentFile /\ BytesDoneExact

\* Before a call nothing has been established, and nothing is claimed.
LEMMA IInit == Init => IInv
  BY DEF Init, IInv, VerifiedFiles, InCall, Running, CurrentFile, BytesDoneExact

\* An attempt writes bytes of the current chunk of the current file, all or some,
\* and only after what was read has hashed to chunk_hashes.
LEMMA WrittenBytes ==
    CopyChunk \/ CopyFault =>
        \/ dst' = dst
        \/ /\ ChunkMatches(Seen, file, chunk)
           /\ \E S \in SUBSET ChunkBytes(file, chunk) :
                 dst' = [dst EXCEPT ![file] = Overwrite(@, Seen, S)]
<1>1. CASE CopyChunk
  BY <1>1 DEF CopyChunk
<1>2. CASE CopyFault
  <2> DEFINE before(n) == {o \in ChunkBytes(file, chunk) : o < n}
  <2>1. \A n : before(n) \in SUBSET ChunkBytes(file, chunk)
    OBVIOUS
  <2>2. \/ dst' = dst
        \/ /\ ChunkMatches(Seen, file, chunk)
           /\ \E n : dst' = [dst EXCEPT ![file] = Overwrite(@, Seen, before(n))]
    BY <1>2 DEF CopyFault
  <2> HIDE DEF before
  <2> QED
    BY <2>1, <2>2
<1> QED
  BY <1>1, <1>2

\* Behind the executor nothing changes, and an entry joins when its hash is right.
LEMMA VerifiedStep == TypeInv /\ IInv /\ [Next]_vars => VerifiedFiles'
<1> SUFFICES ASSUME TypeInv, IInv, [Next]_vars PROVE VerifiedFiles'
  OBVIOUS
<1>1. /\ Files \in Nat /\ file \in 1..(Files + 1)
      /\ dst \in [Entries -> File] /\ files_completed \in Nat
  BY TransferAssumption DEF TypeInv, TypeOK
<1> USE <1>1 DEF Goto, manifest, counters
<1>2. CASE BuildStep \/ LoadCheckpoint \/ BuildAgain \/ IOFault \/ Crash
  BY <1>2 DEF BuildStep, StatEntry, HashChunk, HashEnd, FinishManifest, LoadCheckpoint,
              BuildAgain, IOFault, Crash, VerifiedFiles, InCall, Running
<1>3. CASE Begin
  BY <1>3 DEF Begin, VerifiedFiles, Entries
<1>4. CASE Retarget
  BY <1>4 DEF Retarget, VerifiedFiles, InCall, Running
<1>5. CASE OpenFile \/ NeedChunk \/ CopyChunk \/ CopyFault
  <2>1. /\ InCall /\ files_completed' = files_completed /\ file' = file
        /\ size' = size /\ image' = image /\ cuts' = cuts
    BY <1>5 DEF OpenFile, NeedChunk, ReadPart, CopyChunk, CopyFault, InCall, Running
  <2>2. ASSUME NEW e \in Entries, e < file
        PROVE  dst'[e] = dst[e]
    <3>1. CASE OpenFile \/ NeedChunk
      BY <2>2, <3>1 DEF OpenFile, NeedChunk
    <3>2. CASE CopyChunk \/ CopyFault
      BY <2>2, <3>2, WrittenBytes
    <3> QED
      BY <1>5, <3>1, <3>2
  <2>3. ASSUME NEW e \in Entries, e < file, NEW c, <<e, c>> \in resume_bitmap
        PROVE  <<e, c>> \in resume_bitmap'
    BY <1>5, <2>3 DEF OpenFile, NeedChunk, ReadPart, CopyChunk, CopyFault
  <2> QED
    BY <2>1, <2>2, <2>3
    DEF IInv, VerifiedFiles, SameContent, FullyMarked, ChunkCount
<1>6. CASE \/ SkipChunk \/ ReadPart \/ CopyMismatch \/ TruncateCheckpoint
           \/ EditSource \/ UNCHANGED vars
  <2>1. /\ InCall' => InCall
        /\ files_completed' = files_completed /\ file' = file
        /\ size' = size /\ image' = image /\ cuts' = cuts /\ dst' = dst
        /\ resume_bitmap' = resume_bitmap
    BY <1>6 DEF SkipChunk, ReadPart, CopyMismatch, TruncateCheckpoint, EditSource, vars,
                RetryOrFail, InCall, Running
  <2> QED
    BY <2>1 DEF IInv, VerifiedFiles, SameContent, FullyMarked, ChunkCount
<1>7. CASE WriteCheckpoint
  <2>1. /\ InCall /\ files_completed' = files_completed /\ file' = file
        /\ size' = size /\ image' = image /\ cuts' = cuts /\ dst' = dst
        /\ resume_bitmap' = resume_bitmap
    BY <1>7 DEF WriteCheckpoint, InCall, Running
  <2> QED
    BY <2>1 DEF IInv, VerifiedFiles, SameContent, FullyMarked, ChunkCount
<1>8. CASE CheckFile
  <2>1. CASE ~SameContent(dst[file], image[file])
    BY <1>8, <2>1 DEF CheckFile, HashMatches, VerifiedFiles, InCall, Running
  <2>2. CASE SameContent(dst[file], image[file])
    <3>1. /\ InCall /\ file \in Entries /\ chunk >= ChunkCount(file)
          /\ file' = file + 1 /\ files_completed' = files_completed + 1
          /\ size' = size /\ image' = image /\ cuts' = cuts /\ dst' = dst
          /\ resume_bitmap' = resume_bitmap
      BY <1>8, <2>2 DEF CheckFile, HashMatches, InCall, Running, TypeInv, ControlOK
    <3>2. dst[file].len = size[file] /\ FullyMarked(file, chunk)
      BY <1>8, <3>1 DEF CheckFile, IInv, CurrentFile
    <3>3. FullyMarked(file, ChunkCount(file))
      <4>1. chunk \in Nat
        BY DEF TypeInv, TypeOK
      <4>2. ChunkCount(file) \in Nat
        BY <3>1, ChunkCountType DEF TypeInv
      <4>3. \A o \in Offsets : o \div ChunkSize \in Nat
        BY ChunkIndex, TransferAssumption DEF Offsets
      <4> QED
        BY <3>1, <3>2, <4>1, <4>2, <4>3 DEF FullyMarked
    <3>4. ASSUME NEW e \in Entries, e < file + 1
          PROVE  /\ SameContent(dst[e], image[e])
                 /\ dst[e].len = size[e]
                 /\ FullyMarked(e, ChunkCount(e))
      <4>1. e < file \/ e = file
        BY <3>4 DEF Entries
      <4> QED
        BY <2>2, <3>1, <3>2, <3>3, <4>1 DEF IInv, VerifiedFiles
    <3>5. files_completed = file - 1
      BY <3>1 DEF IInv, VerifiedFiles
    <3> QED
      BY <3>1, <3>4, <3>5
      DEF VerifiedFiles, SameContent, FullyMarked, ChunkCount
  <2> QED
    BY <2>1, <2>2
<1> QED
  BY <1>2, <1>3, <1>4, <1>5, <1>6, <1>7, <1>8
  DEF Next, TransferStep, CallerStep, Disturbance

\* In the current entry the chunks passed are marked and have their length.
LEMMA CurrentStep == TypeInv /\ IInv /\ [Next]_vars => CurrentFile'
<1> SUFFICES ASSUME TypeInv, IInv, [Next]_vars PROVE CurrentFile'
  OBVIOUS
<1>1. /\ Files \in Nat /\ file \in 1..(Files + 1)
      /\ dst \in [Entries -> File] /\ src \in [Entries -> File]
      /\ size \in [Entries -> 0..MaxLen] /\ chunk \in Nat
  BY TransferAssumption DEF TypeInv, TypeOK
<1>2. \A o \in Offsets : o \div ChunkSize \in Nat
  BY ChunkIndex, TransferAssumption DEF Offsets
<1> USE <1>1 DEF Goto, manifest, counters
<1>3. CASE \/ BuildStep \/ CallerStep \/ CheckFile \/ IOFault \/ Crash
  BY <1>3 DEF BuildStep, StatEntry, HashChunk, HashEnd, FinishManifest, CallerStep, Begin,
              LoadCheckpoint, BuildAgain, CheckFile, IOFault, Crash, CurrentFile
<1>4. CASE Retarget
  BY <1>4 DEF Retarget, CurrentFile, Running
<1>5. CASE OpenFile
  <2>1. dst'[file].len = size[file]
    BY <1>5, SetLenType DEF OpenFile
  <2> QED
    BY <1>2, <1>5, <2>1 DEF OpenFile, CurrentFile, FullyMarked
<1>6. CASE SkipChunk
  <2>1. \A o \in Offsets : o < size[file] /\ o \div ChunkSize = chunk =>
           <<file, chunk>> \in resume_bitmap
    BY <1>6 DEF SkipChunk, Intact, Marked, ChunkBytes
  <2>2. /\ pc = "chunk" /\ chunk' = chunk + 1 /\ file' = file /\ size' = size
        /\ dst' = dst /\ resume_bitmap' = resume_bitmap
    BY <1>6 DEF SkipChunk, NextChunk
  <2> QED
    BY <1>2, <2>1, <2>2 DEF IInv, CurrentFile, FullyMarked
<1>7. CASE NeedChunk
  BY <1>7 DEF NeedChunk, IInv, CurrentFile, FullyMarked
<1>8. CASE CopyChunk \/ CopyFault
  <2>1. /\ pc = "copy" /\ file' = file /\ size' = size /\ chunk' = chunk
        /\ resume_bitmap \subseteq resume_bitmap' /\ file \in Entries
    BY <1>8 DEF CopyChunk, CopyFault, TypeInv, ControlOK
  <2>2. dst'[file].len = dst[file].len
    BY <1>1, <1>8, <2>1, WrittenBytes, OverwriteType, SeenType DEF TypeInv
  <2> QED
    BY <2>1, <2>2 DEF IInv, CurrentFile, FullyMarked
<1>9. CASE ReadPart \/ CopyMismatch \/ EditSource \/ UNCHANGED vars
  BY <1>9 DEF ReadPart, CopyMismatch, EditSource, vars, IInv, CurrentFile, FullyMarked
<1>10. CASE TruncateCheckpoint
  <2>1. pc = "save" \/ ~(file \in Entries)
    BY <1>10 DEF TruncateCheckpoint, Entries
  <2> QED
    BY <1>10, <2>1 DEF TruncateCheckpoint, IInv, CurrentFile, FullyMarked
<1>11. CASE WriteCheckpoint
  <2>1. CASE file \in Entries
    <3>1. <<file, chunk>> \in resume_bitmap
      BY <1>11, <2>1 DEF WriteCheckpoint, TypeInv, ControlOK
    <3>2. /\ pc = "saving" /\ chunk' = chunk + 1 /\ file' = file /\ size' = size
          /\ dst' = dst /\ resume_bitmap' = resume_bitmap
      BY <1>11, <2>1 DEF WriteCheckpoint, NextChunk, Entries
    <3> QED
      BY <1>2, <2>1, <3>1, <3>2 DEF IInv, CurrentFile, FullyMarked
  <2>2. CASE ~(file \in Entries)
    BY <1>11, <2>2 DEF WriteCheckpoint, CurrentFile, Entries
  <2> QED
    BY <2>1, <2>2
<1> QED
  BY <1>3, <1>4, <1>5, <1>6, <1>7, <1>8, <1>9, <1>10, <1>11
  DEF Next, TransferStep, Disturbance

\* The running count stays equal to the count from scratch.
LEMMA CountStep == TypeInv /\ IInv /\ [Next]_vars => BytesDoneExact'
<1> SUFFICES ASSUME TypeInv, IInv, [Next]_vars PROVE BytesDoneExact'
  OBVIOUS
<1> USE DEF Goto, manifest, counters
<1>1. CASE \/ BuildStep \/ LoadCheckpoint \/ BuildAgain \/ Crash
  BY <1>1 DEF BuildStep, StatEntry, HashChunk, HashEnd, FinishManifest, LoadCheckpoint,
              BuildAgain, Crash, BytesDoneExact
<1>2. CASE Begin
  BY <1>2 DEF Begin, BytesDoneExact, done_size, DoneBytes
<1>3. CASE NeedChunk
  <2>1. /\ file \in Entries /\ size' = size /\ bytes_done = done_size(resume_bitmap)
        /\ resume_bitmap' = resume_bitmap \ {<<file, chunk>>}
    BY <1>3 DEF NeedChunk, TypeInv, ControlOK, IInv, BytesDoneExact
  <2>2. bytes_done' = done_size(resume_bitmap \ {<<file, chunk>>})
    <3>1. CASE Marked
      <4>1. /\ done_size(resume_bitmap) \in Nat
            /\ Cardinality(ChunkBytes(file, chunk)) \in 0..done_size(resume_bitmap)
            /\ done_size(resume_bitmap \ {<<file, chunk>>})
                 = done_size(resume_bitmap) - Cardinality(ChunkBytes(file, chunk))
        BY <2>1, <3>1, ClearedChunk DEF Marked
      <4> QED
        BY <1>3, <2>1, <3>1, <4>1 DEF NeedChunk, Uncount
    <3>2. CASE ~Marked
      <4>1. resume_bitmap \ {<<file, chunk>>} = resume_bitmap
        BY <3>2 DEF Marked
      <4> QED
        BY <1>3, <2>1, <3>2, <4>1 DEF NeedChunk, Uncount
    <3> QED
      BY <3>1, <3>2
  <2> QED
    BY <2>1, <2>2 DEF BytesDoneExact, done_size, DoneBytes
<1>4. CASE CopyChunk
  <2>1. /\ file \in Entries /\ size' = size /\ bytes_done = done_size(resume_bitmap)
        /\ <<file, chunk>> \notin resume_bitmap
        /\ resume_bitmap' = resume_bitmap \cup {<<file, chunk>>}
        /\ bytes_done' = bytes_done + Cardinality(ChunkBytes(file, chunk))
    BY <1>4 DEF CopyChunk, TypeInv, ControlOK, IInv, BytesDoneExact
  <2>2. bytes_done' = done_size(resume_bitmap \cup {<<file, chunk>>})
    BY <2>1, MarkedChunk
  <2> QED
    BY <2>1, <2>2 DEF BytesDoneExact, done_size, DoneBytes
<1>5. CASE \/ OpenFile \/ SkipChunk \/ ReadPart \/ CopyMismatch \/ TruncateCheckpoint
           \/ WriteCheckpoint \/ CheckFile \/ CopyFault \/ IOFault
           \/ EditSource \/ UNCHANGED vars
  <2>1. /\ size' = size /\ resume_bitmap' = resume_bitmap /\ bytes_done' = bytes_done
        /\ \/ pc' = pc
           \/ pc \notin {"plan", "hash_entry", "planned", "dead"}
    BY <1>5 DEF OpenFile, SkipChunk, ReadPart, CopyMismatch, TruncateCheckpoint, WriteCheckpoint,
                CheckFile, CopyFault, IOFault, EditSource, vars
  <2> QED
    BY <2>1 DEF IInv, BytesDoneExact, done_size, DoneBytes
<1>6. CASE Retarget
  <2>1. /\ size' = size /\ resume_bitmap' = resume_bitmap /\ bytes_done' = bytes_done
        /\ pc' = pc \/ pc' = "planned"
    BY <1>6 DEF Retarget
  <2> QED
    BY <2>1 DEF IInv, BytesDoneExact, done_size, DoneBytes
<1> QED
  BY <1>1, <1>2, <1>3, <1>4, <1>5, <1>6
  DEF Next, TransferStep, CallerStep, Disturbance

\* What the executor has established behind it holds throughout.
LEMMA InductiveInvariant == Spec => [](TypeInv /\ HashInv /\ IInv)
<1>1. TypeInv /\ IInv /\ [Next]_vars => IInv'
  BY VerifiedStep, CurrentStep, CountStep DEF IInv
<1> QED
  BY <1>1, IInit, HashInvariant, PTL DEF Spec

\* The executor's chunk of a byte that was hashed is one of the entry's.
LEMMA BytesInChunks ==
    ASSUME TypeOK, HashInv, NEW e \in Entries, NEW o \in Nat, o < image[e].len
    PROVE  o \div ChunkSize \in Nat /\ o \div ChunkSize < ChunkCount(e)
<1>1. ChunkCount(e) \in Nat /\ image[e].len \in Nat /\ ChunkCount(e) * ChunkSize \in Nat
  <2>1. ChunkCount(e) \in Nat /\ image[e].len \in Nat
    BY CutType, TransferAssumption
  <2> QED
    BY <2>1, PlaceInChunk, TransferAssumption
<1>2. image[e].len <= ChunkCount(e) * ChunkSize
  BY DEF HashInv, Hashed
<1>3. o < ChunkCount(e) * ChunkSize
  BY <1>1, <1>2
<1> QED
  BY <1>1, <1>3, ByteInChunk, TransferAssumption

\* A manifest whose entries are all verified has all its bytes counted as done.
LEMMA AllBytesDone ==
    ASSUME TypeInv, HashInv,
           \A e \in Entries : /\ SameContent(dst[e], image[e])
                              /\ dst[e].len = size[e]
                              /\ FullyMarked(e, ChunkCount(e))
    PROVE  done_size(resume_bitmap) = total_size
<1>1. ASSUME NEW e \in Entries, NEW o \in Offsets, o < size[e]
      PROVE  <<e, o \div ChunkSize>> \in resume_bitmap
  <2>1. image[e].len = size[e]
    BY DEF SameContent
  <2>2. size[e] \in Nat /\ o \in Nat
    BY TransferAssumption DEF TypeInv, TypeOK, Offsets
  <2>3. o \div ChunkSize < ChunkCount(e)
    BY <1>1, <2>1, <2>2, BytesInChunks DEF TypeInv
  <2> QED
    BY <1>1, <2>3 DEF FullyMarked
<1>2. DoneBytes(resume_bitmap) = {x \in Entries \X Offsets : x[2] < size[x[1]]}
  BY <1>1 DEF DoneBytes
<1> QED
  BY <1>2 DEF done_size, total_size

\* An Ok of execute_local_transfer is the truth for every manifest, chunk size and
\* number of retries, however often the transfer was interrupted and resumed.
THEOREM OkIsTheTruth == Spec => []OkMeansDelivered
<1>1. TypeInv /\ HashInv /\ IInv => OkMeansDelivered
  <2> SUFFICES ASSUME TypeInv, HashInv, IInv, pc = "ok" PROVE OkMeansDelivered
    BY DEF OkMeansDelivered
  <2>1. file = Files + 1 /\ Files \in Nat
    BY TransferAssumption DEF TypeInv, ControlOK
  <2>2. /\ files_completed = Files
        /\ \A e \in Entries : /\ SameContent(dst[e], image[e])
                             /\ dst[e].len = size[e]
                             /\ FullyMarked(e, ChunkCount(e))
    BY <2>1 DEF IInv, VerifiedFiles, InCall, Entries
  <2>3. done_size(resume_bitmap) = total_size
    BY <2>2, AllBytesDone
  <2>4. bytes_done = done_size(resume_bitmap)
    BY DEF IInv, BytesDoneExact
  <2> QED
    BY <2>2, <2>3, <2>4 DEF OkMeansDelivered
<1> QED
  BY <1>1, InductiveInvariant, PTL

\* bytes_done is exact at every step, so the progress and the report that are made
\* of it are, and its subtraction never saturates.
THEOREM BytesAreExact == Spec => []BytesDoneExact
  BY InductiveInvariant, PTL DEF IInv

-----------------------------------------------------------------------------
(* Nothing that arrived is lost.                                           *)

\* set_len to the size of the entry leaves every intact chunk intact ...
LEMMA SetLenKeepsChunk ==
    ASSUME NEW e \in Entries, NEW c, NEW f \in File, ChunkMatches(f, e, c)
    PROVE  ChunkMatches(SetLen(f, size[e]), e, c)
  BY DEF ChunkMatches, ChunkBytes, SetLen

\* ... and so does writing verified bytes of the same or another chunk over it.
LEMMA OverwriteKeepsChunk ==
    ASSUME NEW e \in Entries, NEW c, NEW f \in File, ChunkMatches(f, e, c),
           NEW d, NEW g \in File, ChunkMatches(g, e, d),
           NEW S \in SUBSET ChunkBytes(e, d)
    PROVE  ChunkMatches(Overwrite(f, g, S), e, c)
<1>1. ASSUME NEW o \in ChunkBytes(e, c)
      PROVE  /\ o < Overwrite(f, g, S).len
             /\ Overwrite(f, g, S).byte[o] = f.byte[o] \/ Overwrite(f, g, S).byte[o] = g.byte[o]
             /\ o \in S => c = d
             /\ o \notin S => Overwrite(f, g, S).byte[o] = f.byte[o]
  BY <1>1 DEF ChunkMatches, ChunkBytes, Overwrite
<1>2. ASSUME NEW o \in ChunkBytes(e, c)
      PROVE  Overwrite(f, g, S).byte[o] = image[e].byte[ChunkStart(e, c) + (o % ChunkSize)]
  <2>1. f.byte[o] = image[e].byte[ChunkStart(e, c) + (o % ChunkSize)]
    BY <1>2 DEF ChunkMatches
  <2>2. ASSUME c = d
        PROVE  g.byte[o] = image[e].byte[ChunkStart(e, c) + (o % ChunkSize)]
    BY <1>2, <2>2 DEF ChunkMatches
  <2> QED
    BY <1>1, <1>2, <2>1, <2>2
<1> QED
  BY <1>1, <1>2 DEF ChunkMatches

\* A chunk written completely to a file that is long enough is intact.
LEMMA OverwriteMakesChunk ==
    ASSUME NEW e \in Entries, NEW c, NEW f \in File, NEW g \in File,
           ChunkMatches(g, e, c), f.len = size[e]
    PROVE  ChunkMatches(Overwrite(f, g, ChunkBytes(e, c)), e, c)
  BY DEF ChunkMatches, ChunkBytes, Overwrite

\* Once the manifest is there, only a change of target takes an intact chunk away.
LEMMA ChunksStay ==
    ASSUME TypeInv, [Next]_vars, ~BuildStep, ~Retarget
    PROVE  /\ size' = size /\ image' = image /\ cuts' = cuts
           /\ \A e \in Entries : \A c :
                 ChunkMatches(dst[e], e, c) => ChunkMatches(dst'[e], e, c)
<1>1. /\ dst \in [Entries -> File] /\ src \in [Entries -> File]
  BY DEF TypeInv, TypeOK
<1>2. CASE OpenFile
  <2>1. size' = size /\ image' = image /\ cuts' = cuts
    BY <1>2 DEF OpenFile, manifest
  <2>2. ASSUME NEW e \in Entries, NEW c, ChunkMatches(dst[e], e, c)
        PROVE  ChunkMatches(dst'[e], e, c)
    <3>1. dst'[e] = IF e = file THEN SetLen(dst[e], size[e]) ELSE dst[e]
      BY <1>1, <1>2 DEF OpenFile
    <3> QED
      BY <1>1, <2>2, <3>1, SetLenKeepsChunk
  <2> QED
    BY <2>1, <2>2
<1>3. CASE CopyChunk \/ CopyFault
  <2>1. size' = size /\ image' = image /\ cuts' = cuts /\ file \in Entries
    BY <1>3 DEF CopyChunk, CopyFault, manifest, Goto, TypeInv, ControlOK
  <2>2. CASE dst' = dst
    BY <2>1, <2>2
  <2>3. ASSUME ChunkMatches(Seen, file, chunk),
               NEW S \in SUBSET ChunkBytes(file, chunk),
               dst' = [dst EXCEPT ![file] = Overwrite(@, Seen, S)],
               NEW e \in Entries, NEW c, ChunkMatches(dst[e], e, c)
        PROVE  ChunkMatches(dst'[e], e, c)
    <3>1. dst'[e] = IF e = file THEN Overwrite(dst[e], Seen, S) ELSE dst[e]
      BY <1>1, <2>3
    <3>2. Seen \in File /\ dst[e] \in File
      BY <1>1, <2>1, SeenType DEF TypeInv
    <3>3. CASE e = file
      <4>1. ChunkMatches(Seen, e, chunk) /\ S \in SUBSET ChunkBytes(e, chunk)
        BY <2>3, <3>3
      <4>2. ChunkMatches(Overwrite(dst[e], Seen, S), e, c)
        BY <2>3, <3>2, <4>1, OverwriteKeepsChunk
      <4> QED
        BY <3>1, <3>3, <4>2
    <3> QED
      BY <2>3, <3>1, <3>3
  <2> QED
    BY <1>3, <2>1, <2>2, <2>3, WrittenBytes
<1>4. CASE ~(OpenFile \/ CopyChunk \/ CopyFault)
  <2>1. size' = size /\ image' = image /\ cuts' = cuts
    BY ManifestStays DEF BuildStep
  <2>2. dst' = dst
    BY <1>4 DEF Next, TransferStep, CallerStep, Disturbance, SkipChunk, NeedChunk, ReadPart,
       CopyMismatch, TruncateCheckpoint, WriteCheckpoint, CheckFile, Begin,
       LoadCheckpoint, BuildAgain, IOFault, Crash, EditSource, vars
  <2> QED
    BY <2>1, <2>2
<1> QED
  BY <1>2, <1>3, <1>4

-----------------------------------------------------------------------------
(* The checkpoint tells the truth.                                         *)

SameTarget == budget["retarget"] = Budget["retarget"]

Truthful(done) == \A x \in done : ChunkMatches(dst[x[1]], x[1], x[2])

\* While a manifest is built nothing is marked yet and no checkpoint can be read;
\* from then on, until the target changes, the bitmap in memory and the one that
\* was saved are truthful.
CheckpointInv ==
    /\ budget["retarget"] <= Budget["retarget"]
    /\ pc \in {"plan", "hash_entry"} => resume_bitmap = {} /\ ~checkpoint.valid
    /\ SameTarget => /\ Truthful(resume_bitmap)
                     /\ checkpoint.valid => Truthful(checkpoint.done)

\* Before the first call there is no readable checkpoint and no mark.
LEMMA CheckpointInit == Init => CheckpointInv
  BY TransferAssumption DEF Init, CheckpointInv, Truthful, Events

\* Every step keeps both bitmaps truthful: a mark is set after the write and saved
\* after it is set, and no later write takes the chunk away.
LEMMA CheckpointStep == TypeInv /\ IInv /\ CheckpointInv /\ [Next]_vars => CheckpointInv'
<1> SUFFICES ASSUME TypeInv, IInv, CheckpointInv, [Next]_vars PROVE CheckpointInv'
  OBVIOUS
<1>1. /\ dst \in [Entries -> File] /\ src \in [Entries -> File]
      /\ resume_bitmap \in SUBSET (Entries \X Offsets)
      /\ checkpoint \in [valid : BOOLEAN, done : SUBSET (Entries \X Offsets)]
      /\ budget \in [Events -> Nat] /\ Budget \in [Events -> Nat]
  BY TransferAssumption DEF TypeInv, TypeOK
<1>2. CASE BuildStep
  <2>1. /\ pc \in {"plan", "hash_entry"}
        /\ UNCHANGED <<resume_bitmap, checkpoint>>
        /\ UNCHANGED budget \/ Spend("short")
    BY <1>2 DEF BuildStep, StatEntry, HashChunk, HashEnd, FinishManifest, Goto, ReadReturns
  <2>2. budget'["retarget"] = budget["retarget"]
    <3>1. /\ "short" \in Events /\ "short" # "all"
          /\ "retarget" \in Events /\ "retarget" \notin {"short", "all"}
      BY DEF Events
    <3> QED
      BY <1>1, <2>1, <3>1, Spent
  <2> QED
    BY <2>1, <2>2 DEF CheckpointInv, Truthful, SameTarget
<1>3. CASE Retarget
  <2>1. /\ Spend("retarget") /\ budget["retarget"] > 0
        /\ pc' \in {"plan", "hash_entry"} => pc \in {"plan", "hash_entry"}
        /\ UNCHANGED <<resume_bitmap, checkpoint>>
    BY <1>3 DEF Retarget, Spend
  <2>2. budget'["retarget"] = budget["retarget"] - 1
    BY <1>1, <2>1, Spent DEF Events
  <2>3. /\ budget["retarget"] \in Nat /\ Budget["retarget"] \in Nat
        /\ budget["retarget"] <= Budget["retarget"]
    BY <1>1 DEF Events, CheckpointInv
  <2>4. ~SameTarget' /\ budget'["retarget"] <= Budget["retarget"]
    BY <2>1, <2>2, <2>3 DEF SameTarget
  <2> QED
    BY <2>1, <2>4 DEF CheckpointInv
<1>4. CASE ~BuildStep /\ ~Retarget
  <2>1. budget'["retarget"] = budget["retarget"]
    BY <1>1, <1>4 DEF Next, TransferStep, CallerStep, Disturbance, OpenFile, SkipChunk,
       NeedChunk, ReadPart, CopyChunk, CopyMismatch, TruncateCheckpoint, WriteCheckpoint,
       CheckFile, Begin, LoadCheckpoint, BuildAgain, CopyFault, IOFault, Crash,
       EditSource, vars, Spend, Events
  <2>2. ASSUME NEW x \in Entries \X Offsets, ChunkMatches(dst[x[1]], x[1], x[2])
        PROVE  ChunkMatches(dst[x[1]], x[1], x[2])'
    <3>1. ChunkMatches(dst'[x[1]], x[1], x[2]) /\ size' = size /\ image' = image /\ cuts' = cuts
      BY <1>4, <2>2, ChunksStay
    <3> QED
      BY <3>1 DEF ChunkMatches, ChunkBytes, ChunkStart, ChunkEnd
  <2>3. ASSUME SameTarget, NEW x \in resume_bitmap'
        PROVE  ChunkMatches(dst[x[1]], x[1], x[2])'
    <3>1. CASE x \in resume_bitmap
      BY <1>1, <2>2, <2>3, <3>1 DEF CheckpointInv, Truthful
    <3>2. CASE LoadCheckpoint
      BY <1>1, <2>2, <2>3, <3>2 DEF LoadCheckpoint, CheckpointInv, Truthful
    <3>3. CASE CopyChunk /\ x \notin resume_bitmap
      <4>1. /\ file \in Entries /\ dst[file].len = size[file] /\ size' = size
            /\ image' = image /\ cuts' = cuts /\ ChunkMatches(Seen, file, chunk)
            /\ dst' = [dst EXCEPT ![file] =
                         Overwrite(@, Seen, ChunkBytes(file, chunk))]
            /\ x = <<file, chunk>>
        BY <2>3, <3>3
        DEF CopyChunk, Goto, manifest, TypeInv, ControlOK, IInv, CurrentFile
      <4>2. ChunkMatches(dst'[file], file, chunk)
        BY <1>1, <4>1, OverwriteMakesChunk, SeenType DEF TypeInv
      <4>3. ChunkMatches(dst'[x[1]], x[1], x[2])
        BY <4>1, <4>2
      <4> QED
        BY <4>1, <4>3 DEF ChunkMatches, ChunkBytes, ChunkStart, ChunkEnd
    <3>4. \/ resume_bitmap' \subseteq resume_bitmap
          \/ LoadCheckpoint \/ CopyChunk
      BY <1>4 DEF Next, TransferStep, CallerStep, Disturbance, OpenFile, SkipChunk,
         NeedChunk, ReadPart, CopyMismatch, TruncateCheckpoint, WriteCheckpoint, CheckFile,
         Begin, BuildAgain, CopyFault, IOFault, Crash, EditSource, vars
    <3> QED
      BY <2>3, <3>1, <3>2, <3>3, <3>4
  <2>4. ASSUME SameTarget, checkpoint'.valid, NEW x \in checkpoint'.done
        PROVE  ChunkMatches(dst[x[1]], x[1], x[2])'
    <3>1. CASE checkpoint' = checkpoint
      BY <1>1, <2>2, <2>4, <3>1 DEF CheckpointInv, Truthful
    <3>2. CASE WriteCheckpoint
      BY <1>1, <2>2, <2>4, <3>2 DEF WriteCheckpoint, CheckpointInv, Truthful
    <3>3. CASE TruncateCheckpoint
      BY <2>4, <3>3 DEF TruncateCheckpoint
    <3>4. checkpoint' = checkpoint \/ WriteCheckpoint \/ TruncateCheckpoint
      BY <1>4 DEF Next, TransferStep, CallerStep, Disturbance, OpenFile, SkipChunk,
         NeedChunk, ReadPart, CopyChunk, CopyMismatch, CheckFile, Begin, LoadCheckpoint,
         BuildAgain, CopyFault, IOFault, Crash, EditSource, vars
    <3> QED
      BY <3>1, <3>2, <3>3, <3>4
  <2>5. pc' \in {"plan", "hash_entry"} => resume_bitmap' = {} /\ ~checkpoint'.valid
    BY <1>4 DEF CheckpointInv, Next, TransferStep, CallerStep, Disturbance, OpenFile,
       SkipChunk, NeedChunk, ReadPart, CopyChunk, CopyMismatch, TruncateCheckpoint,
       WriteCheckpoint, CheckFile, Begin, LoadCheckpoint, BuildAgain, CopyFault,
       IOFault, Crash, EditSource, vars, Goto, RetryOrFail
  <2>6. SameTarget' <=> SameTarget
    BY <2>1 DEF SameTarget
  <2> QED
    BY <2>1, <2>3, <2>4, <2>5, <2>6 DEF CheckpointInv, Truthful
<1> QED
  BY <1>2, <1>3, <1>4

\* The order write, mark, save makes every checkpoint a truthful one for every
\* pattern of crashes, faults and edits: what it calls done is at the target.
THEOREM CheckpointIsTruthful == Spec => []CheckpointTruthful
<1>1. CheckpointInv => CheckpointTruthful
  BY DEF CheckpointInv, CheckpointTruthful, SameTarget, Truthful
<1> QED
  BY <1>1, CheckpointInit, CheckpointStep, InductiveInvariant, PTL DEF Spec

-----------------------------------------------------------------------------
(* A call goes forward.                                                    *)

\* The loops of a call are where they may be: the retries below max_retries.max(1),
\* the chunk one of the entry's until it is left.
LoopInv ==
    /\ pc \in {"copy", "save", "saving"} /\ file \in Entries => chunk < ChunkCount(file)
    /\ pc = "chunk" => chunk <= ChunkCount(file)
    /\ pc = "copy" => attempt = 0 \/ attempt < MaxRetries

LEMMA LoopStep == TypeInv /\ LoopInv /\ [Next]_vars => LoopInv'
<1> SUFFICES ASSUME TypeInv, LoopInv, [Next]_vars
             PROVE  LoopInv'
  OBVIOUS
<1>1. /\ file \in 1..(Files + 1) /\ chunk \in Nat /\ attempt \in Nat /\ MaxRetries \in Nat
      /\ Files \in Nat
      /\ pc \in {"chunk", "copy"} => file \in Entries
      /\ \A e \in Entries : image[e].len \in Nat
  BY TransferAssumption DEF TypeInv, TypeOK, ControlOK, File
<1>2. \A e \in Entries : ChunkCount(e) \in Nat
  BY ChunkCountType DEF TypeInv
<1>3. CASE BuildStep \/ CallerStep
  <2>1. pc' \notin {"chunk", "copy", "save", "saving"}
    BY <1>3 DEF BuildStep, StatEntry, HashChunk, HashEnd, FinishManifest, CallerStep, Begin,
       LoadCheckpoint, BuildAgain, Goto
  <2> QED
    BY <2>1 DEF LoopInv
<1>4. CASE ~BuildStep /\ ~CallerStep
  <2>1. cuts' = cuts
    BY <1>4, ManifestStays DEF BuildStep
  <2>2. CASE OpenFile \/ SkipChunk \/ NeedChunk \/ CheckFile
    <3>1. ASSUME SkipChunk
          PROVE  /\ pc' = "chunk" /\ chunk' = chunk + 1 /\ chunk < ChunkCount(file)
                 /\ ChunkCount(file) \in Int /\ ChunkCount(file)' = ChunkCount(file)
      BY <1>1, <1>2, <2>1, <3>1 DEF SkipChunk, NextChunk, ChunkCount
    <3>2. CASE OpenFile
      BY <1>1, <1>2, <2>1, <3>2 DEF OpenFile, Goto, LoopInv, ChunkCount
    <3>3. CASE SkipChunk
      BY <1>1, <3>1, <3>3 DEF LoopInv
    <3>4. CASE NeedChunk
      BY <1>1, <1>2, <2>1, <3>4 DEF NeedChunk, Goto, LoopInv, ChunkCount
    <3>5. CASE CheckFile
      BY <1>1, <3>5 DEF CheckFile, LoopInv
    <3> QED
      BY <2>2, <3>2, <3>3, <3>4, <3>5
  <2>3. CASE CopyChunk \/ TruncateCheckpoint \/ WriteCheckpoint
    BY <1>1, <1>2, <2>1, <2>3, TransferAssumption DEF CopyChunk, TruncateCheckpoint,
       WriteCheckpoint, NextChunk, Goto, LoopInv, ChunkCount, Entries
  <2>6. CASE ReadPart
    BY <1>1, <1>2, <2>1, <2>6 DEF ReadPart, LoopInv, ChunkCount
  <2>4. CASE CopyMismatch \/ CopyFault
    BY <1>1, <1>2, <2>1, <2>4 DEF CopyMismatch, CopyFault, RetryOrFail, LoopInv, ChunkCount
  <2>5. CASE IOFault \/ Crash \/ EditSource \/ Retarget \/ UNCHANGED vars
    <3>1. \/ pc' \notin {"chunk", "copy", "save", "saving"}
          \/ UNCHANGED <<pc, file, chunk, attempt>>
      BY <2>5 DEF IOFault, Crash, EditSource, Retarget, vars
    <3> QED
      BY <2>1, <3>1 DEF LoopInv, ChunkCount
  <2> QED
    BY <1>4, <2>2, <2>3, <2>4, <2>5, <2>6 DEF Next, TransferStep, Disturbance
<1> QED
  BY <1>3, <1>4

\* The order of positions, place by place.
LEMMA PrecedesAt ==
    ASSUME NEW p, NEW q
    PROVE  /\ p[1] < q[1] => Precedes(p, q)
           /\ p[1] = q[1] /\ p[2] < q[2] => Precedes(p, q)
           /\ p[1] = q[1] /\ p[2] = q[2] /\ p[3] < q[3] => Precedes(p, q)
           /\ p[1] = q[1] /\ p[2] = q[2] /\ p[3] = q[3] /\ p[4] < q[4] => Precedes(p, q)
           /\ p[1] = q[1] /\ p[2] = q[2] /\ p[3] = q[3] /\ p[4] = q[4] /\ p[5] < q[5]
                => Precedes(p, q)
           /\ (p[1] = q[1] /\ p[2] = q[2] /\ p[3] = q[3] /\ p[4] = q[4] /\ p[5] = q[5]) /\
              p[6] < q[6] => Precedes(p, q)
<1>1. /\ \A j \in 1..(1 - 1) : FALSE
      /\ \A j \in 1..(2 - 1) : j = 1
      /\ \A j \in 1..(3 - 1) : j \in {1, 2}
      /\ \A j \in 1..(4 - 1) : j \in {1, 2, 3}
      /\ \A j \in 1..(5 - 1) : j \in {1, 2, 3, 4}
      /\ \A j \in 1..(6 - 1) : j \in {1, 2, 3, 4, 5}
  OBVIOUS
<1>2. \A i \in 1..6 : p[i] < q[i] /\ (\A j \in 1..(i - 1) : p[j] = q[j]) => Precedes(p, q)
  BY DEF Precedes
<1>3. 1 \in 1..6 /\ 2 \in 1..6 /\ 3 \in 1..6 /\ 4 \in 1..6 /\ 5 \in 1..6 /\ 6 \in 1..6
  OBVIOUS
<1>4. p[1] < q[1] => Precedes(p, q)
  BY <1>1, <1>2, <1>3
<1>5. p[1] = q[1] /\ p[2] < q[2] => Precedes(p, q)
  BY <1>1, <1>2, <1>3
<1>6. p[1] = q[1] /\ p[2] = q[2] /\ p[3] < q[3] => Precedes(p, q)
  BY <1>1, <1>2, <1>3
<1>7. p[1] = q[1] /\ p[2] = q[2] /\ p[3] = q[3] /\ p[4] < q[4] => Precedes(p, q)
  BY <1>1, <1>2, <1>3
<1>8. p[1] = q[1] /\ p[2] = q[2] /\ p[3] = q[3] /\ p[4] = q[4] /\ p[5] < q[5]
        => Precedes(p, q)
  BY <1>1, <1>2, <1>3
<1>9. (p[1] = q[1] /\ p[2] = q[2] /\ p[3] = q[3] /\ p[4] = q[4] /\ p[5] = q[5]) /\
        p[6] < q[6] => Precedes(p, q)
  <2> SUFFICES ASSUME p[1] = q[1], p[2] = q[2], p[3] = q[3], p[4] = q[4], p[5] = q[5],
                      p[6] < q[6]
               PROVE  Precedes(p, q)
    OBVIOUS
  <2>1. \A j \in 1..(6 - 1) : p[j] = q[j]
    BY <1>1
  <2> QED
    BY <1>2, <1>3, <2>1
<1> QED
  BY <1>4, <1>5, <1>6, <1>7, <1>8, <1>9

LEMMA StepAdvances ==
    ASSUME TypeInv, LoopInv, [Next]_vars, Running, Running', ~EditSource, ~UNCHANGED vars
    PROVE  Precedes(Position, Position')
<1>1. /\ file \in Int /\ chunk \in Int /\ attempt \in Int
      /\ pc \in {"file", "chunk", "copy", "save", "saving"}
  BY TransferAssumption DEF TypeInv, TypeOK, Running
<1>2. CASE OpenFile
  BY <1>1, <1>2, PrecedesAt DEF OpenFile, Goto, Position
<1>3. CASE SkipChunk
  BY <1>1, <1>3, PrecedesAt DEF SkipChunk, NextChunk, Position
<1>4. CASE NeedChunk
  BY <1>1, <1>4, PrecedesAt DEF NeedChunk, Goto, Position
<1>5. CASE CopyChunk
  BY <1>1, <1>5, PrecedesAt DEF CopyChunk, Goto, Position
<1>11. CASE ReadPart
  <2>1. Len(buf) < Len(buf') /\ UNCHANGED <<pc, file, chunk, attempt>>
    BY <1>11, ReadPartType DEF ReadPart
  <2> QED
    BY <1>1, <2>1, PrecedesAt DEF Position
<1>6. CASE CopyMismatch \/ CopyFault
  <2>1. pc = "copy" /\ pc' = "copy" /\ attempt' = attempt + 1 /\ UNCHANGED <<file, chunk>>
    BY <1>6 DEF CopyMismatch, CopyFault, RetryOrFail, Running
  <2> QED
    BY <1>1, <2>1, PrecedesAt DEF Position
<1>7. CASE TruncateCheckpoint
  BY <1>1, <1>7, PrecedesAt DEF TruncateCheckpoint, Position
<1>8. CASE WriteCheckpoint
  <2>1. pc = "saving" /\ pc' = "chunk" /\ chunk' = chunk + 1 /\ UNCHANGED file
    BY <1>8 DEF WriteCheckpoint, NextChunk, Running
  <2> QED
    BY <1>1, <2>1, PrecedesAt DEF Position
<1>9. CASE CheckFile
  <2>1. file' = file + 1
    BY <1>9 DEF CheckFile, Running
  <2> QED
    BY <1>1, <2>1, PrecedesAt DEF Position
<1>10. ~BuildStep /\ ~CallerStep /\ ~IOFault /\ ~Crash /\ ~Retarget
  BY DEF BuildStep, StatEntry, HashChunk, HashEnd, FinishManifest, CallerStep, Begin, LoadCheckpoint,
     BuildAgain, IOFault, Crash, Retarget, Running, Goto
<1> QED
  BY <1>2, <1>3, <1>4, <1>5, <1>6, <1>7, <1>8, <1>9, <1>10, <1>11
  DEF Next, TransferStep, Disturbance

\* A call goes forward and within bounds at every step, for any number of files, chunks
\* and retries, whatever fails and whatever is edited: what its return needs, besides
\* being scheduled.
THEOREM CallGoesForward == Spec => CallAdvances
<1>1. Init => LoopInv
  BY DEF Init, LoopInv
<1>2. TypeInv /\ LoopInv => (Running => InBounds)
  <2>1. TypeInv /\ file \in Entries => ChunkCount(file) \in Nat /\ chunk \in Nat
    BY ChunkCountType DEF TypeInv, TypeOK
  <2> QED
    BY <2>1 DEF LoopInv, InBounds, Running
<1>3. TypeInv /\ LoopInv /\ [Next]_vars =>
          [Running /\ Running' /\ ~EditSource => Precedes(Position, Position')]_vars
  BY StepAdvances
<1> QED
  BY <1>1, <1>2, <1>3, LoopStep, TypeInvariant, PTL DEF Spec, CallAdvances

-----------------------------------------------------------------------------
(* A call fails for a reason.                                              *)

\* The chunks before the n-th of the current entry are at the target.
Copied(n) ==
    \A c \in Nat : c < n /\ ChunkBytes(file, c) # {} => ChunkMatches(dst[file], file, c)

CopiedInv ==
    /\ pc \in {"chunk", "copy"} => Copied(chunk)
    /\ pc \in {"save", "saving"} /\ file \in Entries => Copied(chunk + 1)

\* In a step that stays in its entry, what is at the target afterwards.
LEMMA CopiedStays ==
    ASSUME TypeInv, [Next]_vars, ~BuildStep, ~Retarget, file' = file, file \in Entries,
           NEW n, \A c \in Nat : c < n /\ ChunkBytes(file, c) # {} =>
                     ChunkMatches(dst[file], file, c) \/ ChunkMatches(dst'[file], file, c)
    PROVE  \A c \in Nat : c < n /\ ChunkBytes(file, c)' # {} => ChunkMatches(dst[file], file, c)'
<1>1. /\ size' = size /\ image' = image /\ cuts' = cuts
      /\ \A c : ChunkMatches(dst[file], file, c) => ChunkMatches(dst'[file], file, c)
  BY ChunksStay
<1>2. \A c : ChunkBytes(file, c)' = ChunkBytes(file, c)
  BY <1>1 DEF ChunkBytes
<1>3. \A c : ChunkMatches(dst'[file], file, c) => ChunkMatches(dst[file], file, c)'
  BY <1>1, <1>2 DEF ChunkMatches, ChunkStart, ChunkEnd
<1> QED
  BY <1>1, <1>2, <1>3

\* If the size of the entry is that of the bytes hashed, its chunks up to the n-th start
\* where the executor's do: each has been matched by what is longer than a short read.
Straight(n) ==
    size[file] = image[file].len =>
        \A c \in Nat : c <= n /\ c < ChunkCount(file) => ChunkStart(file, c) = c * ChunkSize

StraightInv ==
    /\ pc \in {"chunk", "copy"} => Straight(chunk)
    /\ pc \in {"save", "saving"} /\ file \in Entries => Straight(chunk + 1)

LEMMA StraightOn ==
    ASSUME TypeOK, HashInv, file \in Entries, chunk \in Nat, Straight(chunk),
           ChunkBytes(file, chunk) = {} \/ \E f : ChunkMatches(f, file, chunk)
    PROVE  Straight(chunk + 1)
<1> SUFFICES ASSUME size[file] = image[file].len, NEW c \in Nat, c <= chunk + 1,
                    c < ChunkCount(file)
             PROVE  ChunkStart(file, c) = c * ChunkSize
  BY DEF Straight
<1>1. CASE c <= chunk
  BY <1>1 DEF Straight
<1>2. CASE c = chunk + 1
  <2>1. chunk < ChunkCount(file)
    BY <1>2, ChunkCountType
  <2>2. ChunkStart(file, chunk) = chunk * ChunkSize
    BY <2>1 DEF Straight
  <2>3. ChunkStart(file, chunk + 1) = (chunk + 1) * ChunkSize
    BY <1>2, <2>2, NextStart
  <2> QED
    BY <1>2, <2>3
<1> QED
  BY <1>1, <1>2

LEMMA StraightStep == TypeInv /\ HashInv /\ StraightInv /\ [Next]_vars => StraightInv'
<1> SUFFICES ASSUME TypeInv, HashInv, StraightInv, [Next]_vars
             PROVE  StraightInv'
  OBVIOUS
<1>1. /\ chunk \in Nat /\ file \in 1..(Files + 1) /\ Files \in Nat /\ TypeOK
      /\ pc \in {"chunk", "copy"} => file \in Entries
  BY TransferAssumption DEF TypeInv, TypeOK, ControlOK
<1>2. CASE \/ BuildStep \/ CallerStep \/ CheckFile \/ IOFault \/ Crash \/ Retarget
  BY <1>2 DEF BuildStep, StatEntry, HashChunk, HashEnd, FinishManifest, CallerStep, Begin,
              LoadCheckpoint, BuildAgain, CheckFile, IOFault, Crash, Retarget, Running, Goto,
              StraightInv
\* The other steps leave the manifest as it is.
<1>3. ASSUME ~BuildStep, file' = file, NEW n, NEW m, m = n', Straight(m)
      PROVE  Straight(n)'
  BY <1>3, ManifestStays DEF BuildStep, Straight, ChunkCount, ChunkStart
<1>4. CASE OpenFile
  <2>1. pc' = "chunk" /\ chunk' = 0 /\ ~BuildStep /\ file' = file
    BY <1>4 DEF OpenFile, Goto, BuildStep, StatEntry, HashChunk, HashEnd, FinishManifest
  <2>2. Straight(0)
    <3>1. \A c \in Nat : c <= 0 => c = 0
      OBVIOUS
    <3>2. 0 * ChunkSize = 0
      BY TransferAssumption
    <3> QED
      BY <3>1, <3>2 DEF Straight, ChunkStart
  <2>3. Straight(chunk)'
    BY <1>3, <2>1, <2>2
  <2> QED
    BY <2>1, <2>3 DEF StraightInv
<1>5. CASE SkipChunk \/ CopyChunk
  <2>1. /\ pc \in {"chunk", "copy"} /\ file' = file /\ ~BuildStep
        /\ \/ pc' = "chunk" /\ chunk' = chunk + 1
           \/ pc' = "save" /\ chunk' = chunk
        /\ ChunkBytes(file, chunk) = {} \/ \E f : ChunkMatches(f, file, chunk)
    BY <1>5 DEF SkipChunk, CopyChunk, NextChunk, Intact, Goto, BuildStep, StatEntry, HashChunk,
                HashEnd, FinishManifest
  <2>2. Straight(chunk + 1)
    BY <1>1, <2>1, StraightOn DEF StraightInv
  <2> QED
    BY <1>3, <2>1, <2>2 DEF StraightInv
<1>6. CASE NeedChunk \/ ReadPart \/ CopyMismatch \/ CopyFault
  <2>1. /\ pc \in {"chunk", "copy"} /\ file' = file /\ chunk' = chunk /\ ~BuildStep
        /\ pc' \in {"copy", "failed"}
    BY <1>6 DEF NeedChunk, ReadPart, CopyMismatch, CopyFault, RetryOrFail, Goto, BuildStep,
                StatEntry, HashChunk, HashEnd, FinishManifest
  <2>2. Straight(chunk)'
    BY <1>3, <2>1 DEF StraightInv
  <2> QED
    BY <2>1, <2>2 DEF StraightInv
<1>7. CASE TruncateCheckpoint \/ WriteCheckpoint
  <2>1. /\ file' = file /\ ~BuildStep
        /\ \/ file \notin Entries /\ pc' \in {"saving", "ok"}
           \/ /\ file \in Entries /\ pc \in {"save", "saving"}
              /\ \/ pc' = "chunk" /\ chunk' = chunk + 1
                 \/ pc' = "saving" /\ chunk' = chunk
    BY <1>1, <1>7 DEF TruncateCheckpoint, WriteCheckpoint, NextChunk, Entries, BuildStep,
       StatEntry, HashChunk, HashEnd, FinishManifest, Goto
  <2> QED
    BY <1>3, <2>1 DEF StraightInv
<1>8. CASE EditSource \/ UNCHANGED vars
  BY <1>8 DEF EditSource, vars, manifest, StraightInv, Straight, ChunkCount, ChunkStart
<1> QED
  BY <1>2, <1>4, <1>5, <1>6, <1>7, <1>8 DEF Next, TransferStep, Disturbance

LEMMA CopiedStep == TypeInv /\ IInv /\ CopiedInv /\ [Next]_vars => CopiedInv'
<1> SUFFICES ASSUME TypeInv, IInv, CopiedInv, [Next]_vars
             PROVE  CopiedInv'
  OBVIOUS
<1>1. /\ chunk \in Nat /\ file \in 1..(Files + 1) /\ dst \in [Entries -> File]
      /\ src \in [Entries -> File] /\ Files \in Nat
  BY TransferAssumption DEF TypeInv, TypeOK
<1>2. /\ \A c \in Nat : c < chunk + 1 => c < chunk \/ c = chunk
      /\ \A c \in Nat : ~(c < 0)
  BY <1>1
<1>3. CASE \/ BuildStep \/ CallerStep \/ CheckFile \/ IOFault \/ Crash \/ Retarget
  BY <1>3 DEF BuildStep, StatEntry, HashChunk, HashEnd, FinishManifest, CallerStep, Begin, LoadCheckpoint,
              BuildAgain, CheckFile, IOFault, Crash, Retarget, Running, Goto, CopiedInv
<1>4. CASE OpenFile
  <2>1. pc' = "chunk" /\ chunk' = 0
    BY <1>4 DEF OpenFile, Goto
  <2> QED
    BY <1>2, <2>1 DEF CopiedInv, Copied
\* The other steps leave the entry as it is.
<1>5. ASSUME file' = file, file \in Entries, ~BuildStep, ~Retarget, Copied(chunk), chunk' = chunk,
             pc' \in {"chunk", "copy"}
      PROVE  CopiedInv'
  <2>1. Copied(chunk)'
    BY <1>5, CopiedStays DEF Copied
  <2> QED
    BY <1>5, <2>1 DEF CopiedInv
<1>6. ASSUME file' = file, file \in Entries, ~BuildStep, ~Retarget, Copied(chunk),
             \/ ChunkBytes(file, chunk) = {}
             \/ ChunkMatches(dst[file], file, chunk) \/ ChunkMatches(dst'[file], file, chunk),
             \/ pc' = "chunk" /\ chunk' = chunk + 1
             \/ pc' \in {"save", "saving"} /\ chunk' = chunk
      PROVE  CopiedInv'
  <2>1. \A c \in Nat : c < chunk + 1 /\ ChunkBytes(file, c) # {} =>
           ChunkMatches(dst[file], file, c) \/ ChunkMatches(dst'[file], file, c)
    BY <1>2, <1>6 DEF Copied
  <2>2. \A c \in Nat : c < chunk + 1 /\ ChunkBytes(file, c)' # {} =>
           ChunkMatches(dst[file], file, c)'
    BY <1>6, <2>1, CopiedStays
  <2> QED
    BY <1>6, <2>2 DEF CopiedInv, Copied
<1>7. ASSUME pc' \notin {"chunk", "copy"}, ~(file' \in Entries) \/ pc' \notin {"save", "saving"}
      PROVE  CopiedInv'
  BY <1>7 DEF CopiedInv
<1>8. CASE SkipChunk
  <2>1. /\ pc = "chunk" /\ pc' = "chunk" /\ file' = file /\ chunk' = chunk + 1
        /\ ChunkBytes(file, chunk) = {} \/ ChunkMatches(dst[file], file, chunk)
    BY <1>8 DEF SkipChunk, NextChunk, Intact
  <2>2. ~BuildStep /\ ~Retarget /\ file \in Entries
    BY <2>1 DEF BuildStep, StatEntry, HashChunk, HashEnd, FinishManifest, Goto, Retarget, Running,
                TypeInv, ControlOK
  <2> QED
    BY <1>6, <2>1, <2>2 DEF CopiedInv
<1>9. CASE NeedChunk \/ ReadPart \/ CopyMismatch \/ CopyFault
  <2>1. /\ pc \in {"chunk", "copy"} /\ file' = file /\ chunk' = chunk /\ file \in Entries
        /\ pc' \in {"copy", "failed"}
    BY <1>9 DEF NeedChunk, ReadPart, CopyMismatch, CopyFault, RetryOrFail, Goto, TypeInv, ControlOK
  <2>2. ~BuildStep /\ ~Retarget
    BY <2>1 DEF BuildStep, StatEntry, HashChunk, HashEnd, FinishManifest, Goto, Retarget, Running
  <2> QED
    BY <1>5, <1>7, <2>1, <2>2 DEF CopiedInv
<1>10. CASE CopyChunk
  <2>1. /\ pc = "copy" /\ pc' = "save" /\ file' = file /\ chunk' = chunk /\ file \in Entries
        /\ ChunkMatches(Seen, file, chunk)
        /\ dst' = [dst EXCEPT ![file] = Overwrite(@, Seen, ChunkBytes(file, chunk))]
    BY <1>10 DEF CopyChunk, Goto, TypeInv, ControlOK
  <2>2. dst[file].len = size[file]
    BY <2>1 DEF IInv, CurrentFile
  <2>3. ChunkMatches(dst'[file], file, chunk)
    BY <1>1, <2>1, <2>2, OverwriteMakesChunk, SeenType DEF TypeInv
  <2>4. ~BuildStep /\ ~Retarget
    BY <2>1 DEF BuildStep, StatEntry, HashChunk, HashEnd, FinishManifest, Goto, Retarget, Running
  <2> QED
    BY <1>6, <2>1, <2>3, <2>4 DEF CopiedInv
<1>11. CASE TruncateCheckpoint \/ WriteCheckpoint
  <2>1. CASE file \in Entries
    <3>1. /\ pc \in {"save", "saving"} /\ file' = file /\ dst' = dst
          /\ size' = size /\ image' = image /\ cuts' = cuts
          /\ \/ pc' = "chunk" /\ chunk' = chunk + 1
             \/ pc' \in {"save", "saving"} /\ chunk' = chunk
      BY <1>1, <1>11, <2>1 DEF TruncateCheckpoint, WriteCheckpoint, NextChunk, Entries, manifest
    <3>2. Copied(chunk + 1)
      BY <2>1, <3>1 DEF CopiedInv
    <3>3. \A c \in Nat : c < chunk + 1 /\ ChunkBytes(file, c)' # {} =>
             ChunkMatches(dst[file], file, c)'
      BY <3>1, <3>2 DEF Copied, ChunkBytes, ChunkMatches, ChunkStart, ChunkEnd
    <3> QED
      BY <3>1, <3>3 DEF CopiedInv, Copied
  <2>2. CASE file \notin Entries
    <3>1. file' = file /\ pc' \in {"saving", "ok"}
      BY <1>1, <1>11, <2>2 DEF TruncateCheckpoint, WriteCheckpoint, Entries, TypeInv, ControlOK
    <3> QED
      BY <1>7, <2>2, <3>1
  <2> QED
    BY <2>1, <2>2
<1>12. CASE EditSource \/ UNCHANGED vars
  BY <1>12 DEF EditSource, vars, manifest, CopiedInv, Copied, ChunkBytes, ChunkMatches,
            ChunkStart, ChunkEnd
<1> QED
  BY <1>3, <1>4, <1>8, <1>9, <1>10, <1>11, <1>12 DEF Next, TransferStep, Disturbance

LEMMA CopiedInvariant == Spec => [](CopiedInv /\ StraightInv /\ LoopInv)
<1>1. Init => CopiedInv /\ StraightInv /\ LoopInv
  BY DEF Init, CopiedInv, StraightInv, LoopInv
<1> QED
  BY <1>1, CopiedStep, StraightStep, LoopStep, InductiveInvariant, PTL DEF Spec

\* After the last chunk of an entry that has the size of the bytes hashed, every chunk is
\* at the target, where it starts in the image.
LEMMA AllThere ==
    ASSUME TypeInv, HashInv, CopiedInv, StraightInv, pc = "chunk", chunk >= ChunkCount(file),
           size[file] = image[file].len, NEW c \in Nat, c < ChunkCount(file)
    PROVE  /\ ChunkStart(file, c) = c * ChunkSize
           /\ ChunkMatches(dst[file], file, c)
<1>1. /\ file \in Entries /\ chunk \in Nat /\ TypeOK
      /\ ChunkCount(file) \in Nat /\ c < chunk /\ c \in 0..(ChunkCount(file) - 1)
      /\ MaxLen \in Nat
  <2>1. file \in Entries /\ chunk \in Nat /\ TypeOK
    BY DEF TypeInv, TypeOK, ControlOK
  <2> QED
    BY <2>1, ChunkCountType, TransferAssumption
<1>2. ChunkStart(file, c) = c * ChunkSize
  BY <1>1 DEF StraightInv, Straight
<1>3. ChunkStart(file, c) \in Offsets /\ ChunkStart(file, c) < size[file]
  <2>1. ChunkStart(file, c) \in 0..MaxLen /\ ChunkEnd(file, c) \in 1..MaxLen
    BY <1>1, CutType
  <2>2. ChunkStart(file, c) < ChunkEnd(file, c) /\ ChunkEnd(file, c) <= size[file]
    BY <1>1 DEF HashInv, Hashed
  <2>3. size[file] \in 0..MaxLen
    BY <1>1, CutType
  <2> QED
    BY <1>1, <2>1, <2>2, <2>3 DEF Offsets
<1>4. (c * ChunkSize + 0) \div ChunkSize = c /\ c * ChunkSize \in Nat
  <2>1. 0 \in 0..(ChunkSize - 1)
    BY TransferAssumption
  <2> QED
    BY <2>1, PlaceInChunk, TransferAssumption
<1>5. c * ChunkSize \in ChunkBytes(file, c)
  BY <1>2, <1>3, <1>4 DEF ChunkBytes
<1> QED
  BY <1>1, <1>2, <1>5 DEF CopiedInv, Copied

\* The step in which a call fails.
LEMMA FailingStep ==
    ASSUME TypeInv, HashInv, IInv, CopiedInv, StraightInv, LoopInv, Next, Running,
           pc' = "failed"
    PROVE  \/ budget'["fault"] < budget["fault"]
           \/ size[file] # image[file].len
           \/ pc = "copy" /\ (~Aligned(file) \/ ~SameContent(Seen, image[file]))
<1> USE DEF Goto
<1>1. CASE CopyFault \/ IOFault
  <2>1. budget["fault"] \in Nat /\ budget'["fault"] = budget["fault"] - 1
    BY <1>1, Spent, EventTypes DEF CopyFault, IOFault, TypeInv, TypeOK
  <2> QED
    BY <2>1
<1>2. CASE CopyMismatch
  <2>1. pc = "copy" /\ ~ChunkMatches(Seen, file, chunk)
    BY <1>2 DEF CopyMismatch
  <2>2. file \in Entries /\ chunk \in Nat /\ chunk < ChunkCount(file) /\ TypeOK
    BY <2>1 DEF TypeInv, TypeOK, ControlOK, LoopInv
  <2> QED
    BY <2>1, <2>2, AlignedMatches
\* Every chunk is at the target, so the hash of the file cannot be the reason.
<1>3. CASE CheckFile
  <2>1. pc = "chunk" /\ chunk >= ChunkCount(file) /\ file \in Entries /\ ~HashMatches
    BY <1>3 DEF CheckFile, TypeInv, ControlOK
  <2>2. dst[file].len = size[file] /\ TypeOK
    BY <2>1 DEF IInv, CurrentFile, TypeInv
  <2>3. ASSUME size[file] = image[file].len, NEW o \in Offsets, o < dst[file].len
        PROVE  dst[file].byte[o] = image[file].byte[o]
    <3>1. o \in Nat
      BY DEF Offsets
    <3>2. PICK c \in Nat : c = o \div ChunkSize
      BY <3>1, ChunkIndex, TransferAssumption
    <3>3. c < ChunkCount(file)
      BY <2>1, <2>2, <2>3, <3>1, <3>2, BytesInChunks
    <3>4. ChunkStart(file, c) = c * ChunkSize /\ ChunkMatches(dst[file], file, c)
      BY <2>1, <2>3, <3>3, AllThere
    <3>5. o \in ChunkBytes(file, c)
      BY <2>2, <2>3, <3>2 DEF ChunkBytes
    <3>6. o = c * ChunkSize + (o % ChunkSize)
      BY <3>1, <3>2, PlaceInChunk, TransferAssumption
    <3>7. dst[file].byte[o] = image[file].byte[ChunkStart(file, c) + (o % ChunkSize)]
      BY <3>4, <3>5 DEF ChunkMatches
    <3> QED
      BY <3>4, <3>6, <3>7
  <2> QED
    BY <2>1, <2>2, <2>3 DEF HashMatches, SameContent
<1> QED
  BY <1>1, <1>2, <1>3
  DEF Next, BuildStep, StatEntry, HashChunk, HashEnd, FinishManifest, TransferStep, OpenFile, SkipChunk,
      NeedChunk, ReadPart, CopyChunk, TruncateCheckpoint, WriteCheckpoint, CallerStep, Begin,
      LoadCheckpoint, BuildAgain, Disturbance, Crash, EditSource, Retarget, Running

\* For any number of files, chunks and retries a call that meets no I/O error and no torn
\* entry fails only while it copies, and there only for a source that is not seen as it was
\* hashed or an entry that a short read has cut elsewhere than the executor does.
THEOREM FailuresHaveReasons == Spec => FailsForAReason
<1>1. TypeInv /\ HashInv /\ IInv /\ CopiedInv /\ StraightInv /\ LoopInv /\ [Next]_vars =>
        [Running /\ pc' = "failed" =>
            \/ budget'["fault"] < budget["fault"]
            \/ size[file] # image[file].len
            \/ pc = "copy" /\ (~Aligned(file) \/ ~SameContent(Seen, image[file]))]_vars
  BY FailingStep
<1> QED
  BY <1>1, CopiedInvariant, InductiveInvariant, PTL DEF Spec, FailsForAReason

-----------------------------------------------------------------------------
(* The executor implements Delivery.                                       *)

\* Wanted and present chunks are chunks of Delivery.
LEMMA PresentType == Chunks \subseteq Entries \X Offsets /\ Present \subseteq Chunks
  BY DEF Chunks, Present

\* Outside planning, steps keep what is wanted, and but for Retarget what is present.
LEMMA PresentGrows ==
    ASSUME TypeInv, [Next]_vars, ~BuildStep
    PROVE  /\ Chunks' = Chunks
           /\ ~Retarget => Present \subseteq Present'
           /\ dst' = dst => Present' = Present
<1>1. size' = size /\ image' = image /\ cuts' = cuts
  BY ChunksStay DEF Retarget, manifest
<1>2. Chunks' = Chunks
  BY <1>1 DEF Chunks, ChunkCount
<1>3. ASSUME NEW x \in Chunks
      PROVE  ChunkMatches(dst[x[1]], x[1], x[2])' <=> ChunkMatches(dst'[x[1]], x[1], x[2])
  BY <1>1 DEF ChunkMatches, ChunkBytes, ChunkStart, ChunkEnd
<1>4. ASSUME ~Retarget PROVE Present \subseteq Present'
  <2>1. ASSUME NEW x \in Present PROVE x \in Present'
    <3>1. x \in Chunks /\ x[1] \in Entries /\ ChunkMatches(dst[x[1]], x[1], x[2])
      BY <2>1 DEF Present, Chunks
    <3>2. ChunkMatches(dst'[x[1]], x[1], x[2])
      BY <1>4, <3>1, ChunksStay
    <3> QED
      BY <1>2, <1>3, <3>1, <3>2 DEF Present
  <2> QED
    BY <2>1
<1>5. ASSUME dst' = dst PROVE Present' = Present
  BY <1>2, <1>3, <1>5 DEF Present
<1> QED
  BY <1>2, <1>4, <1>5

\* In an entry that is verified every chunk of the manifest is at the target.
WholeInv ==
    InCall => \A e \in Entries : e < file =>
                 \A c \in Nat : c < ChunkCount(e) => ChunkMatches(dst[e], e, c)

LEMMA WholeStep ==
    TypeInv /\ HashInv /\ IInv /\ CopiedInv /\ StraightInv /\ WholeInv /\ [Next]_vars =>
        WholeInv'
<1> SUFFICES ASSUME TypeInv, HashInv, IInv, CopiedInv, StraightInv, WholeInv, [Next]_vars,
                    InCall', NEW e \in Entries, e < file', NEW c \in Nat, c < ChunkCount(e)'
             PROVE  ChunkMatches(dst[e], e, c)'
  BY DEF WholeInv
<1>1. file \in 1..(Files + 1) /\ Files \in Nat
  BY TransferAssumption DEF TypeInv, TypeOK
<1>2. ~BuildStep /\ ~Retarget /\ ~Begin /\ ~LoadCheckpoint /\ ~BuildAgain
  BY <1>1 DEF BuildStep, StatEntry, HashChunk, HashEnd, FinishManifest, Retarget, Begin,
     LoadCheckpoint, BuildAgain, InCall, Running, Goto, Entries
<1>3. /\ size' = size /\ image' = image /\ cuts' = cuts /\ ChunkCount(e)' = ChunkCount(e)
      /\ ChunkMatches(dst[e], e, c) => ChunkMatches(dst'[e], e, c)
  BY <1>2, ChunksStay DEF ChunkCount
<1>4. ChunkMatches(dst[e], e, c)
  <2>1. InCall
    BY <1>2 DEF Next, CallerStep, TransferStep, Disturbance, OpenFile, SkipChunk, NeedChunk,
       ReadPart, CopyChunk, CopyMismatch, TruncateCheckpoint, WriteCheckpoint, CheckFile,
       CopyFault, IOFault, Crash, EditSource, vars, InCall, Running, Goto
  <2>2. CASE file' = file
    BY <1>3, <2>1, <2>2 DEF WholeInv
  <2>3. CASE CheckFile
    <3>1. /\ pc = "chunk" /\ chunk >= ChunkCount(file) /\ file' = file + 1 /\ HashMatches
      BY <2>3 DEF CheckFile, InCall, Running
    <3>2. CASE e = file
      <4>1. size[file] = image[file].len
        BY <3>1, <3>2 DEF HashMatches, SameContent, IInv, CurrentFile
      <4> QED
        BY <1>3, <3>1, <3>2, <4>1, AllThere
    <3>3. CASE e < file
      BY <1>3, <2>1, <3>3 DEF WholeInv
    <3> QED
      BY <1>1, <3>1, <3>2, <3>3 DEF Entries
  <2>4. file' = file \/ CheckFile
    BY <1>2 DEF Next, CallerStep, TransferStep, Disturbance, OpenFile, SkipChunk, NeedChunk,
       ReadPart, CopyChunk, CopyMismatch, TruncateCheckpoint, WriteCheckpoint, CopyFault,
       IOFault, Crash, EditSource, vars
  <2> QED
    BY <2>2, <2>3, <2>4
<1> QED
  BY <1>3, <1>4 DEF ChunkMatches, ChunkBytes, ChunkStart, ChunkEnd

\* The initial states of the executor are initial states of Delivery.
LEMMA DeliveryInit == Init => Promise!Init
  BY PresentType DEF Init, Promise!Init, Phase, Running

\* A step of the executor is a step of Delivery, or changes nothing Delivery sees.
LEMMA DeliveryStep ==
    TypeInv /\ WholeInv /\ [Next]_vars => [Promise!Next]_(Promise!vars)
<1> SUFFICES ASSUME TypeInv, WholeInv, [Next]_vars
             PROVE  Promise!Next \/ UNCHANGED <<Chunks, Present, Phase>>
  BY DEF Promise!vars
<1>1. /\ Chunks \in SUBSET (Entries \X Offsets) /\ Present \in SUBSET (Entries \X Offsets)
      /\ Chunks' \in SUBSET (Entries \X Offsets) /\ Present' \in SUBSET (Entries \X Offsets)
  BY PresentType DEF Chunks, Present
<1>2. CASE BuildStep
  <2>1. Phase = "planning" /\ Phase' \in {"planning", "idle"}
    BY <1>2 DEF BuildStep, StatEntry, HashChunk, HashEnd, FinishManifest, Goto, Phase, Running
  <2> QED
    BY <1>1, <2>1 DEF Promise!Next, Promise!Plan
<1>3. CASE Begin
  <2>1. dst' = dst /\ ~BuildStep
    BY <1>3 DEF Begin, BuildStep, StatEntry, HashChunk, HashEnd, FinishManifest, Goto
  <2>2. Phase \in {"idle", "ok", "failed"} /\ Phase' = "running"
    BY <1>3 DEF Begin, Phase, Running
  <2> QED
    BY <2>1, <2>2, PresentGrows DEF Promise!Next, Promise!Start
<1>4. CASE LoadCheckpoint \/ BuildAgain
  <2>1. dst' = dst /\ ~BuildStep
    BY <1>4 DEF LoadCheckpoint, BuildAgain, BuildStep, StatEntry, HashChunk, HashEnd,
                FinishManifest, Goto
  <2>2. Phase = "dead" /\ Phase' \in {"idle", "planning"}
    BY <1>4 DEF LoadCheckpoint, BuildAgain, Goto, Phase, Running
  <2> QED
    BY <2>1, <2>2, PresentGrows DEF Promise!Next, Promise!Return
<1>5. CASE Retarget
  <2>1. ~BuildStep \/ pc \in {"plan", "hash_entry"}
    BY DEF BuildStep, StatEntry, HashChunk, HashEnd, FinishManifest, Goto
  <2>2. size' = size /\ image' = image /\ cuts' = cuts
    BY <1>5 DEF Retarget, manifest
  <2>3. Chunks' = Chunks
    BY <2>2 DEF Chunks, ChunkCount
  <2>4. Phase # "running" /\ Phase' = IF Phase = "ok" THEN "idle" ELSE Phase
    BY <1>5 DEF Retarget, Phase, Running, TypeInv, TypeOK
  <2> QED
    BY <1>1, <2>3, <2>4 DEF Promise!Next, Promise!Replace
<1>6. CASE Crash
  <2>1. dst' = dst /\ ~BuildStep
    BY <1>6 DEF Crash, Running, BuildStep, StatEntry, HashChunk, HashEnd, FinishManifest, Goto
  <2>2. Phase = "running" /\ Phase' = "dead"
    BY <1>6 DEF Crash, Phase, Running
  <2> QED
    BY <2>1, <2>2, PresentGrows DEF Promise!Next, Promise!Die
<1>7. CASE EditSource \/ UNCHANGED vars
  <2>1. size' = size /\ image' = image /\ cuts' = cuts /\ dst' = dst /\ pc' = pc
    BY <1>7 DEF EditSource, vars, manifest
  <2> QED
    BY <2>1 DEF Chunks, ChunkCount, Present, ChunkMatches, ChunkBytes, ChunkStart, ChunkEnd,
       Phase, Running
<1>8. CASE TransferStep \/ CopyFault \/ IOFault
  <2>1. Running /\ ~BuildStep /\ ~Retarget
    BY <1>8 DEF TransferStep, OpenFile, SkipChunk, NeedChunk, ReadPart, CopyChunk, CopyMismatch,
       TruncateCheckpoint, WriteCheckpoint, CheckFile, CopyFault, IOFault, Running,
       BuildStep, StatEntry, HashChunk, HashEnd, FinishManifest, Retarget, Goto
  <2>2. Phase = "running"
    BY <2>1 DEF Phase, Running
  <2>3. CASE pc' # "ok"
    <3>1. Running' \/ pc' = "failed"
      BY <1>8, <2>3 DEF TransferStep, OpenFile, SkipChunk, NeedChunk, ReadPart, CopyChunk,
         CopyMismatch, TruncateCheckpoint, WriteCheckpoint, CheckFile, CopyFault,
         IOFault, RetryOrFail, Running, Goto
    <3>2. Phase' \in {"running", "failed"}
      BY <3>1 DEF Phase, Running
    <3> QED
      BY <1>1, <2>1, <2>2, <3>2, PresentGrows DEF Promise!Next, Promise!Progress
  <2>4. CASE pc' = "ok"
    <3>1. WriteCheckpoint
      BY <1>8, <2>4 DEF TransferStep, OpenFile, SkipChunk, NeedChunk, ReadPart, CopyChunk,
         CopyMismatch, TruncateCheckpoint, CheckFile, CopyFault, IOFault,
         RetryOrFail, Goto
    <3>2. /\ dst' = dst /\ ~(file \in Entries) /\ Running
          /\ size' = size /\ image' = image /\ cuts' = cuts
      BY <2>1, <2>4, <3>1, TransferAssumption
      DEF WriteCheckpoint, Entries, manifest, TypeInv, TypeOK
    <3>3. \A e \in Entries : \A c \in Nat :
             c < ChunkCount(e) => ChunkMatches(dst[e], e, c)
      BY <3>2, TransferAssumption DEF WholeInv, InCall, TypeInv, TypeOK, Entries
    <3>4. Chunks \subseteq Present
      BY <3>3, TransferAssumption DEF Chunks, Present, Offsets
    <3>5. Phase' = "ok"
      BY <2>4 DEF Phase, Running
    <3> QED
      BY <2>1, <2>2, <3>2, <3>4, <3>5, PresentGrows DEF Promise!Next, Promise!Succeed
  <2> QED
    BY <2>3, <2>4
<1> QED
  BY <1>2, <1>3, <1>4, <1>5, <1>6, <1>7, <1>8
  DEF Next, CallerStep, Disturbance

\* Every behaviour of the executor is one that Delivery allows: what arrived is
\* never lost by a retry, a crash or a resumption, and Ok comes with everything.
THEOREM ImplementsDelivery == Spec => Delivers
<1>1. Init => Promise!Init
  BY DeliveryInit
<1>2. TypeInv /\ WholeInv /\ [Next]_vars => [Promise!Next]_(Promise!vars)
  BY DeliveryStep
<1>3. Init => WholeInv
  BY DEF Init, WholeInv, InCall, Running
<1> QED
  BY <1>1, <1>2, <1>3, WholeStep, CopiedInvariant, InductiveInvariant, PTL
  DEF Spec, Delivers, Promise!Spec

=============================================================================
