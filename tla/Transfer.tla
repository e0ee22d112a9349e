------------------------------ MODULE Transfer ------------------------------
(***************************************************************************)
(* The local transfer executor of crates/transfer: build_manifest, then    *)
(* execute_local_transfer, which copies the files of the manifest chunk by *)
(* chunk, verifies every chunk against its hash, retries a failed chunk,   *)
(* records finished chunks in a resume bitmap and rewrites the checkpoint  *)
(* file after each of them.  The process may be killed between any two     *)
(* steps and started again from the checkpoint; the user may edit the      *)
(* source at any time; a finished manifest may be executed again into      *)
(* another target, as cmd_send does for its next receiver.                 *)
(*                                                                         *)
(* blake3 is taken to be injective: a hash stands for the bytes hashed.    *)
(* file_hash is then all bytes that hash_file has read, in order, the      *)
(* `image' of the entry, and chunk_hashes are its pieces, cut where a read *)
(* has ended.                                                              *)
(***************************************************************************)
EXTENDS Integers, FiniteSets, Sequences

CONSTANTS
    Files,       \* number of entries of the manifest
    Byte, Zero,  \* the bytes of files; Zero is the one set_len fills with
    MaxLen,      \* bound: no file is longer
    Contents,    \* the contents a user may give a source file
    Existing,    \* what may be found at the target before a call
    ChunkSize,   \* manifest.chunk_size, after build_manifest replaced 0
    MaxRetries,  \* max_retries
    Budget       \* bounds: how often each event may occur, and all together

Events  == {"edit", "short", "fault", "crash", "retarget", "all"}
Entries == 1..Files
Offsets == 0..(MaxLen - 1)
File    == [len : 0..MaxLen, byte : [Offsets -> Byte]]

ASSUME TransferAssumption ==
    /\ Files \in Nat /\ MaxLen \in Nat /\ MaxRetries \in Nat
    /\ ChunkSize \in Nat \ {0}
    /\ Zero \in Byte
    /\ Contents \subseteq File /\ Existing \subseteq File
    /\ Budget \in [Events -> Nat]

VARIABLES
    src, dst,         \* source and target files; an absent target is empty
    size,             \* the manifest: size, per entry,
    image,            \* ... the bytes hashed,
    cuts,             \* ... and how many they were after each read
    resume_bitmap,    \* the manifest: chunks <<entry, index>> marked done
    checkpoint,       \* the checkpoint file: does it parse, and its bitmap
    pc, file, chunk,  \* where the executor is: entry_idx and chunk_idx
    attempt,          \* failed attempts at the current chunk
    buf,              \* the bytes of the chunk the current attempt has read so far
    bytes_done, files_completed,
    budget            \* what is left of Budget

manifest == <<size, image, cuts>>
counters == <<bytes_done, files_completed>>
vars == <<src, dst, manifest, resume_bitmap, checkpoint, pc, file, chunk,
          attempt, buf, counters, budget>>

-----------------------------------------------------------------------------
(* Files, chunks and the arithmetic of the manifest.                       *)

EmptyFile == [len |-> 0, byte |-> [o \in Offsets |-> Zero]]

\* Slips of this kind, one in front of the definition it would replace, are there
\* to see a property fail.  This one: the target opened with truncate(true).
SetLenAnew(f, n) == [len |-> n, byte |-> [o \in Offsets |-> Zero]]

SetLen(f, n) ==
    [len |-> n,
     byte |-> [o \in Offsets |-> IF o < f.len /\ o < n THEN f.byte[o] ELSE Zero]]

\* Slip: write for write_all, which leaves out the last byte.
OverwriteShort(f, g, S) ==
    [len |-> f.len,
     byte |-> [o \in Offsets |-> IF o \in S /\ o + 1 \in S THEN g.byte[o] ELSE f.byte[o]]]

Overwrite(f, g, S) ==
    [len |-> f.len,
     byte |-> [o \in Offsets |-> IF o \in S THEN g.byte[o] ELSE f.byte[o]]]

SameContent(f, g) ==
    f.len = g.len /\ \A o \in Offsets : o < f.len => f.byte[o] = g.byte[o]

ChunkCount(e) == Len(cuts[e])

\* chunk_hashes[c] of entry e is of the bytes from ChunkStart up to ChunkEnd of its
\* image, which are what one read has returned.
ChunkStart(e, c) == IF c = 0 THEN 0 ELSE cuts[e][c]
ChunkEnd(e, c)   == cuts[e][c + 1]

\* The bytes the executor reads and writes for chunk c of entry e: read_len many, at
\* c * ChunkSize.
ChunkBytes(e, c) == {o \in Offsets : o < size[e] /\ o \div ChunkSize = c}

\* f, read there, hashes to chunk_hashes[c]: as many bytes, and the same.
ChunkMatches(f, e, c) ==
    /\ {o % ChunkSize : o \in ChunkBytes(e, c)} = 0..(ChunkEnd(e, c) - ChunkStart(e, c) - 1)
    /\ \A o \in ChunkBytes(e, c) :
          o < f.len /\ f.byte[o] = image[e].byte[ChunkStart(e, c) + (o % ChunkSize)]

\* Every read of hash_file but the last one has filled its buffer, so that the chunks
\* of chunk_hashes are those of the executor.
Aligned(e) == \A i \in 1..(ChunkCount(e) - 1) : cuts[e][i] = i * ChunkSize

Chunks == {x \in Entries \X Offsets : x[2] < ChunkCount(x[1])}

\* The sums of total_size and done_size, as the size of the set of bytes summed:
\* bytes of different entries or chunks are different elements.
total_size == Cardinality({x \in Entries \X Offsets : x[2] < size[x[1]]})
DoneBytes(done) ==
    {x \in Entries \X Offsets :
        x[2] < size[x[1]] /\ <<x[1], x[2] \div ChunkSize>> \in done}
done_size(done) == Cardinality(DoneBytes(done))

-----------------------------------------------------------------------------
(* One action per step of the code between two accesses to the disk.       *)

Goto(from, to) == pc = from /\ pc' = to

Spend(event) ==
    /\ budget[event] > 0 /\ budget["all"] > 0
    /\ budget' = [budget EXCEPT ![event] = @ - 1, !["all"] = @ - 1]

Init ==
    /\ src \in [Entries -> Contents]
    /\ dst \in [Entries -> Existing]
    /\ size = [e \in Entries |-> 0]
    /\ image = [e \in Entries |-> EmptyFile] /\ cuts = [e \in Entries |-> <<>>]
    /\ resume_bitmap = {}
    /\ checkpoint = [valid |-> FALSE, done |-> {}]
    /\ pc = "plan" /\ file = 1 /\ chunk = 0 /\ attempt = 0 /\ buf = <<>>
    /\ bytes_done = 0 /\ files_completed = 0
    /\ budget = Budget

\* build_entry: metadata().len() first, then hash_file opens the file.
StatEntry ==
    /\ file \in Entries
    /\ Goto("plan", "hash_entry")
    /\ size' = [size EXCEPT ![file] = src[file].len]
    /\ image' = [image EXCEPT ![file] = EmptyFile] /\ cuts' = [cuts EXCEPT ![file] = <<>>]
    /\ UNCHANGED <<src, dst, resume_bitmap, checkpoint, file, chunk, attempt, buf,
                   counters, budget>>

\* read(&mut buf) on f, behind the first `at' bytes, returns n bytes: as many as fit into
\* the buffer and are there now, or fewer.
ReadReturns(n, f, at) ==
    /\ n \in 1..ChunkSize /\ at + n <= f.len
    /\ IF n = ChunkSize \/ at + n = f.len THEN UNCHANGED budget ELSE Spend("short")

\* f and, behind it, what a read of g there has returned.
Extended(f, g, n) ==
    [len |-> f.len + n, byte |-> [o \in Offsets |-> IF o < f.len THEN f.byte[o]
                                                  ELSE IF o < f.len + n THEN g.byte[o]
                                                  ELSE Zero]]

\* Every read of hash_file gives a chunk.
HashChunk ==
    /\ pc = "hash_entry"
    /\ \E n \in 1..ChunkSize :
          /\ ReadReturns(n, src[file], image[file].len)
          /\ image' = [image EXCEPT ![file] = Extended(@, src[file], n)]
          /\ cuts' = [cuts EXCEPT ![file] = Append(@, image[file].len + n)]
    /\ UNCHANGED <<src, dst, size, resume_bitmap, checkpoint, pc, file, chunk, attempt,
                   buf, counters>>

\* Slip: a read that does not fill the buffer is taken for the last one.
ShortIsEnd ==
    \/ image[file].len >= src[file].len
    \/ cuts[file] # <<>> /\ image[file].len < ChunkStart(file, ChunkCount(file) - 1) + ChunkSize

\* A read returns 0.
AtEnd == image[file].len >= src[file].len

HashEnd ==
    /\ Goto("hash_entry", "plan")
    /\ AtEnd
    /\ file' = file + 1
    /\ UNCHANGED <<src, dst, manifest, resume_bitmap, checkpoint, chunk, attempt, buf,
                   counters, budget>>

FinishManifest ==
    /\ file > Files
    /\ Goto("plan", "planned")
    /\ UNCHANGED <<src, dst, manifest, resume_bitmap, checkpoint, file, chunk,
                   attempt, buf, counters, budget>>

\* A call of execute_local_transfer, up to the loop over the entries.
Begin ==
    /\ pc \in {"planned", "ok", "failed"}
    /\ pc' = "file"
    /\ bytes_done' = done_size(resume_bitmap)
    /\ files_completed' = 0
    /\ file' = 1 /\ chunk' = 0
    /\ UNCHANGED <<src, dst, manifest, resume_bitmap, checkpoint, attempt, buf,
                   budget>>

OpenFile ==
    /\ file \in Entries
    /\ Goto("file", "chunk")
    /\ dst' = [dst EXCEPT ![file] = SetLen(@, size[file])]
    /\ chunk' = 0
    /\ UNCHANGED <<src, manifest, resume_bitmap, checkpoint, file, attempt, buf,
                   counters, budget>>

NextChunk == chunk' = chunk + 1

Marked == <<file, chunk>> \in resume_bitmap

\* Slip: was_done is enough to skip a chunk.
MarkedIsIntact == Marked

Intact == Marked /\ ChunkMatches(dst[file], file, chunk)

\* Slips: bytes_done goes down for every chunk to be copied, or for none.
UncountAlways(read_len) == bytes_done - read_len
UncountNever(read_len)  == bytes_done

\* saturating_sub, for a chunk that was counted as done.
Uncount(read_len) ==
    IF ~Marked THEN bytes_done
    ELSE IF bytes_done < read_len THEN 0
    ELSE bytes_done - read_len

\* Nothing to read (read_len = 0), or done before and still there: continue.
SkipChunk ==
    /\ pc = "chunk" /\ chunk < ChunkCount(file)
    /\ \/ ChunkBytes(file, chunk) = {}
       \/ Intact
    /\ NextChunk
    /\ UNCHANGED <<src, dst, manifest, resume_bitmap, checkpoint, pc, file,
                   attempt, buf, counters, budget>>

\* To be copied.  A chunk done before that is no longer there loses its mark
\* and leaves bytes_done (saturating_sub).
NeedChunk ==
    /\ Goto("chunk", "copy")
    /\ chunk < ChunkCount(file)
    /\ ChunkBytes(file, chunk) # {}
    /\ ~Intact
    /\ resume_bitmap' = resume_bitmap \ {<<file, chunk>>}
    /\ bytes_done' = Uncount(Cardinality(ChunkBytes(file, chunk)))
    /\ attempt' = 0
    /\ UNCHANGED <<src, dst, manifest, checkpoint, file, chunk, buf,
                   files_completed, budget>>

\* The source as an attempt has seen it, bytes it has read before an edit included.
Seen ==
    [src[file] EXCEPT !.byte = [o \in Offsets |->
        IF o \in ChunkBytes(file, chunk) /\ o % ChunkSize < Len(buf)
        THEN buf[(o % ChunkSize) + 1] ELSE @[o]]]

\* A read of read_exact returns some of what is left, and there is another one.
ReadPart ==
    /\ pc = "copy"
    /\ Spend("short")
    /\ \E n \in (Len(buf) + 1)..(Cardinality(ChunkBytes(file, chunk)) - 1) :
          /\ chunk * ChunkSize + n <= src[file].len
          /\ buf' = [i \in 1..n |-> Seen.byte[chunk * ChunkSize + i - 1]]
    /\ UNCHANGED <<src, dst, manifest, resume_bitmap, checkpoint, pc, file, chunk,
                   attempt, counters>>

\* copy_chunk from the last read on: an edit after it changes nothing.
CopyChunk ==
    /\ Goto("copy", "save")
    /\ ChunkMatches(Seen, file, chunk)
    /\ dst' = [dst EXCEPT ![file] = Overwrite(@, Seen, ChunkBytes(file, chunk))]
    /\ resume_bitmap' = resume_bitmap \cup {<<file, chunk>>}
    /\ bytes_done' = bytes_done + Cardinality(ChunkBytes(file, chunk))
    /\ buf' = <<>>
    /\ UNCHANGED <<src, manifest, checkpoint, file, chunk, attempt,
                   files_completed, budget>>

\* Slip: attempts are not counted.
RetryForever == attempt' = attempt /\ buf' = <<>> /\ pc' = "copy"

\* The next of max_retries.max(1) attempts, or the error of the last one.
RetryOrFail ==
    /\ attempt' = attempt + 1 /\ buf' = <<>>
    /\ pc' = IF attempt' < MaxRetries THEN "copy" ELSE "failed"

\* The source is too short for read_exact, or hashes to something else.
CopyMismatch ==
    /\ pc = "copy"
    /\ ~ChunkMatches(Seen, file, chunk)
    /\ RetryOrFail
    /\ UNCHANGED <<src, dst, manifest, resume_bitmap, checkpoint, file, chunk,
                   counters, budget>>

\* An I/O error in copy_chunk: while reading, or after write_all wrote some bytes.
CopyFault ==
    /\ pc = "copy"
    /\ Spend("fault")
    /\ RetryOrFail
    /\ \/ UNCHANGED dst
       \/ /\ ChunkMatches(Seen, file, chunk)
          /\ \E n \in ChunkBytes(file, chunk) :
                dst' = [dst EXCEPT ![file] =
                   Overwrite(@, Seen, {o \in ChunkBytes(file, chunk) : o < n})]
    /\ UNCHANGED <<src, manifest, resume_bitmap, checkpoint, file, chunk, counters>>

\* save_manifest is fs::write: truncate the checkpoint, then write it.
TruncateCheckpoint ==
    /\ \/ pc = "save"
       \/ pc = "file" /\ file > Files
    /\ pc' = "saving"
    /\ checkpoint' = [valid |-> FALSE, done |-> {}]
    /\ UNCHANGED <<src, dst, manifest, resume_bitmap, file, chunk, attempt, buf,
                   counters, budget>>

WriteCheckpoint ==
    /\ pc = "saving"
    /\ checkpoint' = [valid |-> TRUE, done |-> resume_bitmap]
    /\ IF file > Files THEN pc' = "ok" /\ UNCHANGED chunk
                       ELSE pc' = "chunk" /\ NextChunk
    /\ UNCHANGED <<src, dst, manifest, resume_bitmap, file, attempt, buf,
                   counters, budget>>

\* Slip: the file hash is computed and not compared.
HashIgnored == TRUE

HashMatches == SameContent(dst[file], image[file])

\* After the last chunk: hash_file of the target against file_hash.
CheckFile ==
    /\ pc = "chunk" /\ chunk >= ChunkCount(file)
    /\ IF HashMatches
       THEN /\ pc' = "file"
            /\ file' = file + 1
            /\ files_completed' = files_completed + 1
       ELSE pc' = "failed" /\ UNCHANGED <<file, files_completed>>
    /\ UNCHANGED <<src, dst, manifest, resume_bitmap, checkpoint, chunk, attempt, buf,
                   bytes_done, budget>>

\* Any other I/O error ends the call: open, set_len, verify, hash, save.
IOFault ==
    /\ pc \in {"file", "chunk", "save", "saving"}
    /\ Spend("fault")
    /\ pc' = "failed"
    /\ UNCHANGED <<src, dst, manifest, resume_bitmap, checkpoint, file, chunk,
                   attempt, buf, counters>>

-----------------------------------------------------------------------------
(* The surroundings: the process is killed and started again, files change.*)

Running == pc \in {"file", "chunk", "copy", "save", "saving"}

\* Only the disk survives: source, target and checkpoint.
Crash ==
    /\ Running
    /\ Spend("crash")
    /\ pc' = "dead"
    /\ buf' = <<>>
    /\ UNCHANGED <<src, dst, manifest, resume_bitmap, checkpoint, file, chunk,
                   attempt, counters>>

\* load_manifest parses, and brings back the bitmap that was saved last.
LoadCheckpoint ==
    /\ checkpoint.valid
    /\ Goto("dead", "planned")
    /\ resume_bitmap' = checkpoint.done
    /\ UNCHANGED <<src, dst, manifest, checkpoint, file, chunk, attempt, buf,
                   counters, budget>>

\* load_manifest fails: there is nothing for it but build_manifest.
BuildAgain ==
    /\ ~checkpoint.valid
    /\ Goto("dead", "plan")
    /\ file' = 1
    /\ resume_bitmap' = {}
    /\ UNCHANGED <<src, dst, manifest, checkpoint, chunk, attempt, buf,
                   counters, budget>>

EditSource ==
    /\ Spend("edit")
    /\ \E e \in Entries, f \in Contents : src' = [src EXCEPT ![e] = f]
    /\ UNCHANGED <<dst, manifest, resume_bitmap, checkpoint, pc, file, chunk,
                   attempt, buf, counters>>

\* The next call is given another target, or the target changed meanwhile; an Ok
\* has been answered by then, and the manifest waits for its next execution.
Retarget ==
    /\ ~Running
    /\ Spend("retarget")
    /\ dst' \in [Entries -> Existing]
    /\ pc' = IF pc = "ok" THEN "planned" ELSE pc
    /\ UNCHANGED <<src, manifest, resume_bitmap, checkpoint, file, chunk,
                   attempt, buf, counters>>

-----------------------------------------------------------------------------
BuildStep == StatEntry \/ HashChunk \/ HashEnd \/ FinishManifest

TransferStep ==
    \/ OpenFile \/ SkipChunk \/ NeedChunk \/ ReadPart \/ CopyChunk \/ CopyMismatch
    \/ TruncateCheckpoint \/ WriteCheckpoint \/ CheckFile

CallerStep == Begin \/ LoadCheckpoint \/ BuildAgain

Disturbance == CopyFault \/ IOFault \/ Crash \/ EditSource \/ Retarget

Next == BuildStep \/ TransferStep \/ CallerStep \/ Disturbance

Spec == Init /\ [][Next]_vars

\* The process is scheduled: a call that was started keeps taking steps.
FairSpec == Spec /\ WF_vars(BuildStep \/ TransferStep)

\* Moreover the caller starts a failed or killed transfer again.
RetrySpec == FairSpec /\ WF_vars(CallerStep)

-----------------------------------------------------------------------------
(* Properties.                                                             *)

\* The types of the variables; a resume bitmap only names entries and their chunks.
TypeOK ==
    /\ src \in [Entries -> File] /\ dst \in [Entries -> File]
    /\ size \in [Entries -> 0..MaxLen]
    /\ image \in [Entries -> File] /\ cuts \in [Entries -> Seq(1..MaxLen)]
    /\ resume_bitmap \in SUBSET (Entries \X Offsets)
    /\ checkpoint \in [valid : BOOLEAN, done : SUBSET (Entries \X Offsets)]
    /\ pc \in {"plan", "hash_entry", "planned", "file", "chunk", "copy", "save",
               "saving", "ok", "failed", "dead"}
    /\ file \in 1..(Files + 1) /\ chunk \in Nat /\ attempt \in Nat /\ buf \in Seq(Byte)
    /\ bytes_done \in Nat /\ files_completed \in Nat
    /\ budget \in [Events -> Nat]

\* A manifest of a source that nobody has edited is the source, however its bytes were
\* read, and where no read was short it has the hashes of the executor's chunks.
ManifestIsTheSource ==
    (pc \notin {"plan", "hash_entry"} /\ budget["edit"] = Budget["edit"]) =>
        \A e \in Entries :
            /\ SameContent(src[e], image[e]) /\ size[e] = src[e].len
            /\ budget["short"] = Budget["short"] => Aligned(e)

\* Ok(report) is the truth: every target file is byte for byte what was hashed
\* when the manifest was built, and the report counts all files and all bytes,
\* whatever was resumed, retried, cleared or edited on the way.
OkMeansDelivered ==
    pc = "ok" => /\ \A e \in Entries : SameContent(dst[e], image[e])
                 /\ bytes_done = total_size
                 /\ files_completed = Files

\* bytes_done, kept up by += and saturating_sub through marks, cleared marks and
\* retries, is at every step what done_size would compute from the bitmap anew:
\* the subtraction never saturates, and no chunk is counted twice.
BytesDoneExact ==
    pc \notin {"plan", "hash_entry", "planned", "dead"} =>
        bytes_done = done_size(resume_bitmap)

\* The order write, mark, save: as long as the target is the same, every chunk a
\* readable checkpoint calls done is on disk, so a crash at any step resumes
\* without believing in a chunk that was never written.
CheckpointTruthful ==
    (checkpoint.valid /\ budget["retarget"] = Budget["retarget"]) =>
        \A x \in checkpoint.done : ChunkMatches(dst[x[1]], x[1], x[2])

Phase == CASE pc \in {"plan", "hash_entry"} -> "planning"
           [] pc = "planned" -> "idle"
           [] Running        -> "running"
           [] OTHER          -> pc

Present == {x \in Chunks : ChunkMatches(dst[x[1]], x[1], x[2])}

Promise == INSTANCE Delivery WITH
    Chunk <- Entries \X Offsets, wanted <- Chunks, present <- Present, phase <- Phase

\* The executor implements Delivery: a chunk that is intact at the target stays
\* so through failed attempts, partial writes, crashes and resumed runs, and
\* only a complete target is answered with Ok.
Delivers == Promise!Spec

\* Where a call is in its loops: over entries, chunks, the stages of a chunk, attempts, reads.
Position ==
    <<file, IF pc = "file" THEN 0 ELSE 1, chunk,
      CASE pc = "copy" -> 1 [] pc = "save" -> 2 [] pc = "saving" -> 3 [] OTHER -> 0,
      attempt, Len(buf)>>

Precedes(p, q) == \E i \in 1..6 : p[i] < q[i] /\ \A j \in 1..(i - 1) : p[j] = q[j]

InBounds ==
    /\ pc # "file" /\ file \in Entries => chunk <= ChunkCount(file)
    /\ pc = "copy" => attempt = 0 \/ attempt < MaxRetries

\* Every step of a call, also a failed attempt or a skipped chunk, takes it forward in
\* its loops and leaves it within max_retries.max(1) attempts and the chunks of the
\* entry, whatever the user edits: a call has no more steps than there are positions.
CallAdvances ==
    [][Running /\ Running' /\ ~EditSource => Precedes(Position, Position') /\ InBounds']_vars

\* A call fails only for an I/O error, for an entry whose size and hashes were taken of
\* different contents or whose hashes are not of the executor's chunks, since a read of
\* hash_file was short, or for a source that an attempt has not seen as it was hashed.
\* As every chunk is verified, skipped or copied, the hash of a whole target never is the
\* reason, whatever half-written, resumed or stale chunks the call has found.
FailsForAReason ==
    [][Running /\ pc' = "failed" =>
          \/ budget'["fault"] < budget["fault"]
          \/ size[file] # image[file].len
          \/ pc = "copy" /\ (~Aligned(file) \/ ~SameContent(Seen, image[file]))]_vars

\* A call of execute_local_transfer comes back, or the process dies: the retry
\* loop and the two loops around it are finite.
CallReturns == Running ~> ~Running

SourceUnchanged ==
    \A e \in Entries : SameContent(src[e], image[e]) /\ size[e] = src[e].len /\ Aligned(e)

\* If the source stays what the manifest says, chunk by chunk, a caller that starts failed and
\* killed transfers again gets its Ok, as often as it asks: no checkpoint left
\* behind, torn or stale, and no half-written chunk keeps a transfer from completing.
RetriesComplete == <>[]SourceUnchanged => []<>(pc = "ok")
=============================================================================
