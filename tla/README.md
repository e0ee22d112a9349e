# Verification of Send-RS

TLA+ specifications of Send-RS, the file transfer tool of this repository, with
their TLC configurations and TLAPS proofs. Paths below are relative to the
repository; `transfer:221` is line 221 of `crates/transfer/src/lib.rs`, and
likewise `security:`, `discovery:`, `ffi:` and `chat:`; `cli:` and `server:` are
the `src/main.rs` of `crates/cli` and `crates/signaling-server`.

## 1. The system

### Components

| component | state | operations | talks to |
|---|---|---|---|
| transfer executor (`crates/transfer`) | manifest (sizes, hashes, resume bitmaps), checkpoint file, source and target files | `build_manifest`, `execute_local_transfer`, `save_manifest`, `load_manifest` | file system; called by the CLI |
| sharing session (`crates/cli`) | per code: offer, claim, state, two "yes" files, manifest; for all codes: history | `send`, `receive`, `clean`, `history`, `discover` | the other processes, only by files under `~/.sendrs`; executor, trust store, discovery |
| identity and trust (`crates/security`) | `identity.json`, `trusted_peers.json` | `load_or_create_identity`, `load_trust_store`, `pair_peer`, `is_peer_paired` | file system; called by CLI and FFI |
| signaling server (`crates/signaling-server`) | map from peer id to the outgoing channel of a connection | register, relay, disconnect | WebSocket connections, one task each |
| signaling client (`crates/signaling-client`) | two unbounded channels | connect, send, recv | the server |
| discovery (`crates/discovery`) | peers and offers heard until a deadline | broadcast, listen | UDP broadcast |
| FFI (`crates/ffi`), with `TransferTask` (`crates/core`) | peers, tasks, last error, under one mutex | the exported C functions | discovery, trust, chat, manifest builder; the Flutter app |
| chat store (`crates/chat`) | one SQLite table | append, list | called by the FFI |
| transport (`crates/transport`) | none | builds a configuration value | nobody yet |
| Flutter app | none that matters | static pages | FFI |

### How they interact

`sendrs send` builds a manifest, writes manifest, offer and a first state, prints
a code and then serves one receiver after the other, for ever. `sendrs receive`
with that code writes a claim. If a side does not trust the other, its user has to
type yes; it then writes its own "yes" file and waits for the one of the other
side. Then the *sender's* process copies the files into the receiver's directory,
reporting into `state.json`, which the receiver polls until it says
"completed" or "failed" for its own claim. Both append a record to the history. There are no
locks: every process truncates and rewrites whole files. All of them run under
one home directory (README.md:75), so they share one identity, one trust store
and one history.

### What is hard, and what makes each part correct

* **executor**: killed between writing a chunk, marking it and saving the mark;
  write errors after part of a chunk; a checkpoint torn by a crash; marks that
  are no longer true because the target is another one; the source edited
  between metadata, hashing and copying, and between any two reads of these; a read
  that returns less than there is; the arithmetic of `bytes_done`. Correct
  means: Ok is the truth, nothing that arrived is lost, every call returns, and
  retries complete when the source stays what the manifest says.
* **session**: several processes in any order on files that are truncated before
  they are written, removed under one another, and shared by receivers that
  compete for one code; Ctrl+C and `clean` at any time. Correct means: no
  transfer without both consents, no report believed that is about someone else,
  no trust without a yes, every served receiver gets to an end.
* **trust and identity**: check-then-create and read-modify-write races.
* **signaling**: a connection that ends removes its peer id even if a newer
  connection has it; second registrations leave entries behind; a message to a
  connection whose task has ended, or that has gone without a close, is lost and
  nobody is told. Correct means: a registered connection that is up is reachable,
  nobody gets what is addressed to someone else, and messages of one sender keep
  their order.
* **discovery**: datagrams that are on their way for a while, lost, doubled and
  repeated, a broadcast before the own socket is bound, a deadline against senders
  that sleep. Correct means: a sender that is active all the time is shown, a round
  that begins while another listens is found by it, and whoever is heard is shown
  once.
* **FFI**: calls of several threads; `last_error_message` is itself a call that
  clears the error. Correct means: a thread reads its own error until another call
  ends, pairings are kept, the device keeps its identity.
* **chat**: order by a wall clock of seconds, read before the row is inserted.
  Correct means: listing gives the newest messages in the order they were sent.

## 2. The modules

| module | contents |
|---|---|
| `Transfer` | the executor, one action per step between two accesses to the disk |
| `Delivery` | abstract: what a resumable transfer promises |
| `ResumeBitmap` | the bytes behind `Transfer`'s set of finished chunks |
| `TransferBytes` | `Transfer` with these bytes in its manifest and checkpoint |
| `MCTransfer`, `Transfer.cfg` | the instance of `TransferBytes` for TLC |
| `TransferProofs`, `BitmapProofs` | theorems about `Transfer` and about `TransferBytes` |
| `SharedFile` | a JSON file that is truncated, then written, by several processes |
| `Session` | one sender and any number of receivers with its code; extends `SharedFile` |
| `Handshake` | abstract: what a session promises about each claim |
| `MCSession`, `Session_*.cfg` | instances of `Session` for TLC |
| `SessionProofs` | theorems about `Session` |
| `Signaling` | the signaling server and its clients |
| `Switchboard` | abstract: what the server promises to its clients |
| `MCSignaling`, `Signaling*.cfg`, `SignalingProofs` | its instances and theorems |
| `App` | threads that call the exported functions of the FFI; extends `SharedFile` and `ChatStore` |
| `ChatStore` | the chat table, its insertion and its query |
| `MCApp`, `App.cfg`, `AppProofs` | the instance of `App` and theorems about it |
| `Discovery` | running sends and discovery rounds on a LAN, with time and datagrams on their way |
| `MCDiscovery`, `Discovery.cfg`, `DiscoveryProofs` | its instance and theorems |

### Transfer

`src` and `dst` are the files; `size`, `image` and `cuts` are the manifest. `size` is
what `metadata` said. `hash_file` then reads in a loop, and hashes what each `read`
returned as a chunk of its own (transfer:351-359): `image` is all bytes it has read, in
order, and `cuts` says how many they were after each read. A hash stands for the
bytes hashed (blake3 is taken to be injective), so `file_hash` is the `image` and
`chunk_hashes` are its pieces, from `ChunkStart` to `ChunkEnd`. Every read is a step
(`HashChunk`), so the source may be edited between two of them, which makes a *mixed*
image, with the beginning of one content and the rest of another; and a read may
return less than there is (event `short`), which makes a *misaligned* one, whose
chunks are not those that the executor cuts at multiples of `chunk_size`
(`ChunkMatches`, `Aligned`). The `read_exact` of `copy_chunk` may be several reads as
well: `buf` holds what they have returned so far (`ReadPart`), and `Seen` is the
source as the attempt sees it.
`resume_bitmap` is the set of its set bits over all entries. `ResumeBitmap`
has the bytes themselves, `set_bitmap` and `get_bitmap` with the silence in which
they pass over an index past the end; `StandsFor` says when bytes stand for a set.
`TransferBytes` adds the variables `bytes`, the vectors in the manifest, and `saved`,
those in the checkpoint, to every step of `Transfer`: allocated in `build_entry`,
marked, cleared if the *bytes* say the chunk was done, saved, truncated, loaded.
`checkpoint` is the checkpoint file: whether it parses, and the bitmap in it.
`pc`, `file`, `chunk`, `attempt` say where the executor is.

| actions | code |
|---|---|
| `StatEntry`, `HashChunk`, `HashEnd`, `FinishManifest` | `build_manifest`, `build_entry`, the loop of `hash_file` |
| `Begin`, `OpenFile` | transfer:137-195, with `set_len` without truncation |
| `SkipChunk`, `NeedChunk` | transfer:200-218 |
| `ReadPart`, `CopyChunk`, `CopyMismatch`, `CopyFault` | `copy_chunk` and the retry loop, transfer:220-249 |
| `TruncateCheckpoint`, `WriteCheckpoint` | `save_manifest`, after each chunk and at the end |
| `CheckFile` | transfer:252-257 |
| `IOFault` | every other error that `?` returns |
| `Crash`, `LoadCheckpoint`, `BuildAgain` | the process is killed, and started again with `load_manifest`, or with a new manifest where that fails |
| `EditSource`, `Retarget` | the user; the next receiver of cli:267-272 |

A chunk is copied and marked in one step, because both happen between the
accesses to the disk: killed before the mark or after it, but before the
checkpoint, the next run sees the same disk. A kill *inside* `write_all` leaves
what `CopyFault` leaves, which a crash can follow. An absent target file is an
empty one, since it is created and then given its size. The progress callback is
the subject of `Session`. Files of equal path within one manifest do not occur.

`Delivery` knows wanted and present chunks only. `Transfer` maps to it by
`wanted <- Chunks` and `present <- Present`, the chunks that would pass
`verify_chunk_at`; a step of the executor is a step of `Delivery` or a stutter.
What a call does to get there is in two action properties: `CallAdvances`, that each
step takes it forward in its loops, and `FailsForAReason`, which lists the only
reasons for an error: an I/O error, an entry whose size and hashes are of different
contents, a misaligned one, or a source that an attempt did not see as it was hashed. The
comparison of the whole file's hash is not among them. `ManifestIsTheSource` is about
the manifest before any call: of a source that stays it has the size and the
bytes, and only a short read can have misaligned it.

The hash of a target (transfer:252) and the reading of a chunk to be verified
are one step each: nobody else writes to the target during a call, and of the hash of
the target the code compares `file_hash` only, to which the lengths of reads do not matter.

### Session

Every step is one access to a shared file: a poll that succeeds, a truncation,
a write, a removal. A read after `exists()` is one step with it; so is
`remove_dir_all`. A claim is identified with the process that makes it, which
makes one. `sAns` and `rAns` record how each side approved a claim, `result`
what the transfer returned; these are observations, which no guard of another
process reads. `store` and `entries` are what `pair_peer` and
`append_history` of a process have read and will write back.

`SharedFile` has the window between truncation and writing: a reader then finds
an empty file, a second writer may have written its text into it, and the later
of two overlapping writers leaves its own text or, if that is the shorter one, a
text that does not parse. A file that is removed takes its open writers' text
with it.

| actions | code |
|---|---|
| `ClearClaim`, `ClearYes` | cli:214, 519-524 |
| `PollClaim`, `TakeClaim` | cli:217-218 |
| `CheckTrust`, `Approve`, `Refuse`, `SayYes`, `SeeYes` | cli:225-262 and, roles exchanged, cli:380-405 |
| `LoadTrust`, `TruncateTrust`, `WriteTrust` | `pair_peer` |
| `Progress`, `ProgressWritten`, `TransferOk`, `TransferErr`, `SaveManifest`, `Report`, `Reported` | cli:266-353 |
| `LoadHistory`, `TruncateHistory`, `WriteHistory` | `append_history` |
| `Prepare`, `RefusePath`, `SaveFirst`, `WriteOffer`, `TruncateFirst`, `Announce` | cli:151-211, up to the printed code |
| `ReadOffer`, `TruncateClaim`, `WriteClaim`, `ReadState` | `cmd_receive`, `wait_for_completion` |
| `Kill`, `CleanSessions`, ... | Ctrl+C, `cmd_clean` |

Receivers start when the code is out (`Announce`): nobody knows it before. Errors
of the disk itself are left out here, except where another process causes them:
a file that does not parse, a directory that `clean` has removed.

`Handshake` has no files and no processes: per claim the two answers, what came of
the transfer, and what the receiver was told. `Session` maps to it by its
observations `sAns`, `rAns` and `result`, and by `Belief`, which reads what the
receiver was told from where it is. Its constant `Heard` says whose yes the sender
takes for the yes of a claim: that claim's own (`Agreement`) is what the README
promises and one receiver gets; anybody's (`SharedAgreement`) is what any number of
receivers with one `receiver_yes` file get.

### Signaling

A connection is used once; a peer that comes back opens another one. The client's
unbounded channel, the socket and the pump between them are one queue in each
direction, `up` and `down`; the server's channel of a connection is part of `down`.
`peers` is the server's map, `registered` what each handler remembers. `sent`,
`got` and `names` observe what was sent, received and registered.

| actions | code |
|---|---|
| `Connect`, `Send`, `Recv`, `Drop` | `SignalingClient`, with its two pumps |
| `Register` | server:94-102 |
| `Relay` | server:103-127; look-up and send are one step, as the read lock is held through both |
| `Reject`, `Ignore` | a payload that does not parse, a message without a target |
| `Leave`, `Lose` | the loop ends by a close or a receive error; clean-up |
| `Break` | a connection goes without a close: what is written to it is lost |

`Switchboard` has no queues, tasks or map: a line speaks, goes under ids, and
receives signals and errors. `Signaling` maps to it by the observations `sent`,
`names` and `got`: `Recv` of a signal is `Deliver`, of an error is `Refuse`,
`Register` is `Register`, `Send` is `Speak`, and all else a stutter.

Start-up, `/health` and the WebSocket handshake are left out. Nothing makes the
server notice a broken connection, since it sends no pings; `Lose` may happen,
and is not forced.

### App and ChatStore

A thread is idle or inside a call. A call starts (`Call`), takes the steps of its
body, and ends with `Finish`, which sets or clears `last_error`: `with_result` and
`with_json`. A lock that is taken and released within a body makes one step of
what happens under it; the error a call will report is kept in `out`. Values
behind errors do not matter here: an error is known by the thread that made it.

| actions | code |
|---|---|
| `CheckIdentity`, `TruncateIdentity`, `WriteIdentity`, `LoadIdentity`, `StorePeers` | `start_discovery`: security:43-76, ffi:23-37 |
| `LoadTrust`, `TruncateTrust`, `WriteTrust` | `pair_peer` |
| `PushTask`, `AcceptTask` | `send_path`, `accept_transfer` |
| `ReadClock`, `Insert` | `send_chat`: `append_message` |
| `Read`, `ReadError` | the lists; `last_error_message`, which returns what it finds |
| `Fail`, `Crash` | any error in a body; the application is killed and started again |
| `Tick`, `SetBack` | the clock |

`ChatStore` is the table as a sequence. `list_messages` puts each row where the order
`sent_at DESC, id DESC`, the limit and the reversal put it: by the number of rows
that come before it. `made`, `held`, `raced`, `paired`,
`disturbed`, `wentBack`, `outcome`, `overtaken` and `told`, what a running
`last_error_message` will return, are observations.

### Discovery

Time goes in ticks of 250 ms, the listener's read timeout. `slept`, `elapsed` and
`waited` are differences to the last broadcast, to the start of listening and to
the last return of `recv_from`. A step takes no time, and `Tick` is possible only
when every sender sleeps within its limit, every listener is blocked, and no datagram
has been on its way too long, so a deadline is looked at when the code looks at it:
between two calls of `recv_from`.

| actions | code |
|---|---|
| `Launch`, `Announce`, `Stop` | the broadcast thread of `cmd_send`, cli:204-208; Ctrl+C |
| `SendBeacon`, `Bind` | discovery:66-98: the beacon, then the socket |
| `Recv`, `Silence`, `SocketError` | the loop of `listen_for_snapshot`, discovery:100-157 |
| `Arrive`, `Doubled`, `Lost` | the network, as `send_to` and `recv_from` use it |
| `Hello` | a round on another device |
| `Tick` | time |

`send_to` (discovery:165) puts a copy of the datagram for every device into `air`. A
copy is on its way for up to `Latency` ticks and arrives when it likes, in any order;
it goes into the buffer of the socket that is bound on its device when it arrives,
and is gone if none is. So a round that binds between the sending and the arrival
hears the datagram, its own beacon included. One socket of a host can hold the port.
A peer is known by its peer id and collects the source address of each datagram, so a
device with two addresses is one peer with both. `due` observes, for each
round, whose datagrams its socket has to get before its deadline unless they are lost.

## 3. What is checked

| run | instance | shows |
|---|---|---|
| `transfer` | 2 files, chunks of 2 bytes, contents of 0 and 3 bytes, 2 attempts, any three of five disturbances | `TypeOK`, `ManifestIsTheSource`, `OkMeansDelivered`, `BytesDoneExact`, `CheckpointTruthful`, `BytesSayMarks`; implements `Delivery`; `CallAdvances`, `FailsForAReason`; `CallReturns`, `RetriesComplete` |
| `session_pair` | one receiver, both asked, 2 kills, 2 removals | `TransferNeedsBothYes`; implements `Handshake` |
| `session_two` | two receivers (symmetric), 1 kill, 1 removal | `TypeOK`, `ReportsAreTrue`, `TrustNeedsYes`, `ReportAwaits`; implements `Handshake` with any receiver heard |
| `session_trusted` | one trusted receiver, 2 progress reports, fair | `TakenClaimIsAnswered`, `PolledReceiverIsServed` |
| `signaling` | a peer with two connections, its correspondent sending twice, one odd message, one break, fair | `TypeOK`, `RelayIsFaithful`, `StaleOnlyAfterRename`, `ReachableUnlessNamesake`, `NoSignalIsLost`; implements `Switchboard`; `SignalIsAnswered`, `DroppedIsForgotten` |
| `app` | 2 threads, 2 peers, five mixes of calls and events | `TypeOK`, `OwnErrorUntilOvertaken`, `OneIdentity`, `PairingIsKept`, `ChatInOrder` |
| `discovery` | a round and a running send, or two rounds on one device or two; another device's beacon, one odd datagram, fair | `TypeOK`, `SnapshotIsWhatWasHeard`, `RunningSendIsShown`, `LaterRoundIsFound`; `RoundEnds` |
| `session_consent` | two receivers | **violated**: `TransferNeedsBothYes` |
| `session_sharing` | one receiver, fair | **violated**: `SenderKeepsSharing` |
| `session_history` | one trusted receiver | **violated**: `CompletedReceiveIsKept` |
| `session_delivered` | one receiver, fair | **violated**: `DeliveredReceiverEnds` |
| `signaling_reconnect` | a peer with two connections | **violated**: `RegisteredIsReachable` |

**Bounds.** `Transfer`: the contents give an entry no chunk, or a full chunk and a short
one, of which the first may be equal to what `set_len` fills in; a short read makes more
and shorter chunks of them. The beginning of one content and the rest of the other are
of the same length and neither of them, so an edit between two reads makes a mixed image
that has its size. Targets have no file or an old one; two entries let a failure fall
before, in and after another file. The disturbances are an edit, a short read, a fault,
a crash and a change of target, each once and any three in one behaviour, in all orders
and at every step (`Budget`). The theorems are free of these bounds. `Session`:
`MaxReports` bounds how often one transfer rewrites `state.json` (at least once, as the
code does before the first chunk); `Budget` how often something is killed or removed.
Two receivers are enough for one to take, overwrite or answer for what belongs to the
other. `session_two` and `app` use symmetry, which is sound as they check no liveness.
`BytesSayMarks` meets files of no chunk up to three, for which a vector that is a byte
too short shows; the theorem of `BitmapProofs` is about any number.

`Signaling`: two connections of one peer and one of its correspondent are what
it takes for an old close to meet a new registration while messages are on their
way; two messages show order; the one odd message is a registration of the
correspondent's id, a payload that does not parse, or one without a target.
`App`: a behaviour has the calls of one mix, those that share a file or a lock,
with an error, a crash and a clock that ticks twice and is set back once: three
first starts or pairings let one follow two that overlap or are cut off.
`Discovery`: a behaviour has the senders and rounds of one cast (`Casts`): one round and
one sender, or two rounds. A sleep of 2 ticks that may take one more and one
tick on the way, against a timeout of 5, are close to the code's ratio of one
second to two and as tight as `Timeout > Period + Jitter + Latency` allows. The
assumption is what `RunningSendIsShown` needs: a sender may broadcast just
before the round binds its socket, oversleep, and its next datagram may be slow. With two
seconds of listening, the default of `discover` (cli:33) and the value of the FFI
(ffi:28), and one second of sleep there is room for that; for a `--timeout-secs` of 1
nothing is claimed. Two rounds overlap in every way: each is
before its beacon, before its socket, listening, or over while the other's beacon is
sent, on its way, or there, so both find each other, one does, or none. A buffer of 2
holds a datagram that comes twice; `MaxOdd` counts datagrams that are lost, doubled or
of a third device, which is one that no round of the behaviour runs on.

Deadlock is not checked for sessions: a sender that has no receiver polls for
ever and takes no step, and killed processes are at rest. Nor is it for the
server, the application and discovery, which rest when nobody calls, sends or
looks, or when the bounds are used up. It is checked for `Transfer`.

**Fairness.** `Transfer!FairSpec`: a process that runs keeps running, so a step
that is enabled is taken. `RetrySpec` adds that a caller starts a failed or
killed transfer again. Nothing in `crates/transfer` does this; it is what its
resume test and the loop of `cmd_send` do, and `RetriesComplete` is a statement
about such a caller; `TransferBytes!RetryBytesSpec` is the same with the bytes. No
disturbance is ever forced, and `RetriesComplete` has
its own hypothesis: the source is from some time on what the manifest says.
`Session!FairSpec` is weak fairness of each process: the scheduler runs it, a
poll eventually sees what stays there, the copying ends (which `CallReturns`
shows), and a user answers a prompt in some way. Users are not fair in which answer
they give, and nobody is forced to kill or clean.
`Signaling!FairSpec` is weak fairness of each handler and of each client's reading:
tasks are scheduled and what is written to a connection that holds arrives.
Connecting, sending and dropping are up to the clients, and noticing a silent
break is not forced, so `SignalIsAnswered` names the connections that may swallow
a message. `Discovery!FairSpec` is weak fairness of `Clockwork`: time passes,
datagrams arrive, and threads whose turn it is take it; nobody has to begin a round.
Since steps take no time and a sender sleeps between two broadcasts, `RoundEnds` says
that the deadline ends a round under silence and under datagrams that keep coming, not
under a flood that leaves the loop no time. `App` has no liveness
property: but for the round of discovery its calls have no loops, and they take one
lock at a time.

**Property mutants.** Definitions commented as slips, in front of what they
would replace, are bugs of the kind this code could have: opening the target with
truncation, `write` for `write_all`, trusting a mark, not counting attempts, not
taking a short read for the end of a file, comparing no hash of the whole file, not
comparing `claim_id`, waiting for the own "yes", remembering a connection's first id,
ending a round at the first datagram, sorting without the row's id, dividing by eight without
rounding up. Each makes a property fail.

### Where code and documentation part

* **Consent** (`session_consent`). README.md:18 says both sides type yes. `receiver_yes`
  belongs to the code, not to a claim. With two receivers the yes of one starts the
  transfer to the other.
* **Sharing** (`session_sharing`). README.md:73 says the sender only stops when it is
  terminated. After a receiver refuses, a sender that has said yes waits for ever.
* **History** (`session_history`). README.md:21 says records are kept. `append_history` of
  sender and receiver overlap, and the receiver's record is overwritten.
* **Delivered, not told** (`session_delivered`). A quick sender removes `sender_yes` for its
  next round before the receiver's next poll; the receiver waits for ever.
* **Reconnecting** (`signaling_reconnect`). docs/SIGNALING_PROTOCOL.md:3 says the server
  relays between registered peers. A peer that reconnects before the server
  has seen the end of its old connection is removed with it (server:132) and stays
  unreachable until it registers again.

A manifest can be made that nothing matches. `hash_file` takes the bytes of one
`read` for a chunk, whatever their number (transfer:352-358), while the executor cuts
chunks at multiples of `chunk_size`. A read that returns less than the buffer holds,
though more is to come, or an edit between two reads, gives `chunk_hashes` that fit
no source the executor can read: every call on this manifest fails with "source chunk
hash mismatch", and retrying does not help; only `build_manifest` does, which
`sendrs send` calls once. `Read` allows short reads, and Linux hardly ever makes them
for regular files. The run `transfer` contains both. That they are the only way is
`ManifestIsTheSource`, and that `RetriesComplete` needs `Aligned` is this divergence;
`Ok`, `bytes_done` and the checkpoints stay right in spite of it.

Seen while modelling, and part of the model, without a run of their own: a receiver that
said yes waits for ever when the sender refuses (cli:405); a failed receive is never
recorded, as `wait_for_completion` returns an error (cli:410, 539) although README.md:21
speaks of failed receives; a reader that meets a truncated file ends with a parse error,
a receiver so in the middle of a transfer that completes (cli:528), and
`TakenClaimIsAnswered` counts this as an end; a claim is lost when another receiver
overwrites it or the sender removes it for the next round (cli:214, 218, 378), which is
why `PolledReceiverIsServed` is about a receiver that starts while the sender polls; the
"completed" of one receiver can be overwritten by the reports to the next before it is
polled (cli:529); cleaning manifests ends a sender after its next transfer without a
word to its receiver (cli:293). `test/README.md:68` still says that `send` exits after
one transfer. A connection that registers two ids leaves the first in the map when it
ends, and what is sent to it vanishes (`StaleOnlyAfterRename` says that this is the only
way). Two devices that look for each other at the same time may both find the other, or
one of them, or none, as each sends its beacon before it binds its socket, and it
depends on how long the beacons take; a round may find its own device for the same
reason. What is certain is `LaterRoundIsFound`. Two overlapping first starts give two
identities, or a torn file; and an `identity.json` that is cut off between truncation
and write makes every later start fail (security:47). A `pair_peer` that is cut off
there loses all pairings, and two that overlap one of theirs. `OneIdentity` and
`PairingIsKept` exclude exactly these overlaps and cut-offs by their premises (`raced`,
`disturbed`), and say what sequences of other calls, errors and restarts keep.
`last_error_message` clears the error it returns (ffi:134), and any call of another
thread that ends replaces it.

## 4. What is proved

`TransferProofs` holds, for every value of the constants that satisfies
`TransferAssumption` (natural numbers, a positive chunk size):

| theorem | statement |
|---|---|
| `TypeCorrect` | `Spec => []TypeOK` |
| `ManifestIsTrue` | `Spec => []ManifestIsTheSource` |
| `OkIsTheTruth` | `Spec => []OkMeansDelivered` |
| `BytesAreExact` | `Spec => []BytesDoneExact` |
| `CheckpointIsTruthful` | `Spec => []CheckpointTruthful` |
| `ImplementsDelivery` | `Spec => Promise!Spec` |
| `CallGoesForward` | `Spec => CallAdvances` |
| `FailuresHaveReasons` | `Spec => FailsForAReason` |

The argument. `TypeInv` adds to the types where the executor is: while it
copies a chunk, that chunk has bytes and no mark; once it saves, it has one.
From this, with two lemmas on cardinalities (`MarkedChunk`, `ClearedChunk`: a mark
adds its `read_len` to `done_size`, clearing takes it away), `bytes_done` stays
what `done_size` computes, and in particular `saturating_sub` never saturates.
`OkMeansDelivered` is not inductive: that the last file is right says nothing of
the others. `IInv` therefore states what is established behind the executor:
all earlier files are verified and fully marked (`VerifiedFiles`), all earlier chunks of
this file are marked (`CurrentFile`); the work goes on in the current
file only, so it stays. At the end every byte lies in a marked chunk
(`AllBytesDone`, from `ByteInChunk`). `CheckpointInv` says that both bitmaps, in memory
and saved, are truthful as long as the target is the one they were made for. It
rests on `ChunksStay`: within a call no step takes away an intact chunk, since
`set_len` keeps what is below the size, and a write, complete or not, puts there
only bytes of `image`.

About the manifest, `HashInv` says that the pieces of an image follow one another, have a
byte each and no more than `chunk_size`, whatever the reads were, and that together
they are the image once it is hashed. `SourceInv`, for `ManifestIsTrue`, follows
`hash_file` through a source nobody edits: what it has read is the beginning of the source
(`Telling`), and with full reads every cut so far is where the executor cuts, unless the
file has ended there.

The refinement takes `ChunksStay` and, for an Ok, `WholeInv`, that in an entry that is
verified every chunk matches. That follows from the comparison of the file's hash only if
the chunks are where the executor reads them, which `StraightInv` shows: if size and
image agree in length, a chunk that was copied or skipped has matched, so it had
`chunk_size` bytes or was the last one, and the next one starts where the executor expects
it. A misaligned entry is never answered with Ok. `CallGoesForward` is
the part of "every call returns" that needs no fairness: `LoopInv` keeps a call inside
the bounds of its loops, so the positions it runs through in lexicographic order are
finitely many. For `FailuresHaveReasons`, `CopiedInv` says that every chunk
behind the executor is intact at the target, be it copied or verified; with `StraightInv`
all bytes are there when the file's hash is compared (`AllThere`), and only what the
property names is left as a reason: an attempt that fails without an I/O error sees a
source that does not match the chunk's hash, and in an aligned entry
(`AlignedMatches`) a source that is as it was hashed does.

`BitmapProofs` holds, about any number of files of any number of chunks:

| theorem | statement |
|---|---|
| `BytesHoldTheMarks` | `BytesSpec => []BytesSayMarks` |
| `BitmapIsASet` | what the operations on bytes do is what `Transfer` does to its set |

`BitmapIsASet` is the step: the empty bitmap of `build_entry` stands for the empty
set, and marking or clearing a chunk in the bytes is adding it to, or taking it from,
the set. It rests on `BitOfItsOwn`: the bit of every chunk is inside the vector and no
two chunks share one. The invariant `BytesInv` adds that while a manifest is built the
entries behind `build_entry` have empty vectors of their length, and that the bytes in a
checkpoint that parses stand for the saved set; `CopiedChunk` shows that the executor
marks only chunks there is a bit for.

`SignalingProofs`, for any connections, ids and messages:

| theorem | statement |
|---|---|
| `TypeCorrect` | `Spec => []TypeOK` |
| `StaleEntries` | `Spec => []StaleOnlyAfterRename` |
| `Reachable` | `Spec => []ReachableUnlessNamesake` |
| `FaithfulRelay` | `Spec => []RelayIsFaithful` |
| `SignalsAreAccountedFor` | `Spec => []NoSignalIsLost` |
| `ServerKeepsSwitchboard` | `Spec => KeepsSwitchboard` |

For the map, `MappedInv` adds to the property that a handler remembers the last of
its registrations (`NamesInv`), that nobody is in the map under an id he has not
registered (`MapInv`), and that a connection still to come has registered nothing
(`NewInv`). Relaying needs an invariant about messages on their way (`Core`): what
waits in `up` is what was sent, in order and not yet relayed (`UpSent`,
`UpSorted`, `Behind`), and what was received or waits in `down`, taken together,
was addressed to its connection (`AllSound`), is in order (`AllSorted`), and is in no
other connection's (`Once`). The refinement uses the same invariant: `Asked`, that a
registration on its way was asked for, makes `Register` a step of `Switchboard`, and
the order of `down` behind `got` makes `Recv` one (`NextMessage`, `RecvIsPromised`,
`StepIsPromised`). `NoSignalIsLost` rests on `GoneInv`, that a handler ends only when
its client has dropped or lost the connection, and on `MapInv`: a message posted to a
channel nobody reads is posted to a connection that the property names.

`SessionProofs`, for any receivers, devices, reports, kills and removals:

| theorem | statement |
|---|---|
| `TypeCorrect` | `Spec => []TypeOK` |
| `TrueReports` | `Spec => []ReportsAreTrue` |
| `TrustTakesYes` | `Spec => []TrustNeedsYes` |
| `ReportsAwait` | `Spec => []ReportAwaits` |
| `TransferTakesYes` | at most one receiver: `Spec => []TransferNeedsBothYes` |
| `ReceiversKeepHandshake` | `Spec => KeepsSharedHandshake` |
| `SessionKeepsHandshake` | at most one receiver: `Spec => KeepsHandshake` |

`TypeInv` adds that the sender serves a claim exactly where its code has one.
`ControlInv` says who has answered what at each place of the two programs, and that a
claim in the file is new; it is what makes answers final. On it rest `TruthInv`
(what `state.json`, the histories on disk and those about to be written say is true,
and a claim whose failure was reported gets no more results) and `TrustInv` (a
"yes" file and a store that is about to be written back come after the
yes of both sides). `TransferNeedsBothYes` is false for two receivers, as
`session_consent` shows; `ConsentInv` proves for any number the weaker fact
that some receiver has said yes, and the assumption that there is only one makes it
the property. `ReportInv` adds to `ReportAwaits` that a report being written is in a
file that the sender alone has open, unless it was removed; that the report then stays
rests on `ServedByReport` and `NextServed`, when the service of a claim begins and
ends. The refinement goes through `SenderTellsNobody`, `ReceiverLearns` and
`Implements`: a step maps to one of `Handshake`'s or to a stutter, for any number of
receivers if the sender may hear any of them; with one receiver both `Heard` are the
same, and `SessionKeepsHandshake` follows.

`AppProofs`, for any threads, peers and budgets:

| theorem | statement |
|---|---|
| `TypeCorrect` | `Spec => []TypeOK` |
| `ErrorIsOwn` | `Spec => []OwnErrorUntilOvertaken` |
| `PairedStays` | `Spec => []PairingIsKept` |
| `IdentityStays` | `Spec => []OneIdentity` |
| `ChatStaysInOrder` | `Spec => []ChatInOrder` |

`PairInv`: as long as nothing has been disturbed at most one thread is pairing, and
what it will write is what is kept and its own peer. `IdentityInv`: as long as no
first starts overlapped at most one thread is creating the identity, and whatever a
thread holds is what the file says or is about to say. `TableInv`: as long as the clock
has not gone back, no row is stamped later than it shows, nor is what a thread is
about to insert, and a row that was sent after another one had been stored has no
earlier stamp and a greater id. That the query then lists rows in that order needs
its ranks: `Before` numbers the rows of a peer without a gap or a double.

`DiscoveryProofs`, for any senders, rounds, devices, buffers and losses:

| theorem | statement |
|---|---|
| `TypeCorrect` | `Spec => []TypeOK` |
| `SnapshotIsTrue` | `Spec => []SnapshotIsWhatWasHeard` |
| `ActiveSendShown` | `Spec => []RunningSendIsShown` |
| `LaterRoundFound` | `Spec => []LaterRoundIsFound` |

`LoopInv` ties the timers to the loop: a listener whose deadline has passed is
about to see it. `ShowInv` says why whoever is due will be shown: it has been taken
(`Found`), or a datagram of it waits in the buffer before the deadline (`Waiting`), or a
copy is on its way that must arrive before it (`Coming`), or it is a sender that
has not broadcast since the round bound its socket, and then it has slept at least as long
as the round has listened (`Sleeping`). A tick ages a copy as much as it brings the
deadline nearer, so `Coming` stays; with `Timeout > Period + Jitter + Latency` a sender
that wakes broadcasts early enough for `Coming`; and at the deadline only `Found` is left
(`OverMeansFound`). `Broadcasting` and `Beacons` are what the two kinds of broadcast
put on the way.

Every invariant, action property and refinement of the passing runs is a theorem. Only
model-checked is liveness (`CallReturns`, `RetriesComplete`, `TakenClaimIsAnswered`,
`PolledReceiverIsServed`, `SignalIsAnswered`, `DroppedIsForgotten`, `RoundEnds`), since
fairness is beyond the prover. Of three of them a part that needs no fairness is
proved: `CallAdvances` for `CallReturns`, `NoSignalIsLost` for `SignalIsAnswered`,
`ReportAwaits` for `TakenClaimIsAnswered`.

## 5. Not modelled, and what is left

Not modelled for good: names, paths, directory walks and timestamps of a
manifest; messages and formats of what is printed; key generation, encodings and
the content of ids; `transport`, which has no state and no caller; the Flutter
pages; start-up and `/health` of the server; `verify_entry` and
`relative_entry_paths`, which only read; `free_c_string` and the pointers that cross
the FFI; functions without callers (`is_peer_paired`, `verify_peer_key`,
`short_code_from_public_key`, `TransferTask::update_progress`, `mark_in_progress`,
`mark_failed`).

Hazards without a property: a receiver that has said yes waits for ever for a
sender that refused (cli:405), which would repeat `session_delivered` on another
path; a claim that is written between the sender's reading of another one and its
removing the file (cli:218), where no document promises that every claim is served.

What is left are larger instances: three receivers, two peers that both
reconnect, three threads. The theorems have no such bounds, so this would add to
the liveness properties only.
