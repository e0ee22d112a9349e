------------------------------- MODULE Session -------------------------------
(***************************************************************************)
(* The sharing session of crates/cli: one `sendrs send' and the `sendrs    *)
(* receive' processes that were given its code.  They share no memory and  *)
(* no channel, only files under ~/.sendrs: the claim, the state and the two*)
(* "yes" files of the session, the trust store and the history.  Each step *)
(* below is one access to such a file; waiting is polling.                 *)
(*                                                                         *)
(* A claim is identified with the receiver process that makes it: a        *)
(* process makes one claim, under a fresh claim_id.  What happens inside   *)
(* execute_local_transfer is the subject of module Transfer; here it       *)
(* reports progress and ends well or badly.                                *)
(***************************************************************************)
EXTENDS Integers, FiniteSets, SharedFile

CONSTANTS
    Sender, Receivers,  \* the processes
    DeviceOf,           \* the device_id each process loaded
    InitialTrust,       \* device ids in trusted_peers.json at the start
    MaxReports,         \* bound: progress reports of one transfer, one at least
    Budget              \* bound: how often each event of Events may occur

Procs   == {Sender} \cup Receivers
Devices == InitialTrust \cup {DeviceOf[p] : p \in Procs}
Events  == {"kill", "clean"}

ASSUME SessionAssumption ==
    /\ Sender \notin Receivers /\ IsFiniteSet(Receivers)
    /\ Nobody \notin Procs
    /\ DOMAIN DeviceOf = Procs
    /\ MaxReports \in Nat \ {0}
    /\ Budget \in [Events -> Nat]

VARIABLES
    pc,
    cur,           \* the claim the sender serves
    sAns, rAns,    \* how sender and receiver approved each claim
    result,        \* run_result of the transfer for each claim
    reports,       \* progress reports of the current transfer
    store,         \* what pair_peer of each process will write back
    entries,       \* what append_history of each process will write back
    claim, state,  \* receiver.json, state.json
    yes,           \* do the two "yes" files exist
    trust, history,\* trusted_peers.json, history.json
    offer, sessionDir, manifestDir,  \* do these exist
    budget

answers == <<sAns, rAns>>
session == <<claim, state, yes, sessionDir>>
places  == <<offer, manifestDir, budget>>
loaded == <<store, entries>>
vars == <<pc, cur, answers, result, reports, loaded, session, trust, history, places>>

Role(p) == IF p = Sender THEN "sender" ELSE "receiver"
Other   == [sender |-> "receiver", receiver |-> "sender"]
Roles   == {"sender", "receiver"}
Answers == {"none", "trusted", "yes", "no"}
Claims  == Receivers \cup {Nobody}
Status  == {"waiting_receiver", "transferring", "completed", "failed"}
Records == [role : {"send", "receive"}, claim : Receivers, status : {"completed", "failed"}]

-----------------------------------------------------------------------------
Goto(p, from, to) == pc[p] = from /\ pc' = [pc EXCEPT ![p] = to]

Ended == {"done", "refused", "failed", "aborted", "killed"}

\* An error that `?' hands up to main: the process ends.
Abort(p) == pc' = [pc EXCEPT ![p] = "aborted"]

Spend(event) == budget[event] > 0 /\ budget' = [budget EXCEPT ![event] = @ - 1]

\* Nobody has the code of a `sendrs send' that has not printed it.
Init ==
    /\ pc = [p \in Procs |-> IF p = Sender THEN "prepare" ELSE "no_code"]
    /\ cur = Nobody
    /\ sAns = [r \in Receivers |-> "none"] /\ rAns = [r \in Receivers |-> "none"]
    /\ result = [r \in Receivers |-> "none"]
    /\ reports = 0
    /\ store = [p \in Procs |-> {}] /\ entries = [p \in Procs |-> {}]
    /\ claim = Absent
    /\ state = Absent
    /\ yes = [role \in Roles |-> FALSE]
    /\ trust = IF InitialTrust = {} THEN Absent ELSE Holding(InitialTrust)
    /\ history = Absent
    /\ offer = FALSE /\ sessionDir = FALSE /\ manifestDir \in BOOLEAN
    /\ budget = Budget

-----------------------------------------------------------------------------
(* The confirmation, which both sides go through with the roles exchanged. *)

Peer(p)   == DeviceOf[IF p = Sender THEN cur ELSE Sender]
Claimed(p) == IF p = Sender THEN cur ELSE p

Answer(p, a) ==
    IF p = Sender THEN sAns' = [sAns EXCEPT ![cur] = a] /\ UNCHANGED rAns
                  ELSE rAns' = [rAns EXCEPT ![p] = a] /\ UNCHANGED sAns

\* Trusted, or both sides have said yes.
Confirmed(p) == IF p = Sender THEN "transfer" ELSE "wait"

\* is_trusted: a store that does not parse ends the process.
CheckTrust(p) ==
    /\ pc[p] = "check"
    /\ IF Exists(trust) /\ ~Parses(trust)
       THEN Abort(p) /\ UNCHANGED answers
       ELSE IF Exists(trust) /\ Peer(p) \in trust.body
       THEN pc' = [pc EXCEPT ![p] = Confirmed(p)] /\ Answer(p, "trusted")
       ELSE pc' = [pc EXCEPT ![p] = "prompt"] /\ UNCHANGED answers
    /\ UNCHANGED <<cur, result, reports, loaded, session, trust, history, places>>

\* prompt_yes: the user types yes ...
Approve(p) ==
    /\ Goto(p, "prompt", "yes")
    /\ Answer(p, "yes")
    /\ UNCHANGED <<cur, result, reports, loaded, session, trust, history, places>>

\* Slip: a receiver that refuses reports to state.json, as the sender does.
ReportRefusal(p) == "report"

\* Slip: the loop is not continued, and the code after the confirmation runs.
AsIfConfirmed(p) == Confirmed(p)

AfterRefusal(p) == IF p = Sender THEN "report" ELSE "load_history"

\* ... or anything else.
Refuse(p) ==
    /\ Goto(p, "prompt", AfterRefusal(p))
    /\ Answer(p, "no")
    /\ UNCHANGED <<cur, result, reports, loaded, session, trust, history, places>>

\* fs::write of the own "yes" file; it does not create the session directory.
SayYes(p) ==
    /\ pc[p] = "yes"
    /\ IF sessionDir THEN /\ pc' = [pc EXCEPT ![p] = "await"]
                          /\ yes' = [yes EXCEPT ![Role(p)] = TRUE]
                     ELSE Abort(p) /\ UNCHANGED yes
    /\ UNCHANGED <<cur, answers, result, reports, loaded, claim, state, sessionDir,
                   trust, history, places>>

\* Slip: wait_for_file is given the path of the own "yes".
OwnYes(p) == yes[Role(p)]

OtherYes(p) == yes[Other[Role(p)]]

\* wait_for_file finds the "yes" of the other side.
SeeYes(p) ==
    /\ OtherYes(p)
    /\ Goto(p, "await", "load_trust")
    /\ UNCHANGED <<cur, answers, result, reports, loaded, session, trust, history, places>>

\* pair_peer reads the store, adds the peer and writes the store back.
LoadTrust(p) ==
    /\ pc[p] = "load_trust"
    /\ IF Exists(trust) /\ ~Parses(trust)
       THEN Abort(p) /\ UNCHANGED store
       ELSE /\ pc' = [pc EXCEPT ![p] = "truncate_trust"]
            /\ store' = [store EXCEPT ![p] =
                  {Peer(p)} \cup (IF Exists(trust) THEN trust.body ELSE {})]
    /\ UNCHANGED <<cur, answers, result, reports, entries, session, trust, history, places>>

TruncateTrust(p) ==
    /\ Goto(p, "truncate_trust", "write_trust")
    /\ trust' = Truncated(trust, p)
    /\ UNCHANGED <<cur, answers, result, reports, loaded, session, history, places>>

WriteTrust(p) ==
    /\ Goto(p, "write_trust", Confirmed(p))
    /\ trust' \in Written(trust, p, store[p])
    /\ store' = [store EXCEPT ![p] = {}]
    /\ UNCHANGED <<cur, answers, result, reports, entries, session, history, places>>

-----------------------------------------------------------------------------
(* append_history, in the same three steps.                                *)

SendStatus == IF result[cur] = "ok" THEN "completed" ELSE "failed"

\* The entry the sender or a receiver is about to append.
Record(p) ==
    [role   |-> IF p = Sender THEN "send" ELSE "receive",
     claim  |-> Claimed(p),
     status |-> IF p = Sender THEN SendStatus
                ELSE IF rAns[p] = "no" THEN "failed" ELSE "completed"]

LoadHistory(p) ==
    /\ pc[p] = "load_history"
    /\ IF Exists(history) /\ ~Parses(history)
       THEN Abort(p) /\ UNCHANGED entries
       ELSE /\ pc' = [pc EXCEPT ![p] = "truncate_history"]
            /\ entries' = [entries EXCEPT ![p] =
                  {Record(p)} \cup (IF Exists(history) THEN history.body ELSE {})]
    /\ UNCHANGED <<cur, answers, result, reports, store, session, trust, history, places>>

TruncateHistory(p) ==
    /\ Goto(p, "truncate_history", "write_history")
    /\ history' = Truncated(history, p)
    /\ UNCHANGED <<cur, answers, result, reports, loaded, session, trust, places>>

\* The receiver is finished; the sender goes on with the next receiver.
WriteHistory(p) ==
    /\ Goto(p, "write_history", IF p = Sender THEN "clear_claim"
                                ELSE IF rAns[p] = "no" THEN "refused" ELSE "done")
    /\ history' \in Written(history, p, entries[p])
    /\ entries' = [entries EXCEPT ![p] = {}]
    /\ cur' = IF p = Sender THEN Nobody ELSE cur
    /\ UNCHANGED <<answers, result, reports, store, session, trust, places>>

-----------------------------------------------------------------------------
(* cmd_send, from the code it generates to the code it prints.             *)

\* The manifest is built and the directories are there.
Prepare ==
    /\ Goto(Sender, "prepare", "save_first")
    /\ sessionDir' = TRUE /\ manifestDir' = TRUE
    /\ UNCHANGED <<cur, answers, result, reports, loaded, claim, state, yes, trust,
                   history, offer, budget>>

\* The path does not exist, or cannot be read.
RefusePath ==
    /\ pc[Sender] = "prepare" /\ Abort(Sender)
    /\ UNCHANGED <<cur, answers, result, reports, loaded, session, trust, history, places>>

\* save_manifest, which takes its directory, as at the end of a transfer.
SaveFirst ==
    /\ pc[Sender] = "save_first"
    /\ pc' = [pc EXCEPT ![Sender] = IF manifestDir THEN "offer" ELSE "aborted"]
    /\ UNCHANGED <<cur, answers, result, reports, loaded, session, trust, history, places>>

WriteOffer ==
    /\ Goto(Sender, "offer", "first_state")
    /\ offer' = TRUE
    /\ UNCHANGED <<cur, answers, result, reports, loaded, session, trust, history,
                   manifestDir, budget>>

TruncateFirst ==
    /\ Goto(Sender, "first_state", "announce")
    /\ state' = Truncated(state, Sender)
    /\ sessionDir' = TRUE
    /\ UNCHANGED <<cur, answers, result, reports, loaded, claim, yes, trust, history,
                   places>>

\* write_state without a claim_id.
UnclaimedState(status) == [claim |-> Nobody, status |-> status]

\* The state "waiting_receiver" of no claim is written, and the code is out.
Announce ==
    /\ pc[Sender] = "announce"
    /\ pc' = [p \in Procs |-> IF p = Sender THEN "clear_claim" ELSE "start"]
    /\ state' \in Written(state, Sender, UnclaimedState("waiting_receiver"))
    /\ UNCHANGED <<cur, answers, result, reports, loaded, claim, yes, sessionDir,
                   trust, history, places>>

-----------------------------------------------------------------------------
(* cmd_send: its loop.                                                     *)

\* clear_runtime_session_files removes three files, one after the other.
ClearClaim ==
    /\ Goto(Sender, "clear_claim", "clear_sender_yes")
    /\ claim' = Absent
    /\ UNCHANGED <<cur, answers, result, reports, loaded, state, yes, sessionDir,
                   trust, history, places>>

ClearYes(role, from, to) ==
    /\ Goto(Sender, from, to)
    /\ yes' = [yes EXCEPT ![role] = FALSE]
    /\ UNCHANGED <<cur, answers, result, reports, loaded, claim, state, sessionDir,
                   trust, history, places>>

\* Slip: an error of read_json is handed up.
PollStrictly ==
    /\ pc[Sender] = "poll" /\ Exists(claim)
    /\ IF Parses(claim) THEN Goto(Sender, "poll", "take") ELSE Abort(Sender)
    /\ cur' = claim.body
    /\ UNCHANGED <<answers, result, reports, loaded, session, trust, history, places>>

\* wait_for_receiver_claim returns a claim that parses ...
PollClaim ==
    /\ Parses(claim)
    /\ Goto(Sender, "poll", "take")
    /\ cur' = claim.body
    /\ UNCHANGED <<answers, result, reports, loaded, session, trust, history, places>>

\* ... and the file is removed, whosever claim is in it by now.
TakeClaim ==
    /\ Goto(Sender, "take", "check")
    /\ claim' = Absent
    /\ reports' = 0
    /\ UNCHANGED <<cur, answers, result, loaded, state, yes, sessionDir, trust,
                   history, places>>

\* The setup's UnclaimedState is also the slip: a report without its claim_id.
SessionState(status) == [claim |-> cur, status |-> status]

\* on_progress: write_state, whose error is ignored.
Progress ==
    /\ reports < MaxReports
    /\ Goto(Sender, "transfer", "progress")
    /\ state' = Truncated(state, Sender)
    /\ sessionDir' = TRUE
    /\ reports' = reports + 1
    /\ UNCHANGED <<cur, answers, result, loaded, claim, yes, trust, history, places>>

ProgressWritten ==
    /\ Goto(Sender, "progress", "transfer")
    /\ state' \in Written(state, Sender, SessionState("transferring"))
    /\ UNCHANGED <<cur, answers, result, reports, loaded, claim, yes, sessionDir,
                   trust, history, places>>

\* execute_local_transfer returns Ok, which takes a manifest it could save and
\* the report it makes before the first chunk ...
TransferOk ==
    /\ manifestDir /\ reports > 0
    /\ Goto(Sender, "transfer", "save")
    /\ result' = [result EXCEPT ![cur] = "ok"]
    /\ UNCHANGED <<cur, answers, reports, loaded, session, trust, history, places>>

\* ... or Err.
TransferErr ==
    /\ Goto(Sender, "transfer", "report")
    /\ result' = [result EXCEPT ![cur] = "failed"]
    /\ UNCHANGED <<cur, answers, reports, loaded, session, trust, history, places>>

\* save_manifest after Ok; without its directory the sender ends.
SaveManifest ==
    /\ pc[Sender] = "save"
    /\ pc' = [pc EXCEPT ![Sender] = IF manifestDir THEN "report" ELSE "aborted"]
    /\ UNCHANGED <<cur, answers, result, reports, loaded, session, trust, history, places>>

\* write_state "completed" or "failed", which creates the session directory.
Report ==
    /\ Goto(Sender, "report", "reporting")
    /\ state' = Truncated(state, Sender)
    /\ sessionDir' = TRUE
    /\ UNCHANGED <<cur, answers, result, reports, loaded, claim, yes, trust, history,
                   places>>

Reported ==
    /\ Goto(Sender, "reporting", "load_history")
    /\ state' \in Written(state, Sender, SessionState(SendStatus))
    /\ UNCHANGED <<cur, answers, result, reports, loaded, claim, yes, sessionDir,
                   trust, history, places>>

-----------------------------------------------------------------------------
(* cmd_receive.                                                            *)

ReadOffer(r) ==
    /\ pc[r] = "start"
    /\ pc' = [pc EXCEPT ![r] = IF offer THEN "claim" ELSE "aborted"]
    /\ UNCHANGED <<cur, answers, result, reports, loaded, session, trust, history, places>>

\* write_json of the claim, over whatever claim is there.
TruncateClaim(r) ==
    /\ Goto(r, "claim", "claiming")
    /\ claim' = Truncated(claim, r)
    /\ sessionDir' = TRUE
    /\ UNCHANGED <<cur, answers, result, reports, loaded, state, yes, trust, history,
                   places>>

WriteClaim(r) ==
    /\ Goto(r, "claiming", "check")
    /\ claim' \in Written(claim, r, r)
    /\ UNCHANGED <<cur, answers, result, reports, loaded, state, yes, sessionDir,
                   trust, history, places>>

\* Slip: the claim_id of the state is not compared.
AnyReport(r) == Parses(state)

OwnReport(r) == Parses(state) /\ state.body.claim = r

\* wait_for_completion: an unreadable state ends the process, the state of
\* another claim and "transferring" keep it waiting, "failed" is an error.
ReadState(r) ==
    /\ pc[r] = "wait"
    /\ \/ ~Parses(state) /\ Abort(r)
       \/ /\ OwnReport(r)
          /\ \/ state.body.status = "completed" /\ Goto(r, "wait", "load_history")
             \/ state.body.status = "failed" /\ Goto(r, "wait", "failed")
    /\ UNCHANGED <<cur, answers, result, reports, loaded, session, trust, history, places>>

-----------------------------------------------------------------------------
(* The user: Ctrl+C, and cmd_clean, one removal for each flag it is given  *)
(* (--sessions and --offers when given none), in steps of their own.       *)

Kill(p) ==
    /\ pc[p] \notin Ended \cup {"no_code"}
    /\ Spend("kill")
    /\ pc' = [pc EXCEPT ![p] = "killed"]
    /\ UNCHANGED <<cur, answers, result, reports, loaded, session, trust, history,
                   offer, manifestDir>>

CleanSessions ==
    /\ Spend("clean")
    /\ claim' = Absent /\ state' = Absent
    /\ yes' = [role \in Roles |-> FALSE]
    /\ sessionDir' = FALSE
    /\ UNCHANGED <<pc, cur, answers, result, reports, loaded, trust, history, offer,
                   manifestDir>>

CleanOffers ==
    /\ Spend("clean")
    /\ offer' = FALSE
    /\ UNCHANGED <<pc, cur, answers, result, reports, loaded, session, trust, history,
                   manifestDir>>

CleanManifests ==
    /\ Spend("clean")
    /\ manifestDir' = FALSE
    /\ UNCHANGED <<pc, cur, answers, result, reports, loaded, session, trust, history,
                   offer>>

CleanHistory ==
    /\ Spend("clean")
    /\ history' = Absent
    /\ UNCHANGED <<pc, cur, answers, result, reports, loaded, session, trust, offer,
                   manifestDir>>

-----------------------------------------------------------------------------
Confirm(p) ==
    \/ CheckTrust(p) \/ Approve(p) \/ Refuse(p) \/ SayYes(p) \/ SeeYes(p)
    \/ LoadTrust(p) \/ TruncateTrust(p) \/ WriteTrust(p)

AppendHistory(p) == LoadHistory(p) \/ TruncateHistory(p) \/ WriteHistory(p)

Setup ==
    \/ Prepare \/ RefusePath \/ SaveFirst \/ WriteOffer \/ TruncateFirst \/ Announce

SenderStep ==
    \/ Setup
    \/ ClearClaim
    \/ ClearYes("sender", "clear_sender_yes", "clear_receiver_yes")
    \/ ClearYes("receiver", "clear_receiver_yes", "poll")
    \/ PollClaim \/ TakeClaim
    \/ Confirm(Sender)
    \/ Progress \/ ProgressWritten \/ TransferOk \/ TransferErr \/ SaveManifest
    \/ Report \/ Reported
    \/ AppendHistory(Sender)

ReceiverStep(r) ==
    \/ ReadOffer(r) \/ TruncateClaim(r) \/ WriteClaim(r)
    \/ Confirm(r)
    \/ ReadState(r)
    \/ AppendHistory(r)

UserStep ==
    \/ \E p \in Procs : Kill(p)
    \/ CleanSessions \/ CleanOffers \/ CleanManifests \/ CleanHistory

Next == SenderStep \/ (\E r \in Receivers : ReceiverStep(r)) \/ UserStep

Spec == Init /\ [][Next]_vars

\* The processes are scheduled, polling ends once there is what is polled for,
\* transfers end, and users answer a prompt sooner or later, as they like.
FairSpec ==
    /\ Spec
    /\ WF_vars(SenderStep)
    /\ \A r \in Receivers : WF_vars(ReceiverStep(r))

-----------------------------------------------------------------------------
(* Properties.                                                             *)

CommonAt == {"check", "prompt", "yes", "await", "load_trust", "truncate_trust",
             "write_trust", "load_history", "truncate_history", "write_history"}
SenderAt == CommonAt \cup
    {"prepare", "save_first", "offer", "first_state", "announce",
     "clear_claim", "clear_sender_yes", "clear_receiver_yes", "poll", "take",
     "transfer", "progress", "save", "report", "reporting", "aborted", "killed"}
ReceiverAt == CommonAt \cup Ended \cup {"no_code", "start", "claim", "claiming", "wait"}

\* The types of the variables; every file holds what its writers write to it.
TypeOK ==
    /\ DOMAIN pc = Procs
    /\ pc[Sender] \in SenderAt /\ \A r \in Receivers : pc[r] \in ReceiverAt
    /\ cur \in Claims
    /\ sAns \in [Receivers -> Answers] /\ rAns \in [Receivers -> Answers]
    /\ result \in [Receivers -> {"none", "ok", "failed"}]
    /\ reports \in 0..MaxReports
    /\ store \in [Procs -> SUBSET Devices] /\ entries \in [Procs -> SUBSET Records]
    /\ claim \in SharedFiles(Receivers, Receivers)
    /\ state \in SharedFiles([claim : Claims, status : Status], {Sender})
    /\ yes \in [Roles -> BOOLEAN]
    /\ trust \in SharedFiles(SUBSET Devices, Procs)
    /\ history \in SharedFiles(SUBSET Records, Procs)
    /\ offer \in BOOLEAN /\ sessionDir \in BOOLEAN /\ manifestDir \in BOOLEAN
    /\ budget \in [Events -> Nat]

Recorded(rec) == Parses(history) /\ rec \in history.body

Told(r) == pc[r] \in {"load_history", "truncate_history", "write_history", "done"}

\* Nobody is told of a transfer that is not his or did not end that way: a
\* receiver takes state.json for a success only if its own transfer returned Ok
\* and for a failure only if it did not, and no history record says otherwise,
\* however the sender's reports to other receivers get in between.
ReportsAreTrue ==
    /\ \A r \in Receivers :
          /\ Told(r) /\ rAns[r] # "no" => result[r] = "ok"
          /\ pc[r] = "failed" => result[r] # "ok" /\ sAns[r] # "none"
    /\ \A rec \in Records : Recorded(rec) =>
          IF rec.status = "completed" THEN result[rec.claim] = "ok"
          ELSE IF rec.role = "send"   THEN result[rec.claim] # "ok"
          ELSE rAns[rec.claim] = "no"

\* README: the first connection requires both sides typing yes.  A transfer starts
\* only for a claim that the sender trusted, or that both its sides said yes to.
TransferNeedsBothYes ==
    \A r \in Receivers : (result[r] # "none" \/ (cur = r /\ pc[Sender] = "transfer")) =>
        sAns[r] = "trusted" \/ (sAns[r] = "yes" /\ rAns[r] = "yes")

\* Nobody is trusted whom the user at either end was not asked about: a device
\* enters the trust store only after some sender and some receiver typed yes.
TrustNeedsYes ==
    Parses(trust) /\ ~(trust.body \subseteq InitialTrust) =>
        /\ \E r \in Receivers : sAns[r] = "yes"
        /\ \E r \in Receivers : rAns[r] = "yes"

\* The sender has reported on the claim, and does not come back to it.
Served(r) ==
    /\ sAns[r] # "none"
    /\ cur = r => pc[Sender] \in {"load_history", "truncate_history", "write_history"}

Reports(r) ==
    /\ Parses(state) /\ state.body.claim = r
    /\ state.body.status = IF result[r] = "ok" THEN "completed" ELSE "failed"

\* A receiver that is slow to poll misses nothing: the report on a claim is in state.json
\* until the sender has answered another one, or the sessions are cleaned; no kill, and no
\* claim, yes or refusal of another receiver, takes it away.
ReportAwaits ==
    \A r \in Receivers : Served(r) /\ budget["clean"] >= Budget["clean"] =>
        \/ Reports(r)
        \/ \E d \in Receivers \ {r} : sAns[d] # "none" /\ (cur = d \/ Reports(d))

\* A receiver whose claim the sender has taken up gets to an end: trusted peers
\* skip the confirmation, and the report that ends the wait is written for it.
TakenClaimIsAnswered ==
    \A r \in Receivers : (cur = r) ~> (pc[r] \in Ended)

\* A receiver that is started while the sender polls gets to an end: its claim is
\* neither cleared nor overlooked, though the sender may find it half-written.
PolledReceiverIsServed ==
    \A r \in Receivers : (pc[Sender] = "poll" /\ pc[r] = "start") ~> (pc[r] \in Ended)

Belief(r) ==
    IF pc[r] \in {"killed", "aborted", "refused"} THEN "gone"
    ELSE IF pc[r] = "failed" THEN "failure"
    ELSE IF Told(r) /\ rAns[r] # "no" THEN "success"
    ELSE "nothing"

Believed == [r \in Receivers |-> Belief(r)]

Agreement == INSTANCE Handshake WITH
    Claim <- Receivers, Heard <- [r \in Receivers |-> {r}],
    sender <- sAns, receiver <- rAns, outcome <- result, told <- Believed

\* The session of one receiver implements Handshake: no kill, no removed file and
\* no left-over of an earlier step makes either side answer twice, a claim be served
\* twice, or a receiver be told before its transfer or against what came of it.
KeepsHandshake == Agreement!Spec

SharedAgreement == INSTANCE Handshake WITH
    Claim <- Receivers, Heard <- [r \in Receivers |-> Receivers],
    sender <- sAns, receiver <- rAns, outcome <- result, told <- Believed

\* With several receivers the yes the sender hears may be another's, as there is one
\* receiver_yes per code; all else that Handshake says of each claim they keep, however
\* their claims, answers and reports get in between each other.
KeepsSharedHandshake == SharedAgreement!Spec

-----------------------------------------------------------------------------
(* What the README says, and the code does not keep.                       *)

\* README: `sendrs send' keeps sharing, and only stops when it is terminated.  Once it
\* has polled it returns to polling for ever; it does not stop on a trust store or
\* history that another process is writing, nor wait on a receiver that refused.
SenderKeepsSharing == <>(pc[Sender] = "poll") => []<>(pc[Sender] = "poll")

\* README: history keeps completed receive records.  A receiver that was done has
\* its record in every history that can be read from then on, though the sender
\* appends its own record at about the same time.
CompletedReceiveIsKept ==
    \A r \in Receivers : pc[r] = "done" /\ Parses(history) =>
        \E rec \in history.body : rec.role = "receive" /\ rec.claim = r

\* README: both sides type yes, and the transfer is recorded.  A receiver whose
\* transfer has returned Ok gets to an end, whatever the order of the two yes.
DeliveredReceiverEnds ==
    \A r \in Receivers : (result[r] = "ok") ~> (pc[r] \in Ended)
=============================================================================
