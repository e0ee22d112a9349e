--------------------------- MODULE SessionProofs ---------------------------
(***************************************************************************)
(* Theorems about Session for any number of receivers, reports, kills and  *)
(* removals.                                                               *)
(***************************************************************************)
EXTENDS Session, TLAPS

-----------------------------------------------------------------------------
(* Where the sender is.                                                    *)

Early == {"prepare", "save_first", "offer", "first_state", "announce",
          "clear_claim", "clear_sender_yes", "clear_receiver_yes", "poll"}

Asking    == {"take", "check", "prompt"}
Agreeing  == {"yes", "await", "load_trust", "truncate_trust", "write_trust"}
Working   == {"transfer", "progress"}
Reporting == {"save", "report", "reporting"}
Closing   == {"load_history", "truncate_history", "write_history"}
Serving   == Asking \cup Agreeing \cup Working \cup Reporting \cup Closing

-----------------------------------------------------------------------------
(* Files.                                                                  *)

\* A shared file holds what its writers write, or nothing that parses.
LEMMA FileType ==
    ASSUME NEW B, NEW W, NEW f \in SharedFiles(B, W), NEW p \in W, NEW v \in B
    PROVE  /\ Truncated(f, p) \in SharedFiles(B, W)
           /\ Written(f, p, v) \subseteq SharedFiles(B, W)
  BY DEF SharedFiles, Truncated, Written

LEMMA AbsentType ==
    ASSUME NEW B, NEW W
    PROVE  Absent \in SharedFiles(B, W) /\ \A v \in B : Holding(v) \in SharedFiles(B, W)
  BY DEF SharedFiles, Absent, Holding

LEMMA BodyType ==
    ASSUME NEW B, NEW W, NEW f \in SharedFiles(B, W), Parses(f)
    PROVE  f.body \in B
  BY DEF SharedFiles, Parses

\* What is read after a truncation, a removal or a write.
LEMMA Contents ==
    ASSUME NEW f, NEW p, NEW v
    PROVE  /\ ~Parses(Absent) /\ ~Parses(Truncated(f, p))
           /\ \A g \in Written(f, p, v) : Parses(g) => g = f \/ g.body = v
  BY DEF Absent, Truncated, Written, Parses

-----------------------------------------------------------------------------
(* Type correctness.                                                       *)

\* The sender serves a claim, or none.
CurInv ==
    /\ pc[Sender] \in Serving => cur \in Receivers
    /\ pc[Sender] \in Early => cur = Nobody

TypeInv == TypeOK /\ CurInv

\* A process goes from one place of its own to another.
At(p) == IF p = Sender THEN SenderAt ELSE ReceiverAt

PlacesOK ==
    /\ DOMAIN pc = Procs
    /\ pc[Sender] \in SenderAt /\ \A r \in Receivers : pc[r] \in ReceiverAt

LEMMA Moved ==
    ASSUME TypeOK, NEW p \in Procs, NEW to \in At(p), pc' = [pc EXCEPT ![p] = to]
    PROVE  /\ PlacesOK' /\ pc'[p] = to
           /\ \A q \in Procs \ {p} : pc'[q] = pc[q]
           /\ p # Sender => pc'[Sender] = pc[Sender]
<1>1. Sender \in Procs /\ Receivers \subseteq Procs \ {Sender}
  BY SessionAssumption DEF SessionAssumption, Procs
<1>2. /\ DOMAIN pc' = Procs /\ pc'[p] = to
      /\ \A q \in Procs \ {p} : pc'[q] = pc[q]
  BY DEF TypeOK
<1>3. pc[Sender] \in SenderAt /\ \A r \in Receivers : pc[r] \in ReceiverAt
  BY DEF TypeOK
<1> QED
  BY <1>1, <1>2, <1>3 DEF PlacesOK, At

\* Places both kinds of processes have.
LEMMA CommonPlaces ==
    ASSUME NEW p \in Procs
    PROVE  /\ CommonAt \cup {"aborted", "killed"} \subseteq At(p)
           /\ Confirmed(p) \in At(p) /\ AfterRefusal(p) \in At(p)
  BY DEF CommonAt, At, SenderAt, ReceiverAt, Ended, Confirmed, AfterRefusal

LEMMA Names ==
    /\ Sender \in Procs /\ Receivers \subseteq Procs /\ Sender \notin Receivers
    /\ \A p \in Procs : p # Sender => p \in Receivers
    /\ Nobody \notin Procs /\ Nobody \notin Receivers
  BY SessionAssumption DEF SessionAssumption, Procs

LEMMA PeerType ==
    ASSUME TypeInv, NEW p \in Procs, p = Sender => cur \in Receivers
    PROVE  Peer(p) \in Devices /\ Claimed(p) \in Receivers
  BY Names DEF Peer, Claimed, Devices

LEMMA AnswerType ==
    ASSUME TypeOK, NEW p \in Procs, p = Sender => cur \in Receivers, NEW a \in Answers,
           Answer(p, a)
    PROVE  sAns' \in [Receivers -> Answers] /\ rAns' \in [Receivers -> Answers]
  BY Names DEF TypeOK, Answer

\* Within the service of a claim.
LEMMA CurKept ==
    ASSUME TypeInv, NEW p \in Procs, cur' = cur,
           p = Sender => pc[Sender] \in Serving /\ pc'[Sender] \notin Early,
           p # Sender => pc'[Sender] = pc[Sender]
    PROVE  CurInv'
  BY DEF TypeInv, CurInv, Serving, Asking, Agreeing, Working, Reporting, Closing, Early

LEMMA TypeConfirm ==
    ASSUME TypeInv, NEW p \in Procs, Confirm(p)
    PROVE  TypeInv'
<1>0. TypeOK /\ CurInv
  BY DEF TypeInv
<1>1. pc[p] \in {"check", "prompt", "yes", "await", "load_trust", "truncate_trust",
                 "write_trust"}
  BY DEF Confirm, CheckTrust, Approve, Refuse, SayYes, SeeYes, LoadTrust, TruncateTrust,
         WriteTrust, Goto
<1>2. p = Sender => pc[Sender] \in Serving /\ cur \in Receivers
  BY <1>0, <1>1 DEF CurInv, Serving, Asking, Agreeing
<1>3. PICK to \in CommonAt \cup {"aborted", Confirmed(p), AfterRefusal(p)} :
          pc' = [pc EXCEPT ![p] = to]
  BY DEF Confirm, CheckTrust, Approve, Refuse, SayYes, SeeYes, LoadTrust, TruncateTrust,
         WriteTrust, Goto, Abort, CommonAt
<1>4. /\ PlacesOK' /\ pc'[p] = to
      /\ p # Sender => pc'[Sender] = pc[Sender]
  BY <1>0, <1>3, Moved, CommonPlaces
<1>5. p = Sender => pc'[Sender] \notin Early
  BY <1>4 DEF CommonAt, Early, Confirmed, AfterRefusal
<1>6. cur' = cur
  BY DEF Confirm, CheckTrust, Approve, Refuse, SayYes, SeeYes, LoadTrust, TruncateTrust,
         WriteTrust
<1>7. CurInv'
  BY <1>2, <1>4, <1>5, <1>6, CurKept
<1>8. sAns' \in [Receivers -> Answers] /\ rAns' \in [Receivers -> Answers]
  <2>1. CASE UNCHANGED answers
    BY <1>0, <2>1 DEF answers, TypeOK
  <2>2. CASE \E a \in Answers : Answer(p, a)
    BY <1>0, <1>2, <2>2, AnswerType
  <2> QED
    BY <2>1, <2>2 DEF Confirm, CheckTrust, Approve, Refuse, SayYes, SeeYes, LoadTrust,
       TruncateTrust, WriteTrust, Answers
<1>9. Peer(p) \in Devices /\ store[p] \subseteq Devices
  BY <1>0, <1>2, PeerType DEF TypeInv, TypeOK
<1>10. store' \in [Procs -> SUBSET Devices]
  <2>1. CASE LoadTrust(p) /\ Exists(trust) /\ Parses(trust)
    <3>1. trust.body \in SUBSET Devices
      BY <1>0, <2>1, BodyType DEF TypeOK
    <3> QED
      BY <1>0, <1>9, <2>1, <3>1 DEF LoadTrust, TypeOK
  <2>2. CASE LoadTrust(p) /\ ~(Exists(trust) /\ Parses(trust))
    BY <1>0, <1>9, <2>2 DEF LoadTrust, TypeOK
  <2>3. CASE WriteTrust(p)
    BY <1>0, <2>3 DEF WriteTrust, TypeOK
  <2>4. CASE store' = store
    BY <1>0, <2>4 DEF TypeOK
  <2> QED
    BY <2>1, <2>2, <2>3, <2>4 DEF Confirm, CheckTrust, Approve, Refuse, SayYes, SeeYes,
       TruncateTrust, loaded
<1>11. trust' \in SharedFiles(SUBSET Devices, Procs)
  <2>1. CASE TruncateTrust(p) \/ WriteTrust(p)
    <3>1. /\ trust \in SharedFiles(SUBSET Devices, Procs) /\ store[p] \in SUBSET Devices
      BY <1>0, <1>9 DEF TypeOK
    <3>2. /\ Truncated(trust, p) \in SharedFiles(SUBSET Devices, Procs)
          /\ Written(trust, p, store[p]) \subseteq SharedFiles(SUBSET Devices, Procs)
      BY <3>1, FileType
    <3> QED
      BY <2>1, <3>2 DEF TruncateTrust, WriteTrust
  <2>2. CASE trust' = trust
    BY <1>0, <2>2 DEF TypeOK
  <2> QED
    BY <2>1, <2>2 DEF Confirm, CheckTrust, Approve, Refuse, SayYes, SeeYes, LoadTrust
<1>12. yes' \in [Roles -> BOOLEAN]
  BY <1>0 DEF Confirm, CheckTrust, Approve, Refuse, SayYes, SeeYes, LoadTrust, TruncateTrust,
         WriteTrust, session, TypeOK
<1>13. UNCHANGED <<result, reports, entries, claim, state, sessionDir, history, places>>
  BY DEF Confirm, CheckTrust, Approve, Refuse, SayYes, SeeYes, LoadTrust, TruncateTrust,
         WriteTrust, session, loaded
<1> QED
  BY <1>0, <1>4, <1>6, <1>7, <1>8, <1>10, <1>11, <1>12, <1>13
     DEF TypeInv, TypeOK, PlacesOK, places

LEMMA RecordType ==
    ASSUME TypeInv, NEW p \in Procs, p = Sender => cur \in Receivers
    PROVE  Record(p) \in Records
<1>1. Claimed(p) \in Receivers
  BY PeerType
<1> QED
  BY <1>1 DEF Record, Records, SendStatus

LEMMA TypeHistory ==
    ASSUME TypeInv, NEW p \in Procs, AppendHistory(p)
    PROVE  TypeInv'
<1>0. TypeOK /\ CurInv
  BY DEF TypeInv
<1>1. pc[p] \in Closing
  BY DEF AppendHistory, LoadHistory, TruncateHistory, WriteHistory, Goto, Closing
<1>2. p = Sender => pc[Sender] \in Serving /\ cur \in Receivers
  BY <1>0, <1>1 DEF CurInv, Serving
<1>3. entries[p] \in SUBSET Records /\ history \in SharedFiles(SUBSET Records, Procs)
  BY <1>0 DEF TypeOK
<1>4. Record(p) \in Records
  BY <1>2, RecordType
<1>5. PICK to \in At(p) : pc' = [pc EXCEPT ![p] = to]
  BY DEF AppendHistory, LoadHistory, TruncateHistory, WriteHistory, Goto, Abort,
         At, SenderAt, ReceiverAt, CommonAt, Ended
<1>6. /\ PlacesOK' /\ pc'[p] = to
      /\ p # Sender => pc'[Sender] = pc[Sender]
  BY <1>0, <1>5, Moved
<1>7. CurInv' /\ cur' \in Claims
  <2>1. CASE p = Sender /\ WriteHistory(p)
    BY <1>6, <2>1, Names DEF WriteHistory, Goto, CurInv, Claims, Early, Serving, Asking,
       Agreeing, Working, Reporting, Closing, PlacesOK
  <2>2. CASE p = Sender /\ (LoadHistory(p) \/ TruncateHistory(p))
    <3>1. pc'[Sender] \notin Early /\ cur' = cur
      BY <1>0, <2>2, Names DEF LoadHistory, TruncateHistory, Goto, Abort, TypeOK, Early
    <3> QED
      BY <1>0, <1>2, <2>2, <3>1, CurKept DEF TypeOK
  <2>3. CASE p # Sender
    <3>1. cur' = cur
      BY <2>3 DEF AppendHistory, LoadHistory, TruncateHistory, WriteHistory
    <3> QED
      BY <1>0, <1>6, <2>3, <3>1, CurKept DEF TypeOK
  <2> QED
    BY <2>1, <2>2, <2>3 DEF AppendHistory
<1>8. entries' \in [Procs -> SUBSET Records]
  <2>1. CASE LoadHistory(p) /\ Exists(history) /\ Parses(history)
    <3>1. history.body \in SUBSET Records
      BY <1>3, <2>1, BodyType
    <3> QED
      BY <1>0, <1>4, <2>1, <3>1 DEF LoadHistory, TypeOK
  <2>2. CASE LoadHistory(p) /\ ~(Exists(history) /\ Parses(history))
    BY <1>0, <1>4, <2>2 DEF LoadHistory, TypeOK
  <2>3. CASE TruncateHistory(p) \/ WriteHistory(p)
    BY <1>0, <2>3 DEF TruncateHistory, WriteHistory, TypeOK, loaded
  <2> QED
    BY <2>1, <2>2, <2>3 DEF AppendHistory
<1>9. history' \in SharedFiles(SUBSET Records, Procs)
  <2>1. /\ Truncated(history, p) \in SharedFiles(SUBSET Records, Procs)
        /\ Written(history, p, entries[p]) \subseteq SharedFiles(SUBSET Records, Procs)
    BY <1>3, FileType
  <2> QED
    BY <1>3, <2>1 DEF AppendHistory, LoadHistory, TruncateHistory, WriteHistory
<1>10. UNCHANGED <<answers, result, reports, store, session, trust, places>>
  BY DEF AppendHistory, LoadHistory, TruncateHistory, WriteHistory, loaded
<1> QED
  BY <1>0, <1>6, <1>7, <1>8, <1>9, <1>10
     DEF TypeInv, TypeOK, PlacesOK, places, answers, session

LEMMA TypeReceiver ==
    ASSUME TypeInv, NEW r \in Receivers,
           ReadOffer(r) \/ TruncateClaim(r) \/ WriteClaim(r) \/ ReadState(r)
    PROVE  TypeInv'
<1>0. TypeOK /\ CurInv /\ r \in Procs /\ r # Sender
  BY Names DEF TypeInv
<1>1. PICK to \in At(r) : pc' = [pc EXCEPT ![r] = to]
  BY <1>0 DEF ReadOffer, TruncateClaim, WriteClaim, ReadState, Goto, Abort,
         At, ReceiverAt, CommonAt, Ended
<1>2. PlacesOK' /\ pc'[Sender] = pc[Sender]
  BY <1>0, <1>1, Moved
<1>3. cur' = cur
  BY DEF ReadOffer, TruncateClaim, WriteClaim, ReadState
<1>4. CurInv'
  BY <1>0, <1>2, <1>3, CurKept
<1>5. claim' \in SharedFiles(Receivers, Receivers)
  <2>1. /\ Truncated(claim, r) \in SharedFiles(Receivers, Receivers)
        /\ Written(claim, r, r) \subseteq SharedFiles(Receivers, Receivers)
    BY <1>0, FileType DEF TypeOK
  <2> QED
    BY <1>0, <2>1 DEF ReadOffer, TruncateClaim, WriteClaim, ReadState, session, TypeOK
<1>6. sessionDir' \in BOOLEAN
  BY <1>0 DEF ReadOffer, TruncateClaim, WriteClaim, ReadState, session, TypeOK
<1>7. UNCHANGED <<answers, result, reports, loaded, state, yes, trust, history, places>>
  BY DEF ReadOffer, TruncateClaim, WriteClaim, ReadState, session
<1> QED
  BY <1>0, <1>2, <1>3, <1>4, <1>5, <1>6, <1>7
     DEF TypeInv, TypeOK, PlacesOK, places, answers, loaded

LEMMA SpentType ==
    ASSUME TypeOK, NEW e \in Events, Spend(e)
    PROVE  budget' \in [Events -> Nat]
<1>1. budget \in [Events -> Nat] /\ budget[e] > 0 /\ budget' = [budget EXCEPT ![e] = @ - 1]
  BY DEF TypeOK, Spend
<1>2. budget[e] \in Nat /\ budget[e] - 1 \in Nat
  BY <1>1
<1> QED
  BY <1>1, <1>2

LEMMA TypeUser ==
    ASSUME TypeInv, UserStep
    PROVE  TypeInv'
<1>0. TypeOK /\ CurInv
  BY DEF TypeInv
<1>1. ASSUME NEW p \in Procs, Kill(p)
      PROVE  TypeInv'
  <2>1. PlacesOK' /\ pc'[p] = "killed" /\ (p # Sender => pc'[Sender] = pc[Sender])
    BY <1>0, <1>1, Moved, CommonPlaces DEF Kill
  <2>2. CurInv'
    BY <1>0, <1>1, <2>1 DEF Kill, CurInv, Early, Serving, Asking, Agreeing, Working,
       Reporting, Closing
  <2>3. budget' \in [Events -> Nat]
    BY <1>0, <1>1, SpentType DEF Kill, Events
  <2> QED
    BY <1>0, <1>1, <2>1, <2>2, <2>3 DEF Kill, TypeInv, TypeOK, PlacesOK, answers, loaded,
       session
<1>2. CASE CleanSessions
  <2>1. /\ claim' \in SharedFiles(Receivers, Receivers)
        /\ state' \in SharedFiles([claim : Claims, status : Status], {Sender})
    BY <1>2, AbsentType DEF CleanSessions
  <2>2. budget' \in [Events -> Nat]
    BY <1>0, <1>2, SpentType DEF CleanSessions, Events
  <2> QED
    BY <1>0, <1>2, <2>1, <2>2
       DEF CleanSessions, TypeInv, TypeOK, CurInv, answers, loaded
<1>3. CASE CleanOffers \/ CleanManifests \/ CleanHistory
  <2>1. history' \in SharedFiles(SUBSET Records, Procs)
    BY <1>0, <1>3, AbsentType DEF CleanOffers, CleanManifests, CleanHistory, TypeOK
  <2>2. /\ budget' \in [Events -> Nat] /\ offer' \in BOOLEAN /\ manifestDir' \in BOOLEAN
    BY <1>0, <1>3, SpentType DEF CleanOffers, CleanManifests, CleanHistory, Events, TypeOK
  <2> QED
    BY <1>0, <1>3, <2>1, <2>2 DEF CleanOffers, CleanManifests, CleanHistory, TypeInv,
       TypeOK, CurInv, answers, loaded, session
<1> QED
  BY <1>1, <1>2, <1>3 DEF UserStep

\* cmd_send, but for what it shares with cmd_receive.
OwnStep ==
    \/ Setup
    \/ ClearClaim
    \/ ClearYes("sender", "clear_sender_yes", "clear_receiver_yes")
    \/ ClearYes("receiver", "clear_receiver_yes", "poll")
    \/ PollClaim \/ TakeClaim
    \/ Progress \/ ProgressWritten \/ TransferOk \/ TransferErr \/ SaveManifest
    \/ Report \/ Reported

LEMMA TypeAnnounce ==
    ASSUME TypeInv, Announce
    PROVE  TypeInv'
<1>0. TypeOK /\ CurInv /\ Sender \in Procs /\ Receivers \subseteq Procs
  BY Names DEF TypeInv
<1>1. /\ pc' = [p \in Procs |-> IF p = Sender THEN "clear_claim" ELSE "start"]
      /\ cur' = cur /\ pc[Sender] = "announce"
  BY DEF Announce
<1>2. PlacesOK' /\ pc'[Sender] = "clear_claim"
  BY <1>0, <1>1, Names DEF PlacesOK, SenderAt, ReceiverAt
<1>3. CurInv'
  BY <1>0, <1>1, <1>2 DEF CurInv, Early, Serving, Asking, Agreeing, Working, Reporting,
     Closing
<1>4. state' \in SharedFiles([claim : Claims, status : Status], {Sender})
  <2>1. UnclaimedState("waiting_receiver") \in [claim : Claims, status : Status]
    BY DEF UnclaimedState, Claims, Status
  <2> QED
    BY <1>0, <2>1, FileType DEF Announce, TypeOK
<1> QED
  BY <1>0, <1>2, <1>3, <1>4
     DEF Announce, TypeInv, TypeOK, PlacesOK, answers, loaded, places

LEMMA TypeSender ==
    ASSUME TypeInv, OwnStep, ~Announce
    PROVE  TypeInv'
<1>0. TypeOK /\ CurInv /\ Sender \in Procs
  BY Names DEF TypeInv
<1>1. PICK to \in SenderAt : pc' = [pc EXCEPT ![Sender] = to]
  BY DEF OwnStep, Setup, Prepare, RefusePath, SaveFirst, WriteOffer, TruncateFirst,
         ClearClaim, ClearYes, PollClaim, TakeClaim, Progress, ProgressWritten, TransferOk,
         TransferErr, SaveManifest, Report, Reported, Goto, Abort, SenderAt, CommonAt
<1>2. PlacesOK' /\ pc'[Sender] = to
  BY <1>0, <1>1, Moved DEF At
<1>3. CurInv' /\ cur' \in Claims
  <2>1. CASE PollClaim
    <3>1. cur' \in Receivers /\ pc'[Sender] = "take"
      BY <1>0, <2>1, BodyType DEF PollClaim, Goto, TypeOK
    <3> QED
      BY <3>1 DEF CurInv, Early, Serving, Asking, Claims
  <2>2. CASE pc'[Sender] \in Early \cup {"aborted"} /\ pc[Sender] \in Early /\ cur' = cur
    BY <1>0, <2>2 DEF CurInv, Early, Serving, Asking, Agreeing, Working, Reporting,
       Closing, TypeOK
  <2>3. CASE pc'[Sender] \notin Early /\ pc[Sender] \in Serving /\ cur' = cur
    BY <1>0, <2>3, CurKept DEF TypeOK
  <2> QED
    BY <1>0, <1>1, <2>1, <2>2, <2>3
       DEF OwnStep, Setup, Prepare, RefusePath, SaveFirst, WriteOffer, TruncateFirst,
           ClearClaim, ClearYes, TakeClaim, Progress, ProgressWritten, TransferOk,
           TransferErr, SaveManifest, Report, Reported, Goto, Abort, TypeOK,
           Early, Serving, Asking, Working, Reporting, Closing
<1>4. claim' \in SharedFiles(Receivers, Receivers)
  BY <1>0, AbsentType
     DEF OwnStep, Setup, Prepare, RefusePath, SaveFirst, WriteOffer, TruncateFirst,
         ClearClaim, ClearYes, PollClaim, TakeClaim, Progress, ProgressWritten, TransferOk,
         TransferErr, SaveManifest, Report, Reported, session, TypeOK
<1>5. state' \in SharedFiles([claim : Claims, status : Status], {Sender})
  <2> DEFINE States == [claim : Claims, status : Status]
  <2>1. /\ SessionState("transferring") \in States /\ SessionState(SendStatus) \in States
    BY <1>0 DEF SessionState, SendStatus, Status, TypeOK
  <2>2. state \in SharedFiles(States, {Sender})
    BY <1>0 DEF TypeOK
  <2> HIDE DEF States
  <2>3. /\ Truncated(state, Sender) \in SharedFiles(States, {Sender})
        /\ Written(state, Sender, SessionState("transferring"))
             \subseteq SharedFiles(States, {Sender})
        /\ Written(state, Sender, SessionState(SendStatus))
             \subseteq SharedFiles(States, {Sender})
    BY <2>1, <2>2, FileType
  <2>4. state' \in SharedFiles(States, {Sender})
    BY <2>2, <2>3
       DEF OwnStep, Setup, Prepare, RefusePath, SaveFirst, WriteOffer, TruncateFirst,
           ClearClaim, ClearYes, PollClaim, TakeClaim, Progress, ProgressWritten,
           TransferOk, TransferErr, SaveManifest, Report, Reported, session
  <2> QED
    BY <2>4 DEF States
<1>6. yes' \in [Roles -> BOOLEAN] /\ result' \in [Receivers -> {"none", "ok", "failed"}]
  BY <1>0
     DEF OwnStep, Setup, Prepare, RefusePath, SaveFirst, WriteOffer, TruncateFirst,
         ClearClaim, ClearYes, PollClaim, TakeClaim, Progress, ProgressWritten, TransferOk,
         TransferErr, SaveManifest, Report, Reported, session, TypeOK
<1>7. /\ sessionDir' \in BOOLEAN /\ manifestDir' \in BOOLEAN /\ offer' \in BOOLEAN
      /\ budget' = budget
  BY <1>0
     DEF OwnStep, Setup, Prepare, RefusePath, SaveFirst, WriteOffer, TruncateFirst,
         ClearClaim, ClearYes, PollClaim, TakeClaim, Progress, ProgressWritten, TransferOk,
         TransferErr, SaveManifest, Report, Reported, session, places, TypeOK
<1>8. reports' \in 0..MaxReports
  <2>1. MaxReports \in Nat \ {0} /\ reports \in 0..MaxReports
    BY <1>0, SessionAssumption DEF SessionAssumption, TypeOK
  <2>2. reports' \in {reports, 0} \/ (reports < MaxReports /\ reports' = reports + 1)
    BY DEF OwnStep, Setup, Prepare, RefusePath, SaveFirst, WriteOffer, TruncateFirst,
       ClearClaim, ClearYes, PollClaim, TakeClaim, Progress, ProgressWritten, TransferOk,
       TransferErr, SaveManifest, Report, Reported
  <2> QED
    BY <2>1, <2>2
<1>9. UNCHANGED <<answers, loaded, trust, history>>
  BY DEF OwnStep, Setup, Prepare, RefusePath, SaveFirst, WriteOffer, TruncateFirst,
         ClearClaim, ClearYes, PollClaim, TakeClaim, Progress, ProgressWritten, TransferOk,
         TransferErr, SaveManifest, Report, Reported
<1> QED
  BY <1>0, <1>2, <1>3, <1>4, <1>5, <1>6, <1>7, <1>8, <1>9
     DEF TypeInv, TypeOK, PlacesOK, answers, loaded

LEMMA Steps ==
    ASSUME Next
    PROVE  \/ \E p \in Procs : Confirm(p) \/ AppendHistory(p)
           \/ \E r \in Receivers :
                 ReadOffer(r) \/ TruncateClaim(r) \/ WriteClaim(r) \/ ReadState(r)
           \/ OwnStep \/ UserStep
  BY Names DEF Next, SenderStep, ReceiverStep, OwnStep

LEMMA TypeInit ==
    ASSUME Init
    PROVE  TypeInv
<1>1. Sender \in Procs /\ Receivers \subseteq Procs /\ InitialTrust \in SUBSET Devices
  BY Names DEF Devices
<1>2. trust \in SharedFiles(SUBSET Devices, Procs)
  BY <1>1, AbsentType DEF Init
<1>3. /\ claim \in SharedFiles(Receivers, Receivers)
      /\ state \in SharedFiles([claim : Claims, status : Status], {Sender})
      /\ history \in SharedFiles(SUBSET Records, Procs)
  BY AbsentType DEF Init
<1>4. MaxReports \in Nat \ {0} /\ Budget \in [Events -> Nat]
  BY SessionAssumption DEF SessionAssumption
<1>5. DOMAIN pc = Procs /\ pc[Sender] = "prepare" /\ \A r \in Receivers : pc[r] = "no_code"
  BY <1>1, Names DEF Init
<1>6. CurInv
  BY <1>5 DEF Init, CurInv, Early, Serving, Asking, Agreeing, Working, Reporting, Closing
<1>7. pc[Sender] \in SenderAt /\ \A r \in Receivers : pc[r] \in ReceiverAt
  BY <1>5 DEF SenderAt, ReceiverAt
<1>8. /\ sAns \in [Receivers -> Answers] /\ rAns \in [Receivers -> Answers]
      /\ result \in [Receivers -> {"none", "ok", "failed"}]
      /\ store \in [Procs -> SUBSET Devices] /\ entries \in [Procs -> SUBSET Records]
      /\ yes \in [Roles -> BOOLEAN]
      /\ offer \in BOOLEAN /\ sessionDir \in BOOLEAN /\ manifestDir \in BOOLEAN
  BY DEF Init, Answers
<1>9. cur \in Claims /\ reports \in 0..MaxReports /\ budget \in [Events -> Nat]
  BY <1>4 DEF Init, Claims
<1> QED
  BY <1>2, <1>3, <1>5, <1>6, <1>7, <1>8, <1>9 DEF TypeInv, TypeOK

LEMMA TypeStep ==
    ASSUME TypeInv, [Next]_vars
    PROVE  TypeInv'
<1>1. CASE UNCHANGED vars
  BY <1>1 DEF vars, answers, loaded, session, places, TypeInv, TypeOK, CurInv
<1>2. CASE Next
  BY <1>2, Steps, TypeConfirm, TypeHistory, TypeReceiver, TypeAnnounce, TypeSender, TypeUser
<1> QED
  BY <1>1, <1>2

\* The files of a session hold what their writers write to them, and each process
\* is where it can be, for any number of receivers, kills and removals.
THEOREM TypeCorrect == Spec => []TypeOK
<1>1. Init => TypeInv
  BY TypeInit
<1>2. TypeInv /\ [Next]_vars => TypeInv'
  BY TypeStep
<1>3. TypeInv => TypeOK
  BY DEF TypeInv
<1> QED
  BY <1>1, <1>2, <1>3, PTL DEF Spec

-----------------------------------------------------------------------------
(* Who has answered what, and when.                                        *)

SetupAt   == {"prepare", "save_first", "offer", "first_state", "announce"}
Unclaimed == {"no_code", "start", "claim", "claiming"}

\* Before the code is out there is nobody who has it.
SetupInv == pc[Sender] \in SetupAt => \A r \in Receivers : pc[r] = "no_code"

\* The sender answers a claim once, in its place, and transfers it once.
SenderInv ==
    /\ pc[Sender] \in Asking => sAns[cur] = "none"
    /\ pc[Sender] \in Asking \cup Agreeing \cup Working => result[cur] = "none"
    /\ pc[Sender] \in Agreeing => sAns[cur] = "yes"
    /\ pc[Sender] \in Working \cup {"save"} => sAns[cur] \in {"trusted", "yes"}
    /\ pc[Sender] \in Reporting \cup Closing =>
          sAns[cur] # "none" /\ (result[cur] # "none" \/ sAns[cur] = "no")
    /\ pc[Sender] = "save" => result[cur] = "ok"

ReceiverInv ==
    \A r \in Receivers :
        /\ pc[r] \in Unclaimed \cup {"check", "prompt"} => rAns[r] = "none"
        /\ pc[r] \in Agreeing => rAns[r] = "yes"
        /\ pc[r] = "wait" => rAns[r] \in {"trusted", "yes"}
        /\ Told(r) => rAns[r] # "none"

\* A claim in the file is new, and a receiver that has not claimed is not known.
Fresh(r) == sAns[r] = "none" /\ result[r] = "none"

ClaimInv ==
    /\ \A r \in Receivers : pc[r] \in Unclaimed =>
          Fresh(r) /\ cur # r /\ ~(Parses(claim) /\ claim.body = r)
    /\ Parses(claim) =>
          Fresh(claim.body) /\ (cur = claim.body => pc[Sender] \in {"take", "killed"})
    /\ \A r \in Receivers : sAns[r] = "none" => result[r] = "none"

ControlInv == SetupInv /\ SenderInv /\ ReceiverInv /\ ClaimInv

\* What a step of one side leaves to the other.
LEMMA ReceiverMoves ==
    ASSUME TypeOK, SetupInv, SenderInv, NEW r \in Receivers, NEW to \in At(r),
           pc' = [pc EXCEPT ![r] = to], pc[r] # "no_code", to # "no_code",
           UNCHANGED <<cur, sAns, result>>
    PROVE  SetupInv' /\ SenderInv'
<1>1. r \in Procs /\ r # Sender /\ Receivers \subseteq Procs
  BY Names
<1>2. pc'[Sender] = pc[Sender] /\ pc'[r] = to /\ \A q \in Procs \ {r} : pc'[q] = pc[q]
  BY <1>1, Moved
<1>3. pc[Sender] \notin SetupAt
  BY DEF SetupInv
<1> QED
  BY <1>2, <1>3 DEF SetupInv, SenderInv

LEMMA SenderMoves ==
    ASSUME TypeOK, SetupInv, ReceiverInv, NEW to \in SenderAt,
           pc' = [pc EXCEPT ![Sender] = to], to \in SetupAt => pc[Sender] \in SetupAt,
           rAns' = rAns
    PROVE  SetupInv' /\ ReceiverInv'
<1>1. Sender \in Procs /\ Receivers \subseteq Procs \ {Sender}
  BY Names
<1>2. pc'[Sender] = to /\ \A r \in Receivers : pc'[r] = pc[r]
  BY <1>1, Moved DEF At
<1> QED
  BY <1>2 DEF SetupInv, ReceiverInv, Told

\* A confirmation by a receiver.
LEMMA ControlReceiverConfirms ==
    ASSUME TypeInv, ControlInv, NEW r \in Receivers, Confirm(r)
    PROVE  ControlInv'
<1>0. TypeOK /\ r \in Procs /\ r # Sender /\ Receivers \subseteq Procs
  BY Names DEF TypeInv
<1>1. PICK to \in CommonAt \cup {"aborted", "wait"} : pc' = [pc EXCEPT ![r] = to]
  BY <1>0 DEF Confirm, CheckTrust, Approve, Refuse, SayYes, SeeYes, LoadTrust,
     TruncateTrust, WriteTrust, Goto, Abort, CommonAt, Confirmed, AfterRefusal
<1>2. /\ UNCHANGED <<cur, sAns, result, claim>>
      /\ pc[r] \in {"check", "prompt"} \cup Agreeing
  BY <1>0 DEF Confirm, CheckTrust, Approve, Refuse, SayYes, SeeYes, LoadTrust,
     TruncateTrust, WriteTrust, Goto, Answer, answers, session, Agreeing
<1>3. to \in At(r) /\ to \notin Unclaimed /\ pc[r] \notin Unclaimed /\ to # "no_code"
  BY <1>0, <1>2 DEF At, CommonAt, ReceiverAt, Ended, Unclaimed, Agreeing
<1>4. /\ pc'[r] = to /\ pc'[Sender] = pc[Sender]
      /\ \A q \in Procs \ {r} : pc'[q] = pc[q]
  BY <1>0, <1>1, <1>3, Moved
<1>5. SetupInv' /\ SenderInv'
  BY <1>0, <1>1, <1>2, <1>3, ReceiverMoves DEF ControlInv, Unclaimed
<1>6. ClaimInv'
  BY <1>0, <1>2, <1>3, <1>4 DEF ControlInv, ClaimInv, Fresh
<1>7. ASSUME NEW q \in Receivers \ {r}
      PROVE  rAns'[q] = rAns[q] /\ pc'[q] = pc[q]
  BY <1>0, <1>4 DEF Confirm, CheckTrust, Approve, Refuse, SayYes, SeeYes, LoadTrust,
     TruncateTrust, WriteTrust, Answer, answers, TypeOK
<1>8. /\ pc'[r] \in Unclaimed \cup {"check", "prompt"} => rAns'[r] = "none"
      /\ pc'[r] \in Agreeing => rAns'[r] = "yes"
      /\ pc'[r] = "wait" => rAns'[r] \in {"trusted", "yes"}
      /\ Told(r)' => rAns'[r] # "none"
  <2>1. /\ pc[r] \in {"check", "prompt"} => rAns[r] = "none"
        /\ pc[r] \in Agreeing => rAns[r] = "yes"
    BY DEF ControlInv, ReceiverInv
  <2>2. CASE CheckTrust(r)
    BY <1>0, <2>1, <2>2
       DEF CheckTrust, Abort, Answer, answers, Confirmed, Told, Unclaimed, Agreeing, TypeOK
  <2>3. CASE Approve(r)
    BY <1>0, <2>1, <2>3 DEF Approve, Goto, Answer, Told, Unclaimed, Agreeing, TypeOK
  <2>4. CASE Refuse(r)
    BY <1>0, <2>1, <2>4
       DEF Refuse, Goto, Answer, AfterRefusal, Told, Unclaimed, Agreeing, TypeOK
  <2>5. CASE SayYes(r) \/ SeeYes(r) \/ LoadTrust(r) \/ TruncateTrust(r) \/ WriteTrust(r)
    BY <1>0, <1>4, <2>1, <2>5
       DEF SayYes, SeeYes, LoadTrust, TruncateTrust, WriteTrust, Goto, Abort, answers,
           Confirmed, Told, Unclaimed, Agreeing, TypeOK
  <2> QED
    BY <2>2, <2>3, <2>4, <2>5 DEF Confirm
<1>9. ReceiverInv'
  BY <1>7, <1>8 DEF ControlInv, ReceiverInv, Told
<1> QED
  BY <1>5, <1>6, <1>9 DEF ControlInv

\* A receiver's other steps.
LEMMA ControlReceives ==
    ASSUME TypeInv, ControlInv, NEW r \in Receivers,
           \/ ReadOffer(r) \/ TruncateClaim(r) \/ WriteClaim(r) \/ ReadState(r)
           \/ AppendHistory(r)
    PROVE  ControlInv'
<1>0. TypeOK /\ r \in Procs /\ r # Sender /\ Receivers \subseteq Procs
  BY Names DEF TypeInv
<1>1. PICK to \in At(r) \ {"no_code"} : pc' = [pc EXCEPT ![r] = to]
  BY <1>0 DEF ReadOffer, TruncateClaim, WriteClaim, ReadState, AppendHistory, LoadHistory,
     TruncateHistory, WriteHistory, Goto, Abort, At, ReceiverAt, CommonAt, Ended
<1>2. /\ UNCHANGED <<cur, sAns, rAns, result>>
      /\ pc[r] # "no_code"
  BY <1>0 DEF ReadOffer, TruncateClaim, WriteClaim, ReadState, AppendHistory, LoadHistory,
     TruncateHistory, WriteHistory, Goto, answers
<1>3. /\ pc'[r] = to /\ pc'[Sender] = pc[Sender]
      /\ \A q \in Procs \ {r} : pc'[q] = pc[q]
  BY <1>0, <1>1, Moved
<1>4. SetupInv' /\ SenderInv'
  BY <1>0, <1>1, <1>2, ReceiverMoves DEF ControlInv
<1>5. /\ pc'[r] \in Unclaimed => pc[r] \in Unclaimed
      /\ pc'[r] \in {"check", "prompt"} => pc[r] \in Unclaimed
      /\ pc'[r] \notin Agreeing \cup {"wait"}
      /\ Told(r)' => Told(r) \/ pc[r] = "wait"
  BY <1>0, <1>3 DEF ReadOffer, TruncateClaim, WriteClaim, ReadState, AppendHistory,
     LoadHistory, TruncateHistory, WriteHistory, Goto, Abort, Unclaimed, Agreeing, Told,
     TypeOK
<1>6. ReceiverInv'
  BY <1>0, <1>2, <1>3, <1>5 DEF ControlInv, ReceiverInv, Told
<1>7. CASE claim' = claim
  BY <1>0, <1>2, <1>3, <1>4, <1>5, <1>6, <1>7 DEF ControlInv, ClaimInv, Fresh
<1>8. CASE TruncateClaim(r)
  BY <1>0, <1>2, <1>3, <1>4, <1>5, <1>6, <1>8, Contents
     DEF ControlInv, ClaimInv, Fresh, TruncateClaim
<1>9. CASE WriteClaim(r)
  <2>1. pc[r] = "claiming" /\ pc'[r] = "check" /\ claim' \in Written(claim, r, r)
    BY <1>0, <1>9 DEF WriteClaim, Goto, TypeOK
  <2>2. Fresh(r) /\ cur # r
    BY <2>1 DEF ControlInv, ClaimInv, Unclaimed
  <2>3. Parses(claim') => claim' = claim \/ claim'.body = r
    BY <2>1, Contents
  <2>4. ClaimInv'
    BY <1>0, <1>2, <1>3, <2>1, <2>2, <2>3 DEF ControlInv, ClaimInv, Fresh, Unclaimed
  <2> QED
    BY <1>4, <1>6, <2>4 DEF ControlInv
<1> QED
  BY <1>7, <1>8, <1>9 DEF ReadOffer, ReadState, AppendHistory, LoadHistory,
     TruncateHistory, WriteHistory, session

\* A confirmation by the sender.
LEMMA ControlSenderConfirms ==
    ASSUME TypeInv, ControlInv, Confirm(Sender)
    PROVE  ControlInv'
<1>0. TypeOK /\ CurInv /\ Sender \in Procs /\ Receivers \subseteq Procs \ {Sender}
  BY Names DEF TypeInv
<1>1. PICK to \in CommonAt \cup {"aborted", "transfer", "report"} :
          pc' = [pc EXCEPT ![Sender] = to]
  BY DEF Confirm, CheckTrust, Approve, Refuse, SayYes, SeeYes, LoadTrust,
     TruncateTrust, WriteTrust, Goto, Abort, CommonAt, Confirmed, AfterRefusal
<1>2. /\ UNCHANGED <<cur, rAns, result, claim>>
      /\ pc[Sender] \in {"check", "prompt"} \cup Agreeing
  BY DEF Confirm, CheckTrust, Approve, Refuse, SayYes, SeeYes, LoadTrust,
     TruncateTrust, WriteTrust, Goto, Answer, answers, session, Agreeing
<1>3. cur \in Receivers
  BY <1>0, <1>2 DEF CurInv, Serving, Asking
<1>4. to \in SenderAt /\ to \notin SetupAt
  BY DEF CommonAt, SenderAt, SetupAt
<1>5. SetupInv' /\ ReceiverInv'
  BY <1>0, <1>1, <1>2, <1>4, SenderMoves DEF ControlInv
<1>6. pc'[Sender] = to /\ \A r \in Receivers : pc'[r] = pc[r]
  BY <1>0, <1>1, <1>4, Moved DEF At
<1>7. \A r \in Receivers \ {cur} : sAns'[r] = sAns[r]
  BY <1>0 DEF Confirm, CheckTrust, Approve, Refuse, SayYes, SeeYes, LoadTrust,
     TruncateTrust, WriteTrust, Answer, answers, TypeOK
<1>8. SenderInv'
  <2>1. /\ pc[Sender] \in {"check", "prompt"} => sAns[cur] = "none"
        /\ pc[Sender] \in Agreeing => sAns[cur] = "yes"
        /\ result[cur] = "none"
    BY <1>2 DEF ControlInv, SenderInv, Asking
  <2>2. CASE CheckTrust(Sender)
    BY <1>0, <1>2, <1>3, <2>1, <2>2
       DEF CheckTrust, Abort, Answer, answers, Confirmed, TypeOK,
           SenderInv, Asking, Agreeing, Working, Reporting, Closing
  <2>3. CASE Approve(Sender)
    BY <1>0, <1>2, <1>3, <2>1, <2>3
       DEF Approve, Goto, Answer, TypeOK,
           SenderInv, Asking, Agreeing, Working, Reporting, Closing
  <2>4. CASE Refuse(Sender)
    BY <1>0, <1>2, <1>3, <2>1, <2>4
       DEF Refuse, Goto, Answer, AfterRefusal, TypeOK,
           SenderInv, Asking, Agreeing, Working, Reporting, Closing
  <2>5. CASE \/ SayYes(Sender) \/ SeeYes(Sender) \/ LoadTrust(Sender)
             \/ TruncateTrust(Sender) \/ WriteTrust(Sender)
    <3>1. /\ sAns' = sAns /\ pc[Sender] \in Agreeing
          /\ pc'[Sender] \in Agreeing \cup {"aborted", "transfer"}
      BY <1>0, <2>5 DEF SayYes, SeeYes, LoadTrust, TruncateTrust, WriteTrust, Goto, Abort,
         answers, Confirmed, Agreeing, TypeOK
    <3> QED
      BY <1>2, <2>1, <3>1
         DEF SenderInv, Asking, Agreeing, Working, Reporting, Closing
  <2> QED
    BY <2>2, <2>3, <2>4, <2>5 DEF Confirm
<1>9. cur # claim.body \/ ~Parses(claim)
  BY <1>2 DEF ControlInv, ClaimInv, Agreeing
<1>10. Parses(claim) => claim.body \in Receivers
  BY <1>0, BodyType DEF TypeOK
<1>11. result[cur] = "none"
  BY <1>2 DEF ControlInv, SenderInv, Asking
<1>12. ClaimInv'
  BY <1>2, <1>3, <1>6, <1>7, <1>9, <1>10, <1>11 DEF ControlInv, ClaimInv, Fresh
<1> QED
  BY <1>5, <1>8, <1>12 DEF ControlInv

LEMMA ControlAnnounce ==
    ASSUME TypeInv, ControlInv, Announce
    PROVE  ControlInv'
<1>0. TypeOK /\ Sender \in Procs /\ Receivers \subseteq Procs \ {Sender}
  BY Names DEF TypeInv
<1>1. /\ pc[Sender] = "announce" /\ pc'[Sender] = "clear_claim"
      /\ \A r \in Receivers : pc'[r] = "start"
      /\ UNCHANGED <<cur, sAns, rAns, result, claim>>
  BY <1>0 DEF Announce, answers
<1>2. \A r \in Receivers : pc[r] = "no_code"
  BY <1>1 DEF ControlInv, SetupInv, SetupAt
<1>3. SetupInv' /\ SenderInv'
  BY <1>1 DEF SetupInv, SetupAt, SenderInv, Asking, Agreeing, Working, Reporting, Closing
<1>4. ReceiverInv'
  BY <1>1, <1>2 DEF ControlInv, ReceiverInv, Unclaimed, Agreeing, Told
<1>5. ClaimInv'
  BY <1>1, <1>2 DEF ControlInv, ClaimInv, Fresh, Unclaimed
<1> QED
  BY <1>3, <1>4, <1>5 DEF ControlInv

LEMMA ControlSends ==
    ASSUME TypeInv, ControlInv, OwnStep \/ AppendHistory(Sender), ~Announce
    PROVE  ControlInv'
<1>0. /\ TypeOK /\ CurInv /\ Sender \in Procs /\ Receivers \subseteq Procs \ {Sender}
      /\ Nobody \notin Receivers
  BY Names DEF TypeInv
<1>1. PICK to \in SenderAt : pc' = [pc EXCEPT ![Sender] = to]
  BY DEF AppendHistory, LoadHistory, TruncateHistory, WriteHistory,
         OwnStep, Setup, Prepare, RefusePath, SaveFirst, WriteOffer, TruncateFirst,
         ClearClaim, ClearYes, PollClaim, TakeClaim, Progress, ProgressWritten, TransferOk,
         TransferErr, SaveManifest, Report, Reported, Goto, Abort, SenderAt, CommonAt
<1>2. pc'[Sender] = to /\ \A r \in Receivers : pc'[r] = pc[r]
  BY <1>0, <1>1, Moved DEF At
<1>3. /\ sAns' = sAns /\ rAns' = rAns
      /\ to \in SetupAt => pc[Sender] \in SetupAt
  BY <1>0, <1>2
     DEF AppendHistory, LoadHistory, TruncateHistory, WriteHistory,
         OwnStep, Setup, Prepare, RefusePath, SaveFirst, WriteOffer, TruncateFirst,
         ClearClaim, ClearYes, PollClaim, TakeClaim, Progress, ProgressWritten, TransferOk,
         TransferErr, SaveManifest, Report, Reported, Goto, Abort, answers, SetupAt, TypeOK
<1>4. SetupInv' /\ ReceiverInv'
  BY <1>0, <1>1, <1>3, SenderMoves DEF ControlInv
<1>5. Parses(claim) => claim.body \in Receivers
  BY <1>0, BodyType DEF TypeOK
<1>6. CASE PollClaim
  <2>1. /\ cur' = claim.body /\ pc'[Sender] = "take" /\ Parses(claim)
        /\ result' = result /\ claim' = claim
    BY <1>0, <1>6 DEF PollClaim, Goto, session, TypeOK
  <2>2. SenderInv'
    BY <1>3, <2>1 DEF ControlInv, ClaimInv, Fresh, SenderInv, Asking, Agreeing, Working,
       Reporting, Closing
  <2>3. ClaimInv'
    BY <1>2, <1>3, <1>5, <2>1 DEF ControlInv, ClaimInv, Fresh
  <2> QED
    BY <1>4, <2>2, <2>3 DEF ControlInv
<1>7. CASE TransferOk \/ TransferErr
  <2>1. /\ cur' = cur /\ pc[Sender] = "transfer" /\ claim' = claim
        /\ pc'[Sender] = IF TransferOk THEN "save" ELSE "report"
        /\ result'[cur] = IF TransferOk THEN "ok" ELSE "failed"
        /\ \A r \in Receivers \ {cur} : result'[r] = result[r]
    <3>1. cur \in Receivers
      BY <1>0, <1>7 DEF TransferOk, TransferErr, Goto, CurInv, Serving, Working
    <3> QED
      BY <1>0, <1>7, <3>1 DEF TransferOk, TransferErr, Goto, session, TypeOK
  <2>2. cur \in Receivers /\ sAns[cur] \in {"trusted", "yes"}
    BY <1>0, <2>1 DEF CurInv, Serving, Working, ControlInv, SenderInv
  <2>3. SenderInv'
    BY <1>3, <2>1, <2>2 DEF SenderInv, Asking, Agreeing, Working, Reporting, Closing
  <2>4. cur # claim.body \/ ~Parses(claim)
    BY <2>1 DEF ControlInv, ClaimInv
  <2>5. ClaimInv'
    BY <1>2, <1>3, <1>5, <2>1, <2>2, <2>4 DEF ControlInv, ClaimInv, Fresh
  <2> QED
    BY <1>4, <2>3, <2>5 DEF ControlInv
<1>8. CASE ~PollClaim /\ ~TransferOk /\ ~TransferErr
  <2>1. result' = result /\ (claim' = claim \/ claim' = Absent) /\ cur' \in {cur, Nobody}
    BY <1>8
       DEF AppendHistory, LoadHistory, TruncateHistory, WriteHistory,
           OwnStep, Setup, Prepare, RefusePath, SaveFirst, WriteOffer, TruncateFirst,
           ClearClaim, ClearYes, TakeClaim, Progress, ProgressWritten,
           SaveManifest, Report, Reported, session
  <2>2. SenderInv'
    BY <1>0, <1>3, <1>8, <2>1
       DEF AppendHistory, LoadHistory, TruncateHistory, WriteHistory,
           OwnStep, Setup, Prepare, RefusePath, SaveFirst, WriteOffer, TruncateFirst,
           ClearClaim, ClearYes, TakeClaim, Progress, ProgressWritten,
           SaveManifest, Report, Reported, Goto, Abort, TypeOK,
           ControlInv, SenderInv, Asking, Agreeing, Working, Reporting, Closing
  <2>3. Parses(claim') => claim' = claim /\ pc[Sender] # "take"
    BY <1>8, <2>1, Contents
       DEF AppendHistory, LoadHistory, TruncateHistory, WriteHistory,
           OwnStep, Setup, Prepare, RefusePath, SaveFirst, WriteOffer, TruncateFirst,
           ClearClaim, ClearYes, TakeClaim, Progress, ProgressWritten,
           SaveManifest, Report, Reported, Goto
  <2>4. pc[Sender] # "killed"
    BY <1>8
       DEF AppendHistory, LoadHistory, TruncateHistory, WriteHistory,
           OwnStep, Setup, Prepare, RefusePath, SaveFirst, WriteOffer, TruncateFirst,
           ClearClaim, ClearYes, TakeClaim, Progress, ProgressWritten,
           SaveManifest, Report, Reported, Goto
  <2>5. ClaimInv'
    BY <1>0, <1>2, <1>3, <1>5, <2>1, <2>3, <2>4 DEF ControlInv, ClaimInv, Fresh
  <2> QED
    BY <1>4, <2>2, <2>5 DEF ControlInv
<1> QED
  BY <1>6, <1>7, <1>8

LEMMA ControlUser ==
    ASSUME TypeInv, ControlInv, UserStep
    PROVE  ControlInv'
<1>0. /\ TypeOK /\ Sender \in Procs /\ Receivers \subseteq Procs \ {Sender}
      /\ UNCHANGED <<cur, sAns, rAns, result>>
  BY Names DEF TypeInv, UserStep, Kill, CleanSessions, CleanOffers, CleanManifests,
     CleanHistory, answers
<1>1. Parses(claim') => claim' = claim
  BY Contents DEF UserStep, Kill, CleanSessions, CleanOffers, CleanManifests,
     CleanHistory, session
<1>2. CASE pc' = pc
  BY <1>0, <1>1, <1>2 DEF ControlInv, SetupInv, SenderInv, ReceiverInv, ClaimInv, Fresh, Told
<1>3. ASSUME NEW p \in Procs, Kill(p)
      PROVE  ControlInv'
  <2>1. /\ pc'[p] = "killed" /\ pc[p] # "no_code"
        /\ \A q \in Procs \ {p} : pc'[q] = pc[q]
    BY <1>0, <1>3, Moved, CommonPlaces DEF Kill
  <2>2. SetupInv'
    BY <1>0, <2>1 DEF ControlInv, SetupInv, SetupAt
  <2>3. SenderInv'
    BY <1>0, <2>1 DEF ControlInv, SenderInv, Asking, Agreeing, Working, Reporting, Closing
  <2>4. ReceiverInv'
    BY <1>0, <2>1 DEF ControlInv, ReceiverInv, Unclaimed, Agreeing, Told
  <2>5. ClaimInv'
    BY <1>0, <1>1, <2>1 DEF ControlInv, ClaimInv, Fresh, Unclaimed
  <2> QED
    BY <2>2, <2>3, <2>4, <2>5 DEF ControlInv
<1> QED
  BY <1>2, <1>3 DEF UserStep, CleanSessions, CleanOffers, CleanManifests, CleanHistory

LEMMA ControlInit ==
    ASSUME Init
    PROVE  ControlInv
<1>1. Sender \in Procs /\ Receivers \subseteq Procs \ {Sender}
  BY Names
<1>2. pc[Sender] = "prepare" /\ \A r \in Receivers : pc[r] = "no_code"
  BY <1>1 DEF Init
<1>3. \A r \in Receivers : sAns[r] = "none" /\ rAns[r] = "none" /\ result[r] = "none"
  BY DEF Init
<1>4. cur \notin Receivers /\ ~Parses(claim)
  BY Names DEF Init, Absent, Parses
<1> QED
  BY <1>2, <1>3, <1>4 DEF ControlInv, SetupInv, SenderInv, ReceiverInv, ClaimInv, Fresh,
     Told, Asking, Agreeing, Working, Reporting, Closing, Unclaimed

LEMMA ControlStep ==
    ASSUME TypeInv, ControlInv, [Next]_vars
    PROVE  ControlInv'
<1>1. CASE UNCHANGED vars
  BY <1>1 DEF vars, answers, loaded, session, places, ControlInv, SetupInv, SenderInv,
     ReceiverInv, ClaimInv, Fresh, Told
<1>2. CASE Next
  BY <1>2, Steps, Names, ControlReceiverConfirms, ControlReceives, ControlSenderConfirms,
     ControlAnnounce, ControlSends, ControlUser DEF OwnStep
<1> QED
  BY <1>1, <1>2

LEMMA Controlled == Spec => [](TypeInv /\ ControlInv)
<1>1. Init => TypeInv /\ ControlInv
  BY TypeInit, ControlInit
<1>2. TypeInv /\ ControlInv /\ [Next]_vars => (TypeInv /\ ControlInv)'
  BY TypeStep, ControlStep
<1> QED
  BY <1>1, <1>2, PTL DEF Spec

-----------------------------------------------------------------------------
(* Answers and results are given once.                                     *)

\* The sender is through with the claim, and will not come back to it.
Closed(r) ==
    /\ sAns[r] # "none"
    /\ cur = r => pc[Sender] \in Closing \cup {"aborted", "killed"}

LEMMA SenderAnswersOnce ==
    ASSUME TypeInv, ControlInv, Next, NEW r \in Receivers
    PROVE  sAns[r] # "none" => sAns'[r] = sAns[r]
<1>0. TypeOK /\ CurInv /\ Sender \in Procs /\ Receivers \subseteq Procs \ {Sender}
  BY Names DEF TypeInv
<1>1. CASE Confirm(Sender)
  <2>1. pc[Sender] \in {"check", "prompt"} => cur \in Receivers /\ sAns[cur] = "none"
    BY <1>0 DEF CurInv, Serving, ControlInv, SenderInv, Asking
  <2> QED
    BY <1>0, <1>1, <2>1 DEF Confirm, CheckTrust, Approve, Refuse, SayYes, SeeYes, LoadTrust,
       TruncateTrust, WriteTrust, Goto, Answer, answers, TypeOK
<1>2. CASE ~Confirm(Sender)
  <2>1. ASSUME NEW p \in Procs, Confirm(p)
        PROVE  sAns' = sAns
    BY <1>2, <2>1 DEF Confirm, CheckTrust, Approve, Refuse, SayYes, SeeYes, LoadTrust,
       TruncateTrust, WriteTrust, Answer, answers
  <2>2. sAns' = sAns
    BY <2>1, Steps DEF AppendHistory, LoadHistory, TruncateHistory, WriteHistory, ReadOffer,
       TruncateClaim, WriteClaim, ReadState, OwnStep, Setup, Prepare, RefusePath, SaveFirst,
       WriteOffer, TruncateFirst, Announce, ClearClaim, ClearYes, PollClaim, TakeClaim,
       Progress, ProgressWritten, TransferOk, TransferErr, SaveManifest, Report, Reported,
       UserStep, Kill, CleanSessions, CleanOffers, CleanManifests, CleanHistory, answers
  <2> QED
    BY <2>2
<1> QED
  BY <1>1, <1>2

LEMMA ReceiverAnswersOnce ==
    ASSUME TypeInv, ControlInv, Next, NEW r \in Receivers
    PROVE  /\ rAns[r] # "none" => rAns'[r] = rAns[r]
           /\ rAns'[r] # rAns[r] => Confirm(r)
<1>0. TypeOK /\ Sender \in Procs /\ Receivers \subseteq Procs \ {Sender}
  BY Names DEF TypeInv
<1>1. ASSUME NEW p \in Procs, Confirm(p), p # r
      PROVE  rAns'[r] = rAns[r]
  BY <1>0, <1>1 DEF Confirm, CheckTrust, Approve, Refuse, SayYes, SeeYes, LoadTrust,
     TruncateTrust, WriteTrust, Answer, answers, TypeOK
<1>2. CASE Confirm(r)
  <2>1. pc[r] \in {"check", "prompt"} => rAns[r] = "none"
    BY DEF ControlInv, ReceiverInv
  <2> QED
    BY <1>0, <1>2, <2>1 DEF Confirm, CheckTrust, Approve, Refuse, SayYes, SeeYes, LoadTrust,
       TruncateTrust, WriteTrust, Goto, Answer, answers, TypeOK
<1>3. CASE ~\E p \in Procs : Confirm(p)
  BY <1>3, Steps DEF AppendHistory, LoadHistory, TruncateHistory, WriteHistory, ReadOffer,
     TruncateClaim, WriteClaim, ReadState, OwnStep, Setup, Prepare, RefusePath, SaveFirst,
     WriteOffer, TruncateFirst, Announce, ClearClaim, ClearYes, PollClaim, TakeClaim,
     Progress, ProgressWritten, TransferOk, TransferErr, SaveManifest, Report, Reported,
     UserStep, Kill, CleanSessions, CleanOffers, CleanManifests, CleanHistory, answers
<1> QED
  BY <1>1, <1>2, <1>3

LEMMA TransferredOnce ==
    ASSUME TypeInv, ControlInv, Next, NEW r \in Receivers
    PROVE  /\ result[r] # "none" => result'[r] = result[r]
           /\ result'[r] # result[r] => cur = r /\ pc[Sender] = "transfer"
<1>0. TypeOK
  BY DEF TypeInv
<1>1. CASE TransferOk \/ TransferErr
  <2>1. pc[Sender] = "transfer" /\ result[cur] = "none"
    BY <1>1 DEF TransferOk, TransferErr, Goto, ControlInv, SenderInv, Working
  <2> QED
    BY <1>0, <1>1, <2>1 DEF TransferOk, TransferErr, TypeOK
<1>2. CASE ~TransferOk /\ ~TransferErr
  BY <1>2, Steps DEF AppendHistory, LoadHistory, TruncateHistory, WriteHistory, ReadOffer,
     TruncateClaim, WriteClaim, ReadState, OwnStep, Setup, Prepare, RefusePath, SaveFirst,
     WriteOffer, TruncateFirst, Announce, ClearClaim, ClearYes, PollClaim, TakeClaim,
     Progress, ProgressWritten, SaveManifest, Report, Reported, Confirm, CheckTrust,
     Approve, Refuse, SayYes, SeeYes, LoadTrust, TruncateTrust, WriteTrust,
     UserStep, Kill, CleanSessions, CleanOffers, CleanManifests, CleanHistory
<1> QED
  BY <1>1, <1>2

LEMMA ClosedForGood ==
    ASSUME TypeInv, ControlInv, Next, NEW r \in Receivers, Closed(r)
    PROVE  Closed(r)' /\ result'[r] = result[r]
<1>0. TypeOK /\ Sender \in Procs /\ Receivers \subseteq Procs \ {Sender} /\ Nobody \notin Receivers
  BY Names DEF TypeInv
<1>1. sAns'[r] = sAns[r] /\ sAns'[r] # "none"
  BY SenderAnswersOnce DEF Closed
<1>2. result'[r] = result[r]
  BY TransferredOnce DEF Closed, Closing
<1>3. ~(Parses(claim) /\ claim.body = r)
  BY DEF Closed, ControlInv, ClaimInv, Fresh
<1>4. CASE cur = r
  <2>1. pc[Sender] \in Closing \cup {"aborted", "killed"}
    BY <1>4 DEF Closed
  <2>2. CASE \E p \in Procs : Kill(p)
    BY <1>0, <1>1, <1>2, <1>4, <2>1, <2>2 DEF Kill, Closed, Closing, TypeOK
  <2>3. CASE \E p \in Procs : p # Sender /\ (Confirm(p) \/ AppendHistory(p))
    <3>1. pc'[Sender] = pc[Sender]
      BY <1>0, <2>3 DEF Confirm, CheckTrust, Approve, Refuse, SayYes, SeeYes, LoadTrust,
         TruncateTrust, WriteTrust, AppendHistory, LoadHistory, TruncateHistory,
         WriteHistory, Goto, Abort, TypeOK
    <3> QED
      BY <1>1, <1>2, <1>4, <2>1, <3>1 DEF Closed
  <2>4. CASE AppendHistory(Sender)
    BY <1>0, <1>1, <1>2, <1>4, <2>4 DEF AppendHistory, LoadHistory, TruncateHistory,
       WriteHistory, Goto, Abort, Closed, Closing, TypeOK
  <2>5. CASE \E q \in Receivers :
                ReadOffer(q) \/ TruncateClaim(q) \/ WriteClaim(q) \/ ReadState(q)
    <3>1. pc'[Sender] = pc[Sender]
      BY <1>0, <2>5 DEF ReadOffer, TruncateClaim, WriteClaim, ReadState, Goto, Abort, TypeOK
    <3> QED
      BY <1>1, <1>2, <1>4, <2>1, <3>1 DEF Closed
  <2>6. CASE CleanSessions \/ CleanOffers \/ CleanManifests \/ CleanHistory
    BY <1>1, <1>2, <1>4, <2>1, <2>6
       DEF CleanSessions, CleanOffers, CleanManifests, CleanHistory, Closed
  <2>7. ~OwnStep /\ ~Confirm(Sender)
    BY <2>1 DEF Closing, OwnStep, Setup, Prepare, RefusePath, SaveFirst, WriteOffer,
       TruncateFirst, Announce, ClearClaim, ClearYes, PollClaim, TakeClaim, Progress,
       ProgressWritten, TransferOk, TransferErr, SaveManifest, Report, Reported, Goto,
       Confirm, CheckTrust, Approve, Refuse, SayYes, SeeYes, LoadTrust, TruncateTrust,
       WriteTrust
  <2> QED
    BY <2>2, <2>3, <2>4, <2>5, <2>6, <2>7, Steps DEF UserStep
<1>5. CASE cur # r
  <2>1. cur' # r
    <3>1. cur' \in {cur, Nobody} \/ (Parses(claim) /\ cur' = claim.body)
      BY Steps DEF AppendHistory, LoadHistory, TruncateHistory, WriteHistory, ReadOffer,
         TruncateClaim, WriteClaim, ReadState, OwnStep, Setup, Prepare, RefusePath,
         SaveFirst, WriteOffer, TruncateFirst, Announce, ClearClaim, ClearYes, PollClaim,
         TakeClaim, Progress, ProgressWritten, TransferOk, TransferErr, SaveManifest,
         Report, Reported, Confirm, CheckTrust, Approve, Refuse, SayYes, SeeYes, LoadTrust,
         TruncateTrust, WriteTrust, UserStep, Kill, CleanSessions, CleanOffers,
         CleanManifests, CleanHistory
    <3> QED
      BY <1>0, <1>3, <1>5, <3>1
  <2> QED
    BY <1>1, <1>2, <2>1 DEF Closed
<1> QED
  BY <1>4, <1>5

-----------------------------------------------------------------------------
(* Reports and records are true.                                           *)

StateInv ==
    Parses(state) => \A r \in Receivers : state.body.claim = r =>
        /\ state.body.status = "completed" => result[r] = "ok"
        /\ state.body.status = "failed" =>
              result[r] # "ok" /\ Closed(r) /\ (result[r] = "failed" \/ sAns[r] = "no")

ToldInv ==
    \A r \in Receivers :
        /\ Told(r) /\ rAns[r] # "no" => result[r] = "ok"
        /\ pc[r] = "failed" => result[r] # "ok" /\ Closed(r)

IsTrue(rec) ==
    IF rec.status = "completed" THEN result[rec.claim] = "ok"
    ELSE IF rec.role = "send"   THEN result[rec.claim] # "ok" /\ Closed(rec.claim)
    ELSE rAns[rec.claim] = "no"

RecordsInv ==
    /\ \A p \in Procs : \A rec \in entries[p] : IsTrue(rec)
    /\ Parses(history) => \A rec \in history.body : IsTrue(rec)

TruthInv == StateInv /\ ToldInv /\ RecordsInv

LEMMA TruthStays ==
    ASSUME TypeInv, ControlInv, Next, NEW rec \in Records, IsTrue(rec)
    PROVE  IsTrue(rec)'
<1>1. rec.claim \in Receivers
  BY DEF Records
<1>2. /\ result[rec.claim] = "ok" => result'[rec.claim] = "ok"
      /\ rAns[rec.claim] = "no" => rAns'[rec.claim] = "no"
      /\ Closed(rec.claim) => Closed(rec.claim)' /\ result'[rec.claim] = result[rec.claim]
  BY <1>1, TransferredOnce, ReceiverAnswersOnce, ClosedForGood
<1> QED
  BY <1>2 DEF IsTrue

\* The sender reports the status of the claim it serves.
LEMMA StateTrue ==
    ASSUME TypeInv, ControlInv, StateInv, Next
    PROVE  StateInv'
<1>0. TypeOK /\ CurInv /\ Sender \in Procs /\ Nobody \notin Receivers
  BY Names DEF TypeInv
<1>1. ASSUME Parses(state'), NEW r \in Receivers, state'.body.claim = r
      PROVE  /\ state'.body.status = "completed" => result'[r] = "ok"
             /\ state'.body.status = "failed" =>
                   /\ result'[r] # "ok" /\ Closed(r)'
                   /\ result'[r] = "failed" \/ sAns'[r] = "no"
  <2>1. CASE state' = state
    <3>1. /\ result[r] = "ok" => result'[r] = "ok"
          /\ Closed(r) => Closed(r)' /\ result'[r] = result[r]
          /\ sAns[r] = "no" => sAns'[r] = "no"
      BY TransferredOnce, ClosedForGood, SenderAnswersOnce
    <3> QED
      BY <1>1, <2>1, <3>1 DEF StateInv
  <2>2. CASE Announce
    <3>1. state' = state \/ state'.body = UnclaimedState("waiting_receiver")
      BY <1>1, <2>2, Contents DEF Announce
    <3> QED
      BY <1>0, <1>1, <2>1, <3>1 DEF UnclaimedState
  <2>3. CASE ProgressWritten
    <3>1. state' = state \/ state'.body = SessionState("transferring")
      BY <1>1, <2>3, Contents DEF ProgressWritten
    <3> QED
      BY <1>1, <2>1, <3>1 DEF SessionState
  <2>4. CASE Reported
    <3>1. state' = state \/ state'.body = SessionState(SendStatus)
      BY <1>1, <2>4, Contents DEF Reported
    <3>2. /\ pc[Sender] = "reporting" /\ pc'[Sender] = "load_history"
          /\ UNCHANGED <<cur, sAns, result>>
      BY <1>0, <2>4 DEF Reported, Goto, answers, TypeOK
    <3>3. sAns[cur] # "none" /\ (result[cur] # "none" \/ sAns[cur] = "no")
      BY <3>2 DEF ControlInv, SenderInv, Reporting
    <3>4. CASE state'.body = SessionState(SendStatus)
      <4>1. cur \in Receivers
        BY <1>0, <3>2 DEF CurInv, Serving, Reporting
      <4> QED
        BY <1>0, <1>1, <3>2, <3>3, <3>4, <4>1 DEF SessionState, SendStatus, Closed, Closing, TypeOK
    <3> QED
      BY <2>1, <3>1, <3>4
  <2>5. CASE TruncateFirst \/ Progress \/ Report \/ CleanSessions
    BY <1>1, <2>5, Contents DEF TruncateFirst, Progress, Report, CleanSessions
  <2>6. \/ state' = state \/ Announce \/ ProgressWritten \/ Reported
        \/ TruncateFirst \/ Progress \/ Report \/ CleanSessions
    BY Steps DEF AppendHistory, LoadHistory, TruncateHistory, WriteHistory, ReadOffer,
       TruncateClaim, WriteClaim, ReadState, OwnStep, Setup, Prepare, RefusePath,
       SaveFirst, WriteOffer, ClearClaim, ClearYes, PollClaim, TakeClaim, TransferOk,
       TransferErr, SaveManifest, Confirm, CheckTrust, Approve, Refuse, SayYes, SeeYes,
       LoadTrust, TruncateTrust, WriteTrust, UserStep, Kill, CleanOffers, CleanManifests,
       CleanHistory, session
  <2> QED
    BY <2>1, <2>2, <2>3, <2>4, <2>5, <2>6
<1> QED
  BY <1>1 DEF StateInv

\* A receiver is told what the state of its claim says.
LEMMA ToldTrue ==
    ASSUME TypeInv, ControlInv, StateInv, ToldInv, Next
    PROVE  ToldInv'
<1>0. TypeOK /\ Sender \in Procs /\ Receivers \subseteq Procs \ {Sender}
  BY Names DEF TypeInv
<1>1. ASSUME NEW r \in Receivers
      PROVE  /\ Told(r)' /\ rAns'[r] # "no" => result'[r] = "ok"
             /\ pc'[r] = "failed" => result'[r] # "ok" /\ Closed(r)'
  <2>1. /\ result[r] = "ok" => result'[r] = "ok"
        /\ Closed(r) => Closed(r)' /\ result'[r] = result[r]
        /\ rAns[r] # "none" => rAns'[r] = rAns[r]
    BY TransferredOnce, ClosedForGood, ReceiverAnswersOnce
  <2>2. Told(r) => rAns[r] # "none"
    BY DEF ControlInv, ReceiverInv
  <2>3. CASE ReadState(r)
    <3>1. /\ Told(r)' => OwnReport(r) /\ state.body.status = "completed"
          /\ pc'[r] = "failed" => OwnReport(r) /\ state.body.status = "failed"
      BY <1>0, <2>3 DEF ReadState, Goto, Abort, Told, TypeOK
    <3> QED
      BY <2>1, <3>1 DEF StateInv, OwnReport
  <2>4. CASE Refuse(r)
    <3>1. rAns'[r] = "no" /\ pc'[r] # "failed"
      BY <1>0, <2>4 DEF Refuse, Answer, Goto, AfterRefusal, TypeOK
    <3> QED
      BY <3>1
  <2>5. CASE ~ReadState(r) /\ ~Refuse(r)
    <3>1. /\ Told(r)' => Told(r)
          /\ pc'[r] = "failed" => pc[r] = "failed"
      <4>1. CASE \E p \in Procs \ {r} : Confirm(p) \/ AppendHistory(p)
        <5>1. pc'[r] = pc[r]
          BY <1>0, <4>1 DEF Confirm, CheckTrust, Approve, Refuse, SayYes, SeeYes, LoadTrust,
             TruncateTrust, WriteTrust, AppendHistory, LoadHistory, TruncateHistory,
             WriteHistory, Goto, Abort, TypeOK
        <5> QED
          BY <5>1 DEF Told
      <4>2. CASE Confirm(r) \/ AppendHistory(r)
        BY <1>0, <2>5, <4>2 DEF Confirm, CheckTrust, Approve, SayYes, SeeYes, LoadTrust,
           TruncateTrust, WriteTrust, AppendHistory, LoadHistory, TruncateHistory,
           WriteHistory, Goto, Abort, Confirmed, Told, TypeOK
      <4>3. CASE \E q \in Receivers \ {r} :
                    ReadOffer(q) \/ TruncateClaim(q) \/ WriteClaim(q) \/ ReadState(q)
        BY <1>0, <4>3 DEF ReadOffer, TruncateClaim, WriteClaim, ReadState, Goto, Abort,
           Told, TypeOK
      <4>4. CASE ReadOffer(r) \/ TruncateClaim(r) \/ WriteClaim(r)
        BY <1>0, <4>4 DEF ReadOffer, TruncateClaim, WriteClaim, Goto, Told, TypeOK
      <4>5. CASE OwnStep
        BY <1>0, <4>5 DEF OwnStep, Setup, Prepare, RefusePath, SaveFirst, WriteOffer,
           TruncateFirst, Announce, ClearClaim, ClearYes, PollClaim, TakeClaim, Progress,
           ProgressWritten, TransferOk, TransferErr, SaveManifest, Report, Reported, Goto,
           Abort, Told, TypeOK
      <4>6. CASE UserStep
        BY <1>0, <4>6 DEF UserStep, Kill, CleanSessions, CleanOffers, CleanManifests,
           CleanHistory, Told, TypeOK
      <4> QED
        BY <2>5, <4>1, <4>2, <4>3, <4>4, <4>5, <4>6, Steps
    <3> QED
      BY <2>1, <2>2, <3>1 DEF ToldInv
  <2> QED
    BY <2>3, <2>4, <2>5
<1> QED
  BY <1>1 DEF ToldInv

\* append_history takes over what it reads and adds the truth.
LEMMA RecordsTrue ==
    ASSUME TypeInv, ControlInv, ToldInv, RecordsInv, Next
    PROVE  RecordsInv'
<1>0. /\ TypeOK /\ CurInv /\ Sender \in Procs /\ Receivers \subseteq Procs \ {Sender}
      /\ \A p \in Procs : p # Sender => p \in Receivers
  BY Names DEF TypeInv
<1>1. /\ \A p \in Procs : entries[p] \subseteq Records
      /\ Parses(history) => history.body \subseteq Records
  BY <1>0, BodyType DEF TypeOK
<1>2. ASSUME NEW p \in Procs, NEW rec \in entries'[p]
      PROVE  IsTrue(rec)'
  <2>1. CASE rec \in entries[p]
    BY <1>1, <2>1, TruthStays DEF RecordsInv
  <2>2. CASE rec \notin entries[p]
    <3>1. LoadHistory(p) /\ ((Parses(history) /\ rec \in history.body) \/ rec = Record(p))
      <4>1. ASSUME NEW q \in Procs, LoadHistory(q), entries'[p] # entries[p]
            PROVE  /\ p = q
                   /\ Exists(history) => Parses(history)
                   /\ entries'[p] = {Record(p)}
                        \cup (IF Exists(history) THEN history.body ELSE {})
        BY <1>0, <4>1 DEF LoadHistory, TypeOK
      <4>2. ASSUME NEW q \in Procs, AppendHistory(q), ~LoadHistory(q)
            PROVE  entries'[p] \subseteq entries[p]
        BY <1>0, <4>2 DEF AppendHistory, TruncateHistory, WriteHistory, loaded, TypeOK
      <4>3. ASSUME ~\E q \in Procs : AppendHistory(q)
            PROVE  entries' = entries
        BY <4>3, Steps DEF ReadOffer, TruncateClaim, WriteClaim, ReadState, OwnStep, Setup,
           Prepare, RefusePath, SaveFirst, WriteOffer, TruncateFirst, Announce, ClearClaim,
           ClearYes, PollClaim, TakeClaim, Progress, ProgressWritten, TransferOk,
           TransferErr, SaveManifest, Report, Reported, Confirm, CheckTrust, Approve,
           Refuse, SayYes, SeeYes, LoadTrust, TruncateTrust, WriteTrust, UserStep, Kill,
           CleanSessions, CleanOffers, CleanManifests, CleanHistory, loaded
      <4> QED
        BY <1>2, <2>2, <4>1, <4>2, <4>3 DEF AppendHistory
    <3>2. CASE Parses(history) /\ rec \in history.body
      BY <1>1, <3>2, TruthStays DEF RecordsInv
    <3>3. CASE rec = Record(p)
      <4>1. /\ pc[p] = "load_history" /\ UNCHANGED <<cur, sAns, rAns, result>>
            /\ pc'[p] \in {"truncate_history", "aborted"}
        BY <1>0, <3>1 DEF LoadHistory, Abort, answers, TypeOK
      <4>2. CASE p = Sender
        BY <1>0, <3>3, <4>1, <4>2 DEF Record, Claimed, SendStatus, IsTrue, Closed, Closing,
           ControlInv, SenderInv, CurInv, Serving
      <4>3. CASE p # Sender
        BY <1>0, <3>3, <4>1, <4>3 DEF Record, Claimed, IsTrue, ToldInv, Told
      <4> QED
        BY <4>2, <4>3
    <3> QED
      BY <3>1, <3>2, <3>3
  <2> QED
    BY <2>1, <2>2
<1>3. ASSUME Parses(history'), NEW rec \in history'.body
      PROVE  IsTrue(rec)'
  <2>1. \/ history' = history
        \/ \E p \in Procs : history' = Truncated(history, p)
        \/ \E p \in Procs : history' \in Written(history, p, entries[p])
        \/ history' = Absent
    BY Steps DEF AppendHistory, LoadHistory, TruncateHistory, WriteHistory, ReadOffer,
       TruncateClaim, WriteClaim, ReadState, OwnStep, Setup, Prepare, RefusePath,
       SaveFirst, WriteOffer, TruncateFirst, Announce, ClearClaim, ClearYes, PollClaim,
       TakeClaim, Progress, ProgressWritten, TransferOk, TransferErr, SaveManifest,
       Report, Reported, Confirm, CheckTrust, Approve, Refuse, SayYes, SeeYes, LoadTrust,
       TruncateTrust, WriteTrust, UserStep, Kill, CleanSessions, CleanOffers,
       CleanManifests, CleanHistory
  <2>2. history' = history \/ \E p \in Procs : history'.body = entries[p]
    BY <1>3, <2>1, Contents
  <2>3. rec \in Records /\ IsTrue(rec)
    BY <1>1, <1>3, <2>2 DEF RecordsInv
  <2> QED
    BY <2>3, TruthStays
<1> QED
  BY <1>2, <1>3 DEF RecordsInv

LEMMA TruthInit ==
    ASSUME Init
    PROVE  TruthInv
<1>1. \A r \in Receivers : pc[r] = "no_code"
  BY Names DEF Init
<1>2. ~Parses(state) /\ ~Parses(history) /\ \A p \in Procs : entries[p] = {}
  BY DEF Init, Absent, Parses
<1> QED
  BY <1>1, <1>2 DEF TruthInv, StateInv, ToldInv, RecordsInv, Told

LEMMA TruthStep ==
    ASSUME TypeInv, ControlInv, TruthInv, [Next]_vars
    PROVE  TruthInv'
<1>1. CASE UNCHANGED vars
  BY <1>1 DEF vars, answers, loaded, session, places, TruthInv, StateInv, ToldInv,
     RecordsInv, IsTrue, Closed, Told
<1>2. CASE Next
  BY <1>2, StateTrue, ToldTrue, RecordsTrue DEF TruthInv
<1> QED
  BY <1>1, <1>2

\* However many receivers there are, and whatever is killed or removed in between:
\* a receiver is told of a success or a failure only of its own transfer and only as
\* it was, and each history record that can be read says what really happened.
THEOREM TrueReports == Spec => []ReportsAreTrue
<1>1. Init => TypeInv /\ ControlInv /\ TruthInv
  BY TypeInit, ControlInit, TruthInit
<1>2. TypeInv /\ ControlInv /\ TruthInv /\ [Next]_vars => (TypeInv /\ ControlInv /\ TruthInv)'
  BY TypeStep, ControlStep, TruthStep
<1>3. TruthInv => ReportsAreTrue
  <2>1. ASSUME TruthInv, NEW rec \in Records, Recorded(rec)
        PROVE  IsTrue(rec)
    BY <2>1 DEF TruthInv, RecordsInv, Recorded
  <2> QED
    BY <2>1 DEF TruthInv, ToldInv, Closed, IsTrue, ReportsAreTrue
<1> QED
  BY <1>1, <1>2, <1>3, PTL DEF Spec

-----------------------------------------------------------------------------
(* The last report stays where its receiver looks for it.                  *)

\* No session has been cleaned, so the file the sender has opened is still its own.
Kept == budget["clean"] >= Budget["clean"]

ReportInv ==
    /\ budget["clean"] <= Budget["clean"]
    /\ Kept /\ pc[Sender] \in {"progress", "reporting"} =>
          state.is = "empty" /\ Sender \in state.open
    /\ ReportAwaits

LEMMA WrittenOnce ==
    ASSUME NEW f, NEW p, NEW v, f.is = "empty", p \in f.open
    PROVE  \A g \in Written(f, p, v) : Parses(g) /\ g.body = v
  BY DEF Written, Parses

\* Who is being served changes as the sender polls, and as it has written its history.
LEMMA NextServed ==
    ASSUME TypeInv, Next, cur' # cur
    PROVE  /\ \/ cur = Nobody /\ cur' = claim.body /\ Parses(claim)
              \/ pc[Sender] = "write_history" /\ cur' = Nobody
           /\ sAns' = sAns /\ result' = result /\ state' = state
<1>0. TypeOK /\ CurInv /\ Sender \in Procs
  BY Names DEF TypeInv
<1>1. PollClaim \/ WriteHistory(Sender)
  BY Steps DEF AppendHistory, LoadHistory, TruncateHistory, WriteHistory, ReadOffer,
     TruncateClaim, WriteClaim, ReadState, OwnStep, Setup, Prepare, RefusePath, SaveFirst,
     WriteOffer, TruncateFirst, Announce, ClearClaim, ClearYes, TakeClaim, Progress,
     ProgressWritten, TransferOk, TransferErr, SaveManifest, Report, Reported, Confirm,
     CheckTrust, Approve, Refuse, SayYes, SeeYes, LoadTrust, TruncateTrust, WriteTrust,
     UserStep, Kill, CleanSessions, CleanOffers, CleanManifests, CleanHistory
<1>2. CASE PollClaim
  BY <1>0, <1>2 DEF PollClaim, Goto, CurInv, Early, answers, session
<1>3. CASE WriteHistory(Sender)
  BY <1>0, <1>3 DEF WriteHistory, Goto, answers, session
<1> QED
  BY <1>1, <1>2, <1>3

\* The sender answers only the claim it serves.
LEMMA AnswersServed ==
    ASSUME TypeInv, Next, NEW r \in Receivers, sAns'[r] # sAns[r]
    PROVE  Confirm(Sender) /\ cur = r /\ cur' = cur
<1>0. TypeOK
  BY DEF TypeInv
<1>1. ASSUME NEW p \in Procs, Confirm(p), p # Sender
      PROVE  FALSE
  BY <1>1 DEF Confirm, CheckTrust, Approve, Refuse, SayYes, SeeYes, LoadTrust,
     TruncateTrust, WriteTrust, Answer, answers
<1>2. Confirm(Sender)
  BY <1>1, Steps DEF AppendHistory, LoadHistory, TruncateHistory, WriteHistory, ReadOffer,
     TruncateClaim, WriteClaim, ReadState, OwnStep, Setup, Prepare, RefusePath, SaveFirst,
     WriteOffer, TruncateFirst, Announce, ClearClaim, ClearYes, PollClaim, TakeClaim,
     Progress, ProgressWritten, TransferOk, TransferErr, SaveManifest, Report, Reported,
     UserStep, Kill, CleanSessions, CleanOffers, CleanManifests, CleanHistory, answers
<1> QED
  BY <1>0, <1>2 DEF Confirm, CheckTrust, Approve, Refuse, SayYes, SeeYes, LoadTrust,
     TruncateTrust, WriteTrust, Answer, answers, TypeOK

\* Where the sender gets to after it has reported.
LEMMA ClosesByReport ==
    ASSUME TypeInv, Next, pc'[Sender] \in Closing
    PROVE  pc[Sender] \in Closing \/ Reported
<1>0. TypeOK /\ Sender \in Procs /\ Receivers \subseteq Procs \ {Sender}
  BY Names DEF TypeInv
<1>1. CASE pc'[Sender] = pc[Sender]
  BY <1>1
<1>2. CASE pc'[Sender] # pc[Sender]
  <2>1. ASSUME NEW p \in Procs \ {Sender}, Confirm(p) \/ AppendHistory(p)
        PROVE  FALSE
    BY <1>0, <1>2, <2>1 DEF Confirm, CheckTrust, Approve, Refuse, SayYes, SeeYes,
       LoadTrust, TruncateTrust, WriteTrust, AppendHistory, LoadHistory,
       TruncateHistory, WriteHistory, Goto, Abort, TypeOK
  <2>2. ASSUME NEW q \in Receivers,
               ReadOffer(q) \/ TruncateClaim(q) \/ WriteClaim(q) \/ ReadState(q)
        PROVE  FALSE
    BY <1>0, <1>2, <2>2 DEF ReadOffer, TruncateClaim, WriteClaim, ReadState, Goto,
       Abort, TypeOK
  <2>3. ~UserStep
    BY <1>0, <1>2 DEF UserStep, Kill, CleanSessions, CleanOffers, CleanManifests,
       CleanHistory, TypeOK, Closing
  <2>4. ~Confirm(Sender)
    BY <1>0 DEF Confirm, CheckTrust, Approve, Refuse, SayYes, SeeYes, LoadTrust,
       TruncateTrust, WriteTrust, Goto, Abort, Confirmed, AfterRefusal, TypeOK, Closing
  <2>5. OwnStep => Reported
    BY <1>0 DEF OwnStep, Setup, Prepare, RefusePath, SaveFirst, WriteOffer, TruncateFirst,
       Announce, ClearClaim, ClearYes, PollClaim, TakeClaim, Progress, ProgressWritten,
       TransferOk, TransferErr, SaveManifest, Report, Goto, Abort, TypeOK, Closing
  <2>6. AppendHistory(Sender) => pc[Sender] \in Closing
    BY DEF AppendHistory, LoadHistory, TruncateHistory, WriteHistory, Goto, Closing
  <2> QED
    BY <2>1, <2>2, <2>3, <2>4, <2>5, <2>6, Steps
<1> QED
  BY <1>1, <1>2

\* Only a report ends the service of a claim.
LEMMA ServedByReport ==
    ASSUME TypeInv, ControlInv, Next, NEW r \in Receivers, Served(r)'
    PROVE  Served(r) \/ (Reported /\ cur = r)
<1>0. Nobody \notin Receivers
  BY Names
<1>1. CASE cur' # cur
  BY <1>0, <1>1, NextServed DEF Served
<1>2. CASE cur' = cur /\ cur = r
  <2>1. pc'[Sender] \in Closing
    BY <1>2 DEF Served, Closing
  <2>2. pc[Sender] \in Closing => sAns[r] # "none"
    BY <1>2 DEF ControlInv, SenderInv
  <2> QED
    BY <1>2, <2>1, <2>2, ClosesByReport DEF Served, Closing
<1>3. CASE cur' = cur /\ cur # r
  BY <1>3, AnswersServed DEF Served
<1> QED
  BY <1>1, <1>2, <1>3

\* A step that leaves state.json alone leaves the reports in it.
LEMMA ReportsStay ==
    ASSUME TypeInv, ControlInv, ReportInv, Next, state' = state, Kept, ~Reported
    PROVE  ReportAwaits'
<1>0. Nobody \notin Receivers
  BY Names
<1>1. ASSUME NEW r \in Receivers, Served(r)
      PROVE  \/ Reports(r)
             \/ \E d \in Receivers \ {r} : sAns[d] # "none" /\ (cur = d \/ Reports(d))
  BY <1>1 DEF ReportInv, ReportAwaits, Kept
<1>2. ASSUME NEW d \in Receivers, sAns[d] # "none", Reports(d)
      PROVE  sAns'[d] # "none" /\ (cur' = d \/ Reports(d)')
  <2>1. sAns'[d] # "none"
    BY <1>2, SenderAnswersOnce
  <2>2. CASE result'[d] = result[d]
    BY <1>2, <2>1, <2>2 DEF Reports
  <2>3. CASE result'[d] # result[d]
    BY <2>1, <2>3, TransferredOnce, NextServed
  <2> QED
    BY <2>2, <2>3
<1>3. ASSUME NEW r \in Receivers, Served(r), Reports(r)
      PROVE  Reports(r)'
  <2>1. Closed(r)
    BY <1>3 DEF Served, Closed, Closing
  <2> QED
    BY <1>3, <2>1, ClosedForGood DEF Reports
<1>4. ASSUME NEW r \in Receivers, Served(r)'
      PROVE  \/ Reports(r)'
             \/ \E d \in Receivers \ {r} : sAns'[d] # "none" /\ (cur' = d \/ Reports(d)')
  <2>1. Served(r)
    BY <1>4, ServedByReport
  <2>2. CASE Reports(r)
    BY <1>3, <2>1, <2>2
  <2>3. ASSUME NEW d \in Receivers \ {r}, sAns[d] # "none", Reports(d)
        PROVE  \E e \in Receivers \ {r} : sAns'[e] # "none" /\ (cur' = e \/ Reports(e)')
    BY <1>2, <2>3
  <2>4. ASSUME NEW d \in Receivers \ {r}, sAns[d] # "none", cur = d
        PROVE  \/ Reports(r)'
               \/ \E e \in Receivers \ {r} : sAns'[e] # "none" /\ (cur' = e \/ Reports(e)')
    <3>1. CASE cur' = cur
      BY <2>4, <3>1, SenderAnswersOnce
    <3>2. CASE cur' # cur
      <4>1. pc[Sender] = "write_history" /\ sAns' = sAns /\ result' = result
        BY <1>0, <2>4, <3>2, NextServed
      <4>2. Served(d)
        BY <2>4, <4>1 DEF Served
      <4>3. PICK e \in Receivers : sAns[e] # "none" /\ Reports(e)
        BY <1>1, <2>4, <4>2
      <4>4. Reports(e)'
        BY <4>1, <4>3 DEF Reports
      <4> QED
        BY <4>1, <4>3, <4>4
    <3> QED
      BY <3>1, <3>2
  <2> QED
    BY <1>1, <2>1, <2>2, <2>3, <2>4
<1> QED
  BY <1>4 DEF ReportAwaits

LEMMA ReportStep ==
    ASSUME TypeInv, ControlInv, ReportInv, Next
    PROVE  ReportInv'
<1>0. /\ TypeOK /\ CurInv /\ Sender \in Procs /\ Receivers \subseteq Procs \ {Sender}
      /\ budget["clean"] \in Nat /\ Budget["clean"] \in Nat
  BY Names, SessionAssumption DEF TypeInv, TypeOK, Events, SessionAssumption
<1>1. /\ budget'["clean"] <= budget["clean"]
      /\ CleanSessions => budget'["clean"] < budget["clean"]
      /\ budget'["clean"] \in Nat
  <2>1. CASE UserStep
    BY <1>0, <2>1 DEF UserStep, Kill, CleanSessions, CleanOffers, CleanManifests,
       CleanHistory, Spend, TypeOK, Events
  <2>2. CASE ~UserStep
    <3>1. budget' = budget
      BY <2>2, Steps DEF AppendHistory, LoadHistory, TruncateHistory, WriteHistory, ReadOffer,
         TruncateClaim, WriteClaim, ReadState, OwnStep, Setup, Prepare, RefusePath,
         SaveFirst, WriteOffer, TruncateFirst, Announce, ClearClaim, ClearYes, PollClaim,
         TakeClaim, Progress, ProgressWritten, TransferOk, TransferErr, SaveManifest,
         Report, Reported, Confirm, CheckTrust, Approve, Refuse, SayYes, SeeYes, LoadTrust,
         TruncateTrust, WriteTrust, places
    <3> QED
      BY <1>0, <2>2, <3>1 DEF UserStep
  <2> QED
    BY <2>1, <2>2
<1>2. budget'["clean"] <= Budget["clean"] /\ (Kept' => Kept /\ ~CleanSessions)
  BY <1>0, <1>1 DEF ReportInv, Kept
<1>3. \/ state' = state \/ Announce \/ ProgressWritten \/ Reported
      \/ TruncateFirst \/ Progress \/ Report \/ CleanSessions
  BY Steps DEF AppendHistory, LoadHistory, TruncateHistory, WriteHistory, ReadOffer,
     TruncateClaim, WriteClaim, ReadState, OwnStep, Setup, Prepare, RefusePath,
     SaveFirst, WriteOffer, ClearClaim, ClearYes, PollClaim, TakeClaim, TransferOk,
     TransferErr, SaveManifest, Confirm, CheckTrust, Approve, Refuse, SayYes, SeeYes,
     LoadTrust, TruncateTrust, WriteTrust, UserStep, Kill, CleanOffers, CleanManifests,
     CleanHistory, session
<1>4. ASSUME Kept', pc'[Sender] \in {"progress", "reporting"}
      PROVE  state'.is = "empty" /\ Sender \in state'.open
  <2>1. CASE Progress \/ Report
    BY <2>1 DEF Progress, Report, Truncated
  <2>2. CASE ~Progress /\ ~Report
    <3>1. ASSUME NEW p \in Procs \ {Sender}, Confirm(p) \/ AppendHistory(p)
          PROVE  pc'[Sender] = pc[Sender]
      BY <1>0, <3>1 DEF Confirm, CheckTrust, Approve, Refuse, SayYes, SeeYes,
         LoadTrust, TruncateTrust, WriteTrust, AppendHistory, LoadHistory,
         TruncateHistory, WriteHistory, Goto, Abort, TypeOK
    <3>2. ASSUME NEW q \in Receivers,
                 ReadOffer(q) \/ TruncateClaim(q) \/ WriteClaim(q) \/ ReadState(q)
          PROVE  pc'[Sender] = pc[Sender]
      BY <1>0, <3>2 DEF ReadOffer, TruncateClaim, WriteClaim, ReadState, Goto,
         Abort, TypeOK
    <3>3. UserStep => pc'[Sender] = pc[Sender]
      BY <1>0, <1>4 DEF UserStep, Kill, CleanSessions, CleanOffers, CleanManifests,
         CleanHistory, TypeOK
    <3>4. ~Confirm(Sender)
      BY <1>0, <1>4 DEF Confirm, CheckTrust, Approve, Refuse, SayYes, SeeYes, LoadTrust,
         TruncateTrust, WriteTrust, Goto, Abort, Confirmed, AfterRefusal, TypeOK
    <3>5. ~OwnStep
      BY <1>0, <1>4, <2>2 DEF OwnStep, Setup, Prepare, RefusePath, SaveFirst, WriteOffer,
         TruncateFirst, Announce, ClearClaim, ClearYes, PollClaim, TakeClaim,
         ProgressWritten, TransferOk, TransferErr, SaveManifest, Reported, Goto, Abort,
         TypeOK
    <3>6. ~AppendHistory(Sender)
      BY <1>0, <1>4 DEF AppendHistory, LoadHistory, TruncateHistory, WriteHistory, Goto,
         Abort, TypeOK
    <3>7. pc'[Sender] = pc[Sender]
      BY <3>1, <3>2, <3>3, <3>4, <3>5, <3>6, Steps
    <3>8. state' = state
      BY <1>2, <1>3, <1>4, <2>2, <3>5 DEF OwnStep, Setup
    <3> QED
      BY <1>2, <1>4, <3>7, <3>8 DEF ReportInv
  <2> QED
    BY <2>1, <2>2
<1>5. ASSUME Kept'
      PROVE  ReportAwaits'
  <2>1. CASE state' = state /\ ~Reported
    BY <1>2, <1>5, <2>1, ReportsStay
  <2>2. CASE Announce \/ TruncateFirst
    <3>1. pc[Sender] \in SetupAt /\ sAns' = sAns
      BY <2>2 DEF Announce, TruncateFirst, Goto, SetupAt, answers
    <3>2. \A r \in Receivers : sAns[r] = "none"
      BY <3>1 DEF ControlInv, SetupInv, ClaimInv, Unclaimed, Fresh
    <3> QED
      BY <3>1, <3>2 DEF ReportAwaits, Served
  <2>3. CASE ProgressWritten \/ Progress \/ Report
    <3>1. /\ cur' = cur /\ sAns' = sAns /\ pc'[Sender] \notin Closing
          /\ pc[Sender] \in Working \cup Reporting
      BY <1>0, <2>3 DEF ProgressWritten, Progress, Report, Goto, answers, Closing, Working,
         Reporting, TypeOK
    <3>2. cur \in Receivers /\ sAns[cur] # "none"
      BY <1>0, <3>1 DEF CurInv, Serving, ControlInv, SenderInv, Working, Reporting
    <3>3. \A r \in Receivers : Served(r)' => r # cur
      BY <3>1 DEF Served, Closing
    <3> QED
      BY <3>1, <3>2, <3>3 DEF ReportAwaits
  <2>4. CASE Reported
    <3>1. /\ cur' = cur /\ sAns' = sAns /\ result' = result /\ pc[Sender] = "reporting"
          /\ state' \in Written(state, Sender, SessionState(SendStatus))
      BY <2>4 DEF Reported, Goto, answers
    <3>2. cur \in Receivers /\ sAns[cur] # "none"
      BY <1>0, <3>1 DEF CurInv, Serving, ControlInv, SenderInv, Reporting
    <3>3. Parses(state') /\ state'.body = SessionState(SendStatus)
      BY <1>2, <1>5, <3>1, WrittenOnce DEF ReportInv
    <3>4. Reports(cur)'
      BY <3>1, <3>3 DEF Reports, SessionState, SendStatus
    <3> QED
      BY <3>1, <3>2, <3>4 DEF ReportAwaits
  <2> QED
    BY <1>2, <1>3, <1>5, <2>1, <2>2, <2>3, <2>4
<1> QED
  BY <1>2, <1>4, <1>5 DEF ReportInv, ReportAwaits, Kept

\* For any number of receivers, of which some may be slow or killed: a report is found by
\* its receiver from the moment it is written until the sender answers another claim.
THEOREM ReportsAwait == Spec => []ReportAwaits
<1>1. Init => TypeInv /\ ControlInv /\ ReportInv
  <2> SUFFICES ASSUME Init PROVE ReportInv
    BY TypeInit, ControlInit
  <2>1. pc[Sender] = "prepare" /\ \A r \in Receivers : sAns[r] = "none"
    BY Names DEF Init
  <2>2. budget["clean"] = Budget["clean"] /\ Budget["clean"] \in Nat
    BY SessionAssumption DEF SessionAssumption, Init, Events
  <2> QED
    BY <2>1, <2>2 DEF ReportInv, ReportAwaits, Served
<1>2. TypeInv /\ ControlInv /\ ReportInv /\ [Next]_vars
        => (TypeInv /\ ControlInv /\ ReportInv)'
  <2>1. ASSUME ReportInv, UNCHANGED vars
        PROVE  ReportInv'
    BY <2>1 DEF vars, answers, session, places, ReportInv, ReportAwaits, Served, Reports, Kept
  <2> QED
    BY <2>1, TypeStep, ControlStep, ReportStep
<1>3. ReportInv => ReportAwaits
  BY DEF ReportInv
<1> QED
  BY <1>1, <1>2, <1>3, PTL DEF Spec

-----------------------------------------------------------------------------
(* Who is trusted.                                                         *)

SaidYes(ans) == \E r \in Receivers : ans[r] = "yes"
BothYes      == SaidYes(sAns) /\ SaidYes(rAns)

\* A "yes" file is there only after somebody of that side has typed yes, and
\* pair_peer is reached only by a process that has typed yes and found the other's.
YesInv ==
    /\ yes["sender"] => SaidYes(sAns)
    /\ yes["receiver"] => SaidYes(rAns)
    /\ \A p \in Procs : pc[p] = "load_trust" => BothYes

TrustInv ==
    /\ \A p \in Procs : store[p] \subseteq InitialTrust \/ BothYes
    /\ Parses(trust) => trust.body \subseteq InitialTrust \/ BothYes

LEMMA YesStays ==
    ASSUME TypeInv, ControlInv, Next
    PROVE  /\ SaidYes(sAns) => SaidYes(sAns')
           /\ SaidYes(rAns) => SaidYes(rAns')
           /\ BothYes => BothYes'
  BY SenderAnswersOnce, ReceiverAnswersOnce DEF SaidYes, BothYes

LEMMA YesStep ==
    ASSUME TypeInv, ControlInv, YesInv, Next
    PROVE  YesInv'
<1>0. /\ TypeOK /\ CurInv /\ Sender \in Procs /\ Receivers \subseteq Procs \ {Sender}
      /\ \A p \in Procs : p # Sender => p \in Receivers
  BY Names DEF TypeInv
<1>1. /\ SaidYes(sAns) => SaidYes(sAns')
      /\ SaidYes(rAns) => SaidYes(rAns')
      /\ BothYes => BothYes'
  BY YesStays
<1>2. ASSUME NEW p \in Procs, pc[p] \in {"yes", "await"}
      PROVE  IF p = Sender THEN SaidYes(sAns) ELSE SaidYes(rAns)
  BY <1>0, <1>2 DEF ControlInv, SenderInv, ReceiverInv, CurInv, Serving, Agreeing, SaidYes
<1>3. /\ yes'["sender"] => yes["sender"] \/ SaidYes(sAns)
      /\ yes'["receiver"] => yes["receiver"] \/ SaidYes(rAns)
  <2>1. ASSUME NEW p \in Procs, SayYes(p)
        PROVE  /\ yes'["sender"] => yes["sender"] \/ SaidYes(sAns)
               /\ yes'["receiver"] => yes["receiver"] \/ SaidYes(rAns)
    BY <1>0, <1>2, <2>1 DEF SayYes, Role, Roles, TypeOK
  <2>2. CASE ~\E p \in Procs : SayYes(p)
    BY <1>0, <2>2, Steps DEF AppendHistory, LoadHistory, TruncateHistory, WriteHistory,
       ReadOffer, TruncateClaim, WriteClaim, ReadState, OwnStep, Setup, Prepare, RefusePath,
       SaveFirst, WriteOffer, TruncateFirst, Announce, ClearClaim, ClearYes, PollClaim,
       TakeClaim, Progress, ProgressWritten, TransferOk, TransferErr, SaveManifest,
       Report, Reported, Confirm, CheckTrust, Approve, Refuse, SeeYes,
       LoadTrust, TruncateTrust, WriteTrust, UserStep, Kill, CleanSessions, CleanOffers,
       CleanManifests, CleanHistory, session, Roles, TypeOK
  <2> QED
    BY <2>1, <2>2
<1>4. ASSUME NEW p \in Procs, pc'[p] = "load_trust"
      PROVE  BothYes
  <2>1. CASE pc[p] = "load_trust"
    BY <2>1 DEF YesInv
  <2>2. CASE pc[p] # "load_trust"
    <3>1. SeeYes(p)
      <4>1. ASSUME NEW q \in Procs, Confirm(q) \/ AppendHistory(q)
            PROVE  p = q /\ SeeYes(q)
        BY <1>0, <1>4, <2>2, <4>1 DEF Confirm, CheckTrust, Approve, Refuse, SayYes,
           LoadTrust, TruncateTrust, WriteTrust, AppendHistory, LoadHistory,
           TruncateHistory, WriteHistory, Goto, Abort, SeeYes, Confirmed, AfterRefusal,
           TypeOK
      <4>2. CASE \E q \in Receivers :
                    ReadOffer(q) \/ TruncateClaim(q) \/ WriteClaim(q) \/ ReadState(q)
        BY <1>0, <1>4, <2>2, <4>2 DEF ReadOffer, TruncateClaim, WriteClaim, ReadState,
           Goto, Abort, TypeOK
      <4>3. CASE OwnStep
        BY <1>0, <1>4, <2>2, <4>3 DEF OwnStep, Setup, Prepare, RefusePath, SaveFirst,
           WriteOffer, TruncateFirst, Announce, ClearClaim, ClearYes, PollClaim, TakeClaim,
           Progress, ProgressWritten, TransferOk, TransferErr, SaveManifest, Report,
           Reported, Goto, Abort, TypeOK
      <4>4. CASE UserStep
        BY <1>0, <1>4, <2>2, <4>4 DEF UserStep, Kill, CleanSessions, CleanOffers,
           CleanManifests, CleanHistory, TypeOK
      <4> QED
        BY <4>1, <4>2, <4>3, <4>4, Steps
    <3>2. pc[p] = "await" /\ OtherYes(p)
      BY <3>1 DEF SeeYes, Goto
    <3> QED
      BY <1>2, <3>2 DEF YesInv, OtherYes, Other, Role, BothYes
  <2> QED
    BY <2>1, <2>2
<1> QED
  BY <1>1, <1>3, <1>4 DEF YesInv

LEMMA TrustStep ==
    ASSUME TypeInv, ControlInv, YesInv, TrustInv, Next
    PROVE  TrustInv'
<1>0. TypeOK
  BY DEF TypeInv
<1>1. BothYes => BothYes'
  BY YesStays
<1>2. ASSUME NEW p \in Procs
      PROVE  store'[p] \subseteq InitialTrust \/ BothYes
  <2>1. CASE \E q \in Procs : LoadTrust(q)
    BY <2>1 DEF LoadTrust, YesInv
  <2>2. CASE ~\E q \in Procs : LoadTrust(q)
    <3>1. store'[p] \in {store[p], {}}
      BY <1>0, <2>2, Steps DEF AppendHistory, LoadHistory, TruncateHistory, WriteHistory,
         ReadOffer, TruncateClaim, WriteClaim, ReadState, OwnStep, Setup, Prepare,
         RefusePath, SaveFirst, WriteOffer, TruncateFirst, Announce, ClearClaim, ClearYes,
         PollClaim, TakeClaim, Progress, ProgressWritten, TransferOk, TransferErr,
         SaveManifest, Report, Reported, Confirm, CheckTrust, Approve, Refuse, SayYes,
         SeeYes, TruncateTrust, WriteTrust, UserStep, Kill, CleanSessions, CleanOffers,
         CleanManifests, CleanHistory, loaded, TypeOK
    <3> QED
      BY <3>1 DEF TrustInv
  <2> QED
    BY <2>1, <2>2
<1>3. ASSUME Parses(trust')
      PROVE  trust'.body \subseteq InitialTrust \/ BothYes
  <2>1. \/ trust' = trust
        \/ \E p \in Procs : trust' = Truncated(trust, p)
        \/ \E p \in Procs : trust' \in Written(trust, p, store[p])
    BY Steps DEF AppendHistory, LoadHistory, TruncateHistory, WriteHistory, ReadOffer,
       TruncateClaim, WriteClaim, ReadState, OwnStep, Setup, Prepare, RefusePath,
       SaveFirst, WriteOffer, TruncateFirst, Announce, ClearClaim, ClearYes, PollClaim,
       TakeClaim, Progress, ProgressWritten, TransferOk, TransferErr, SaveManifest,
       Report, Reported, Confirm, CheckTrust, Approve, Refuse, SayYes, SeeYes,
       LoadTrust, TruncateTrust, WriteTrust, UserStep, Kill, CleanSessions, CleanOffers,
       CleanManifests, CleanHistory
  <2>2. trust' = trust \/ \E p \in Procs : trust'.body = store[p]
    BY <1>3, <2>1, Contents
  <2> QED
    BY <1>3, <2>2 DEF TrustInv
<1> QED
  BY <1>1, <1>2, <1>3 DEF TrustInv

\* No device gets into the trust store, and into no store that is about to be written
\* back, before a sender and a receiver have both typed yes, however the yes files of
\* one claim outlive it and whoever is killed while it writes the store.
THEOREM TrustTakesYes == Spec => []TrustNeedsYes
<1>1. Init => TypeInv /\ ControlInv /\ YesInv /\ TrustInv
  <2>1. ASSUME Init
        PROVE  YesInv /\ TrustInv
    BY <2>1, Names DEF Init, YesInv, TrustInv, Roles, Procs, Absent, Holding, Parses
  <2> QED
    BY <2>1, TypeInit, ControlInit
<1>2. TypeInv /\ ControlInv /\ YesInv /\ TrustInv /\ [Next]_vars
        => (TypeInv /\ ControlInv /\ YesInv /\ TrustInv)'
  <2>1. ASSUME YesInv, TrustInv, UNCHANGED vars
        PROVE  YesInv' /\ TrustInv'
    BY <2>1 DEF vars, answers, loaded, session, places, YesInv, TrustInv, SaidYes, BothYes
  <2> QED
    BY <2>1, TypeStep, ControlStep, YesStep, TrustStep
<1>3. TrustInv => TrustNeedsYes
  BY DEF TrustInv, TrustNeedsYes, BothYes, SaidYes
<1> QED
  BY <1>1, <1>2, <1>3, PTL DEF Spec

-----------------------------------------------------------------------------
(* Who is transferred to.                                                  *)

\* What a transfer takes: with one receiver this is its own yes, with several it may
\* be somebody else's, which is what the model checker shows of two.
Consent(r) == sAns[r] = "trusted" \/ (sAns[r] = "yes" /\ SaidYes(rAns))

ConsentInv ==
    /\ pc[Sender] \in {"load_trust", "truncate_trust", "write_trust", "save"} \cup Working
         => Consent(cur)
    /\ \A r \in Receivers : result[r] # "none" => Consent(r)

LEMMA ConsentStep ==
    ASSUME TypeInv, ControlInv, YesInv, ConsentInv, Next
    PROVE  ConsentInv'
<1>0. /\ TypeOK /\ CurInv /\ Sender \in Procs /\ Receivers \subseteq Procs \ {Sender}
  BY Names DEF TypeInv
<1> DEFINE Due == {"load_trust", "truncate_trust", "write_trust", "save"} \cup Working
<1>1. ASSUME NEW r \in Receivers, Consent(r)
      PROVE  Consent(r)'
  BY <1>1, SenderAnswersOnce, YesStays DEF Consent
<1>2. ASSUME NEW r \in Receivers, result'[r] # "none"
      PROVE  Consent(r)'
  BY <1>1, <1>2, TransferredOnce DEF ConsentInv, Working
<1>3. ASSUME pc'[Sender] \in Due
      PROVE  Consent(cur)'
  <2>1. CASE pc'[Sender] = pc[Sender]
    <3>1. cur \in Receivers /\ pc[Sender] \notin {"poll", "write_history"}
      BY <1>0, <1>3, <2>1 DEF CurInv, Serving, Agreeing, Working, Reporting
    <3>2. cur' = cur
      BY <1>0, <1>3, <2>1, <3>1, Steps DEF AppendHistory, LoadHistory, TruncateHistory,
         WriteHistory, ReadOffer, TruncateClaim, WriteClaim, ReadState, OwnStep, Setup,
         Prepare, RefusePath, SaveFirst, WriteOffer, TruncateFirst, Announce, ClearClaim,
         ClearYes, PollClaim, TakeClaim, Progress, ProgressWritten, TransferOk,
         TransferErr, SaveManifest, Report, Reported, Confirm, CheckTrust, Approve, Refuse,
         SayYes, SeeYes, LoadTrust, TruncateTrust, WriteTrust, UserStep, Kill,
         CleanSessions, CleanOffers, CleanManifests, CleanHistory, Goto
    <3> QED
      BY <1>1, <1>3, <2>1, <3>1, <3>2 DEF ConsentInv
  <2>2. CASE pc'[Sender] # pc[Sender]
    <3>1. \/ CheckTrust(Sender) \/ SeeYes(Sender) \/ LoadTrust(Sender)
          \/ TruncateTrust(Sender) \/ WriteTrust(Sender)
          \/ Progress \/ ProgressWritten \/ TransferOk
      <4>1. ASSUME NEW p \in Procs \ {Sender}, Confirm(p) \/ AppendHistory(p)
            PROVE  FALSE
        BY <1>0, <2>2, <4>1 DEF Confirm, CheckTrust, Approve, Refuse, SayYes, SeeYes,
           LoadTrust, TruncateTrust, WriteTrust, AppendHistory, LoadHistory,
           TruncateHistory, WriteHistory, Goto, Abort, TypeOK
      <4>2. ASSUME NEW q \in Receivers,
                   ReadOffer(q) \/ TruncateClaim(q) \/ WriteClaim(q) \/ ReadState(q)
            PROVE  FALSE
        BY <1>0, <2>2, <4>2 DEF ReadOffer, TruncateClaim, WriteClaim, ReadState, Goto,
           Abort, TypeOK
      <4>3. ~UserStep
        BY <1>0, <1>3, <2>2 DEF UserStep, Kill, CleanSessions, CleanOffers,
           CleanManifests, CleanHistory, TypeOK, Working
      <4>4. ~AppendHistory(Sender) /\ ~Approve(Sender) /\ ~Refuse(Sender) /\ ~SayYes(Sender)
        BY <1>0, <1>3 DEF AppendHistory, LoadHistory, TruncateHistory, WriteHistory,
           Approve, Refuse, SayYes, Goto, Abort, AfterRefusal, TypeOK, Working
      <4>5. OwnStep => Progress \/ ProgressWritten \/ TransferOk
        BY <1>0, <1>3 DEF OwnStep, Setup, Prepare, RefusePath, SaveFirst,
           WriteOffer, TruncateFirst, Announce, ClearClaim, ClearYes, PollClaim, TakeClaim,
           TransferErr, SaveManifest, Report, Reported, Goto, Abort, TypeOK, Working
      <4> QED
        BY <4>1, <4>2, <4>3, <4>4, <4>5, Steps DEF Confirm
    <3>2. cur' = cur
      BY <3>1 DEF CheckTrust, SeeYes, LoadTrust, TruncateTrust, WriteTrust, Progress,
         ProgressWritten, TransferOk
    <3>3. cur \in Receivers
      BY <1>0, <3>1 DEF CheckTrust, SeeYes, LoadTrust, TruncateTrust, WriteTrust, Progress,
         ProgressWritten, TransferOk, Goto, CurInv, Serving, Asking, Agreeing, Working
    <3>4. CASE CheckTrust(Sender)
      BY <1>0, <1>3, <3>2, <3>3, <3>4 DEF CheckTrust, Abort, Answer, TypeOK, Consent,
         Working
    <3>5. CASE SeeYes(Sender)
      <4>1. sAns[cur] = "yes" /\ SaidYes(rAns)
        BY <3>5 DEF SeeYes, Goto, OtherYes, Other, Role, YesInv, ControlInv, SenderInv,
           Agreeing
      <4> QED
        BY <1>1, <3>2, <3>3, <4>1 DEF Consent
    <3>6. CASE pc[Sender] \in Due
      BY <1>1, <3>2, <3>3, <3>6 DEF ConsentInv
    <3> QED
      BY <3>1, <3>4, <3>5, <3>6 DEF LoadTrust, TruncateTrust, WriteTrust, Progress,
         ProgressWritten, TransferOk, Goto, Working
  <2> QED
    BY <2>1, <2>2
<1> QED
  BY <1>2, <1>3 DEF ConsentInv

LEMMA ConsentInit ==
    ASSUME Init
    PROVE  YesInv /\ ConsentInv
<1>1. pc[Sender] = "prepare" /\ \A p \in Procs : pc[p] # "load_trust"
  BY Names DEF Init
<1>2. \A r \in Receivers : result[r] = "none"
  BY DEF Init
<1> QED
  BY <1>1, <1>2 DEF Init, YesInv, ConsentInv, Working, Roles

LEMMA ConsentHolds ==
    ASSUME TypeInv, ControlInv, YesInv, ConsentInv, [Next]_vars
    PROVE  YesInv' /\ ConsentInv'
<1>1. CASE UNCHANGED vars
  BY <1>1 DEF vars, answers, loaded, session, places, YesInv, ConsentInv, Consent,
     SaidYes, BothYes
<1>2. CASE Next
  BY <1>2, YesStep, ConsentStep
<1> QED
  BY <1>1, <1>2

\* One sender and one receiver, as the README's walk-through has them: a transfer
\* starts only for a receiver the sender trusted, or after both have typed yes, for
\* any number of progress reports, kills and removals of files in between.
THEOREM TransferTakesYes ==
    ASSUME \A r1, r2 \in Receivers : r1 = r2
    PROVE  Spec => []TransferNeedsBothYes
<1>1. Init => TypeInv /\ ControlInv /\ YesInv /\ ConsentInv
  BY TypeInit, ControlInit, ConsentInit
<1>2. TypeInv /\ ControlInv /\ YesInv /\ ConsentInv /\ [Next]_vars
        => (TypeInv /\ ControlInv /\ YesInv /\ ConsentInv)'
  BY TypeStep, ControlStep, ConsentHolds
<1>3. TypeInv /\ ConsentInv => TransferNeedsBothYes
  BY DEF ConsentInv, Consent, SaidYes, Working, TransferNeedsBothYes
<1> QED
  BY <1>1, <1>2, <1>3, PTL DEF Spec

-----------------------------------------------------------------------------
(* The session implements Handshake.                                       *)

\* A step of the sender tells nobody anything.
LEMMA SenderTellsNobody ==
    ASSUME TypeInv, ControlInv, Next,
           Confirm(Sender) \/ AppendHistory(Sender) \/ OwnStep \/ Kill(Sender)
    PROVE  UNCHANGED <<rAns, Believed>>
<1>0. TypeOK /\ Sender \in Procs /\ Receivers \subseteq Procs \ {Sender}
  BY Names DEF TypeInv
<1>1. rAns' = rAns
  BY DEF Confirm, CheckTrust, Approve, Refuse, SayYes, SeeYes, LoadTrust, TruncateTrust,
     WriteTrust, Answer, AppendHistory, LoadHistory, TruncateHistory, WriteHistory, OwnStep,
     Setup, Prepare, RefusePath, SaveFirst, WriteOffer, TruncateFirst, Announce, ClearClaim,
     ClearYes, PollClaim, TakeClaim, Progress, ProgressWritten, TransferOk, TransferErr,
     SaveManifest, Report, Reported, Kill, answers
<1>2. CASE Announce
  <2>1. \A r \in Receivers : pc[r] = "no_code" /\ pc'[r] = "start"
    BY <1>0, <1>2 DEF Announce, ControlInv, SetupInv, SetupAt
  <2>2. \A r \in Receivers : Belief(r)' = Belief(r)
    BY <2>1 DEF Belief, Told
  <2> QED
    BY <1>1, <2>2 DEF Believed
<1>3. CASE ~Announce
  <2>1. \A r \in Receivers : pc'[r] = pc[r]
    BY <1>0, <1>3 DEF Confirm, CheckTrust, Approve, Refuse, SayYes, SeeYes, LoadTrust,
       TruncateTrust, WriteTrust, AppendHistory, LoadHistory, TruncateHistory, WriteHistory,
       OwnStep, Setup, Prepare, RefusePath, SaveFirst, WriteOffer, TruncateFirst,
       ClearClaim, ClearYes, PollClaim, TakeClaim, Progress, ProgressWritten, TransferOk,
       TransferErr, SaveManifest, Report, Reported, Kill, Goto, Abort, TypeOK
  <2>2. \A r \in Receivers : Belief(r)' = Belief(r)
    BY <1>1, <2>1 DEF Belief, Told
  <2> QED
    BY <1>1, <2>2 DEF Believed
<1> QED
  BY <1>2, <1>3

\* What a step of a receiver may tell it.
Learns(r) ==
    \/ Belief(r)' = Belief(r)
    \/ /\ rAns' = rAns
       /\ \/ /\ Belief(r) \in {"nothing", "success"} /\ Belief(r)' = "gone"
          \/ /\ Belief(r) = "nothing" /\ Belief(r)' = "success"
             /\ result[r] = "ok" /\ rAns[r] \in {"trusted", "yes"}
          \/ /\ Belief(r) = "nothing" /\ Belief(r)' = "failure"
             /\ result[r] = "failed" \/ sAns[r] = "no"

LEMMA ReceiverLearns ==
    ASSUME TypeInv, ControlInv, TruthInv, Next, NEW r \in Receivers,
           \/ Confirm(r) \/ AppendHistory(r) \/ Kill(r)
           \/ ReadOffer(r) \/ TruncateClaim(r) \/ WriteClaim(r) \/ ReadState(r)
    PROVE  /\ UNCHANGED <<sAns, result>>
           /\ \A q \in Receivers \ {r} : rAns'[q] = rAns[q] /\ Belief(q)' = Belief(q)
           /\ Learns(r)
<1>0. TypeOK /\ r \in Procs /\ r # Sender /\ Receivers \subseteq Procs
  BY Names DEF TypeInv
<1>1. UNCHANGED <<sAns, result>>
  BY <1>0 DEF Confirm, CheckTrust, Approve, Refuse, SayYes, SeeYes, LoadTrust,
     TruncateTrust, WriteTrust, Answer, AppendHistory, LoadHistory, TruncateHistory,
     WriteHistory, Kill, ReadOffer, TruncateClaim, WriteClaim, ReadState, answers
<1>2. \A q \in Receivers \ {r} : rAns'[q] = rAns[q] /\ pc'[q] = pc[q]
  BY <1>0 DEF Confirm, CheckTrust, Approve, Refuse, SayYes, SeeYes, LoadTrust,
     TruncateTrust, WriteTrust, Answer, AppendHistory, LoadHistory, TruncateHistory,
     WriteHistory, Kill, ReadOffer, TruncateClaim, WriteClaim, ReadState, Goto, Abort,
     answers, TypeOK
<1>3. \A q \in Receivers \ {r} : Belief(q)' = Belief(q)
  BY <1>2 DEF Belief, Told
<1>4. Learns(r)
  <2>1. CASE CheckTrust(r) \/ Approve(r) \/ Refuse(r)
    <3>1. rAns[r] = "none" /\ pc[r] \in {"check", "prompt"}
      BY <2>1 DEF CheckTrust, Approve, Refuse, Goto, ControlInv, ReceiverInv
    <3> QED
      BY <1>0, <2>1, <3>1 DEF CheckTrust, Approve, Refuse, Goto, Abort, Answer, answers,
         Confirmed, AfterRefusal, Learns, Belief, Told, TypeOK
  <2>2. CASE SayYes(r) \/ SeeYes(r) \/ LoadTrust(r) \/ TruncateTrust(r) \/ WriteTrust(r)
    BY <1>0, <2>2 DEF SayYes, SeeYes, LoadTrust, TruncateTrust, WriteTrust, Goto, Abort,
       answers, Confirmed, Learns, Belief, Told, TypeOK
  <2>3. CASE AppendHistory(r)
    BY <1>0, <2>3 DEF AppendHistory, LoadHistory, TruncateHistory, WriteHistory, Goto,
       Abort, answers, Learns, Belief, Told, TypeOK
  <2>4. CASE Kill(r)
    BY <1>0, <2>4 DEF Kill, Ended, answers, Learns, Belief, Told, TypeOK
  <2>5. CASE ReadOffer(r) \/ TruncateClaim(r) \/ WriteClaim(r)
    BY <1>0, <2>5 DEF ReadOffer, TruncateClaim, WriteClaim, Goto, answers, Learns, Belief,
       Told, TypeOK
  <2>6. CASE ReadState(r)
    <3>1. rAns[r] \in {"trusted", "yes"} /\ pc[r] = "wait" /\ rAns' = rAns
      BY <2>6 DEF ReadState, Goto, answers, ControlInv, ReceiverInv
    <3>2. OwnReport(r) => /\ state.body.status = "completed" => result[r] = "ok"
                          /\ state.body.status = "failed" =>
                                result[r] = "failed" \/ sAns[r] = "no"
      BY DEF OwnReport, TruthInv, StateInv
    <3> QED
      BY <1>0, <2>6, <3>1, <3>2 DEF ReadState, Goto, Abort, Learns, Belief, Told, TypeOK
  <2> QED
    BY <2>1, <2>2, <2>3, <2>4, <2>5, <2>6 DEF Confirm
<1> QED
  BY <1>1, <1>2, <1>3, <1>4

LEMMA Implements ==
    ASSUME TypeInv, ControlInv, ConsentInv, TruthInv, [Next]_vars
    PROVE  [SharedAgreement!Next]_(SharedAgreement!vars)
<1>0. /\ TypeOK /\ CurInv /\ Sender \in Procs /\ Receivers \subseteq Procs \ {Sender}
      /\ \A p \in Procs : p # Sender => p \in Receivers
  BY Names DEF TypeInv
<1>1. ASSUME UNCHANGED <<sAns, rAns, result, Believed>>
      PROVE  UNCHANGED SharedAgreement!vars
  BY <1>1 DEF SharedAgreement!vars, Believed
<1>2. ASSUME Next, Confirm(Sender) \/ AppendHistory(Sender) \/ OwnStep \/ Kill(Sender)
      PROVE  [SharedAgreement!Next]_(SharedAgreement!vars)
  <2>1. UNCHANGED <<rAns, Believed>>
    BY <1>2, SenderTellsNobody
  <2>2. CASE TransferOk \/ TransferErr
    <3>1. /\ pc[Sender] = "transfer" /\ cur \in Receivers /\ sAns' = sAns
          /\ \E a \in {"ok", "failed"} : result' = [result EXCEPT ![cur] = a]
      BY <1>0, <2>2 DEF TransferOk, TransferErr, Goto, answers, CurInv, Serving, Working
    <3>2. result[cur] = "none" /\ SharedAgreement!Agreed(cur)
      BY <3>1 DEF ControlInv, SenderInv, ConsentInv, Consent, SaidYes, Working,
         SharedAgreement!Agreed
    <3>3. SharedAgreement!Transfer(cur)
      BY <2>1, <3>1, <3>2 DEF SharedAgreement!Transfer, Believed
    <3> QED
      BY <3>1, <3>3 DEF SharedAgreement!Next
  <2>3. CASE Confirm(Sender) /\ sAns' # sAns
    <3>1. /\ result' = result /\ pc[Sender] \in {"check", "prompt"}
          /\ \E a \in SharedAgreement!Answers : sAns' = [sAns EXCEPT ![cur] = a]
      BY <2>3 DEF Confirm, CheckTrust, Approve, Refuse, SayYes, SeeYes, LoadTrust,
         TruncateTrust, WriteTrust, Answer, Goto, answers, SharedAgreement!Answers
    <3>2. cur \in Receivers /\ sAns[cur] = "none"
      BY <1>0, <3>1 DEF CurInv, Serving, Asking, ControlInv, SenderInv
    <3>3. SharedAgreement!SenderAnswers(cur)
      BY <2>1, <3>1, <3>2 DEF SharedAgreement!SenderAnswers, Believed
    <3> QED
      BY <3>2, <3>3 DEF SharedAgreement!Next
  <2>4. CASE ~(TransferOk \/ TransferErr) /\ (Confirm(Sender) => sAns' = sAns)
    <3>1. UNCHANGED <<sAns, result>>
      BY <1>2, <2>4 DEF Confirm, CheckTrust, Approve, Refuse, SayYes, SeeYes, LoadTrust,
         TruncateTrust, WriteTrust, AppendHistory, LoadHistory, TruncateHistory,
         WriteHistory, OwnStep, Setup, Prepare, RefusePath, SaveFirst, WriteOffer,
         TruncateFirst, Announce, ClearClaim, ClearYes, PollClaim, TakeClaim, Progress,
         ProgressWritten, SaveManifest, Report, Reported, Kill, answers
    <3> QED
      BY <1>1, <2>1, <3>1
  <2> QED
    BY <2>2, <2>3, <2>4
<1>3. ASSUME Next, NEW r \in Receivers,
             \/ Confirm(r) \/ AppendHistory(r) \/ Kill(r)
             \/ ReadOffer(r) \/ TruncateClaim(r) \/ WriteClaim(r) \/ ReadState(r)
      PROVE  [SharedAgreement!Next]_(SharedAgreement!vars)
  <2>1. /\ UNCHANGED <<sAns, result>>
        /\ \A q \in Receivers \ {r} : rAns'[q] = rAns[q] /\ Belief(q)' = Belief(q)
        /\ Learns(r)
    BY <1>3, ReceiverLearns
  <2>2. Believed' = [Believed EXCEPT ![r] = Belief(r)'] /\ Believed[r] = Belief(r)
    BY <2>1 DEF Believed
  <2>3. CASE Belief(r)' = Belief(r) /\ rAns' # rAns
    <3>1. /\ pc[r] \in {"check", "prompt"}
          /\ \E a \in SharedAgreement!Answers : rAns' = [rAns EXCEPT ![r] = a]
      BY <1>0, <1>3, <2>3 DEF Confirm, CheckTrust, Approve, Refuse, SayYes, SeeYes,
         LoadTrust, TruncateTrust, WriteTrust, Answer, Goto, answers, SharedAgreement!Answers,
         AppendHistory, LoadHistory, TruncateHistory, WriteHistory, Kill, ReadOffer,
         TruncateClaim, WriteClaim, ReadState
    <3>2. rAns[r] = "none"
      BY <3>1 DEF ControlInv, ReceiverInv
    <3>3. Believed' = Believed
      BY <2>2, <2>3 DEF Believed
    <3>4. SharedAgreement!ReceiverAnswers(r)
      BY <2>1, <3>1, <3>2, <3>3 DEF SharedAgreement!ReceiverAnswers, Believed
    <3> QED
      BY <3>4 DEF SharedAgreement!Next
  <2>4. CASE Belief(r)' = Belief(r) /\ rAns' = rAns
    <3>1. Believed' = Believed
      BY <2>2, <2>4 DEF Believed
    <3> QED
      BY <1>1, <2>1, <2>4, <3>1
  <2>5. CASE Belief(r)' # Belief(r)
    <3>1. SharedAgreement!TellSuccess(r) \/ SharedAgreement!TellFailure(r) \/ SharedAgreement!Leave(r)
      BY <2>1, <2>2, <2>5
         DEF Learns, Believed, SharedAgreement!TellSuccess, SharedAgreement!TellFailure, SharedAgreement!Leave
    <3> QED
      BY <3>1 DEF SharedAgreement!Next
  <2> QED
    BY <2>3, <2>4, <2>5
<1>4. ASSUME CleanSessions \/ CleanOffers \/ CleanManifests \/ CleanHistory
      PROVE  UNCHANGED <<sAns, rAns, result, Believed>>
  BY <1>4 DEF CleanSessions, CleanOffers, CleanManifests, CleanHistory, answers, Believed,
     Belief, Told
<1>5. CASE UNCHANGED vars
  BY <1>1, <1>5 DEF vars, answers, Believed, Belief, Told
<1>6. CASE Next
  BY <1>0, <1>1, <1>2, <1>3, <1>4, <1>6, Steps DEF UserStep
<1> QED
  BY <1>5, <1>6

\* Any number of receivers: each side answers once, a claim is served once, after its
\* sender has answered and some receiver, and its receiver is told once and the truth,
\* whatever the number of reports, kills and removals.
THEOREM ReceiversKeepHandshake == Spec => KeepsSharedHandshake
<1> DEFINE Inv == TypeInv /\ ControlInv /\ YesInv /\ ConsentInv /\ TruthInv
<1>1. Init => Inv
  BY TypeInit, ControlInit, ConsentInit, TruthInit
<1>2. Inv /\ [Next]_vars => Inv'
  BY TypeStep, ControlStep, ConsentHolds, TruthStep
<1>3. Init => SharedAgreement!Init
  <2>1. ASSUME Init
        PROVE  \A r \in Receivers : Belief(r) = "nothing"
    BY <2>1, Names DEF Init, Belief, Told
  <2> QED
    BY <2>1 DEF Init, SharedAgreement!Init, Believed
<1>4. Inv /\ [Next]_vars => [SharedAgreement!Next]_(SharedAgreement!vars)
  BY Implements
<1> QED
  BY <1>1, <1>2, <1>3, <1>4, PTL DEF Spec, KeepsSharedHandshake, SharedAgreement!Spec

\* One receiver: the yes that the sender hears is that of the claim it serves.
THEOREM SessionKeepsHandshake ==
    ASSUME \A r1, r2 \in Receivers : r1 = r2
    PROVE  Spec => KeepsHandshake
<1>1. SharedAgreement!Init => Agreement!Init
  BY DEF SharedAgreement!Init, Agreement!Init
<1>2. [SharedAgreement!Next]_(SharedAgreement!vars) => [Agreement!Next]_(Agreement!vars)
  <2>1. SharedAgreement!Answers = Agreement!Answers
    BY DEF SharedAgreement!Answers, Agreement!Answers
  <2>2. ASSUME NEW c \in Receivers
        PROVE  /\ SharedAgreement!SenderAnswers(c) => Agreement!SenderAnswers(c)
               /\ SharedAgreement!ReceiverAnswers(c) => Agreement!ReceiverAnswers(c)
               /\ SharedAgreement!Transfer(c) => Agreement!Transfer(c)
               /\ SharedAgreement!TellSuccess(c) => Agreement!TellSuccess(c)
               /\ SharedAgreement!TellFailure(c) => Agreement!TellFailure(c)
               /\ SharedAgreement!Leave(c) => Agreement!Leave(c)
    <3>1. SharedAgreement!Agreed(c) => Agreement!Agreed(c)
      BY DEF SharedAgreement!Agreed, Agreement!Agreed
    <3> QED
      BY <2>1, <3>1
         DEF SharedAgreement!SenderAnswers, SharedAgreement!ReceiverAnswers,
             SharedAgreement!Transfer, SharedAgreement!TellSuccess,
             SharedAgreement!TellFailure, SharedAgreement!Leave,
             Agreement!SenderAnswers, Agreement!ReceiverAnswers, Agreement!Transfer,
             Agreement!TellSuccess, Agreement!TellFailure, Agreement!Leave
  <2>3. SharedAgreement!Next => Agreement!Next
    BY <2>2 DEF SharedAgreement!Next, Agreement!Next
  <2> QED
    BY <2>3 DEF SharedAgreement!vars, Agreement!vars
<1> QED
  BY <1>1, <1>2, ReceiversKeepHandshake, PTL
     DEF KeepsSharedHandshake, KeepsHandshake, SharedAgreement!Spec, Agreement!Spec
=============================================================================
