----------------------------- MODULE AppProofs -----------------------------
(***************************************************************************)
(* Theorems about App for any number of threads, peers, calls and events.  *)
(***************************************************************************)
EXTENDS App, FiniteSetTheorems, TLAPS

-----------------------------------------------------------------------------
(* Type correctness.                                                       *)

\* What a call works on fits the place it is at.
ArgInv ==
    \A t \in Threads :
        /\ pc[t] \in {"load_trust", "truncate_trust", "write_trust", "push", "clock", "insert"}
             => arg[t] \in Lan
        /\ pc[t] \in {"truncate_identity", "write_identity"} => mine[t] \in 1..made
        /\ pc[t] = "insert" => stamp[t].sent_at \in Ids

TypeInv ==
    /\ TypeOK /\ ArgInv
    /\ Parses(identity) => identity.body \in 1..made
    /\ outcome \in [Threads -> Threads \cup {Nobody}]
    /\ overtaken \in [Threads -> BOOLEAN]

LEMMA FileType ==
    ASSUME NEW B, NEW W, NEW f \in SharedFiles(B, W), NEW p \in W, NEW v \in B
    PROVE  /\ Absent \in SharedFiles(B, W)
           /\ Truncated(f, p) \in SharedFiles(B, W)
           /\ Written(f, p, v) \subseteq SharedFiles(B, W)
  BY DEF SharedFiles, Absent, Truncated, Written

LEMMA BodyType ==
    ASSUME NEW B, NEW W, NEW f \in SharedFiles(B, W), Parses(f)
    PROVE  f.body \in B
  BY DEF SharedFiles, Parses

\* What is in a file after a removal, a truncation or a write.
LEMMA Contents ==
    ASSUME NEW f, NEW p, NEW v
    PROVE  /\ ~Exists(Absent) /\ ~Parses(Absent) /\ Absent.body = Nobody
           /\ ~Parses(Truncated(f, p)) /\ Truncated(f, p).body = Nobody
           /\ Exists(Truncated(f, p)) /\ p \in Truncated(f, p).open
           /\ \A g \in Written(f, p, v) :
                 /\ g = f \/ g.body \in {v, Nobody}
                 /\ Parses(g) => g = f \/ g.body = v
                 /\ f.is = "empty" /\ p \in f.open => Parses(g) /\ g.body = v
                 /\ Exists(f) => Exists(g)
  BY DEF Absent, Truncated, Written, Parses, Exists

LEMMA TypeInit ==
    ASSUME Init
    PROVE  TypeInv
<1>1. /\ pc \in [Threads -> At] /\ \A t \in Threads : pc[t] = "idle"
  BY DEF Init, Idle, At
<1>2. /\ out \in [Threads -> Threads \cup {Nobody}]
      /\ outcome \in [Threads -> Threads \cup {Nobody}]
      /\ arg \in [Threads -> Lan \cup Ids \cup {Nobody}]
      /\ mine \in [Threads -> Nat] /\ store \in [Threads -> SUBSET Lan]
      /\ overtaken \in [Threads -> BOOLEAN]
      /\ told \in [Threads -> SUBSET (Threads \cup {Nobody})]
  BY DEF Init
<1>3. stamp \in [Threads -> [sent_at : Nat, after : SUBSET Ids]]
  BY DEF Init, NoStamp
<1>4. /\ trust \in SharedFiles(SUBSET Lan, Threads)
      /\ identity.body = Nobody /\ ~Parses(identity)
  BY DEF Init, Absent, SharedFiles, Parses
<1>5. /\ peers \subseteq Lan \cup Ids /\ last_error \in Threads \cup {Nobody}
      /\ now \in Ids /\ made \in Nat /\ held \subseteq 1..made /\ paired \subseteq Lan
      /\ tasks = <<>> /\ table = <<>>
  BY DEF Init, Ids
<1>6. budget \in [Calls \cup Events -> Nat]
  BY AppAssumption DEF AppAssumption, Init
<1>7. ArgInv
  BY <1>1 DEF ArgInv
<1> QED
  BY <1>1, <1>2, <1>3, <1>4, <1>5, <1>6, <1>7 DEF TypeInv, TypeOK

LEMMA TypeCall ==
    ASSUME TypeInv, NEW t \in Threads, CallAny(t)
    PROVE  TypeInv'
<1>1. PICK call \in Calls, to \in {"check_identity", "load_trust", "push", "clock", "accept",
                                   "list", "read_error"},
           a \in Lan \cup Ids \cup {Nobody} :
          /\ Call(t, call, to, a)
          /\ to \in {"load_trust", "push", "clock"} => a \in Lan
  <2>1. \A i \in 1..(Len(tasks) + 1) : i \in Ids
    BY DEF TypeInv, TypeOK, Ids
  <2> QED
    BY <2>1 DEF CallAny, Calls
<1>2. /\ pc' = [pc EXCEPT ![t] = to] /\ arg' = [arg EXCEPT ![t] = a] /\ to \in At
      /\ UNCHANGED <<out, mine, store, stamp, peers, tasks, last_error, disk, now, history>>
  BY <1>1 DEF Call, ErrorKept, At
<1>3. budget' \in [Calls \cup Events -> Nat]
  <2>1. budget[call] \in Nat /\ budget[call] > 0 /\ budget' = [budget EXCEPT ![call] = @ - 1]
    BY <1>1 DEF Call, Spend, TypeInv, TypeOK
  <2>2. budget[call] - 1 \in Nat
    BY <2>1
  <2> QED
    BY <2>1, <2>2 DEF TypeInv, TypeOK
<1>4. ArgInv'
  BY <1>1, <1>2 DEF TypeInv, TypeOK, ArgInv, history, identities
<1> QED
  BY <1>2, <1>3, <1>4
     DEF TypeInv, TypeOK, disk, history, identities, pairings, reported

LEMMA TypeDiscover ==
    ASSUME TypeInv, NEW t \in Threads,
           \/ CheckIdentity(t) \/ TruncateIdentity(t) \/ WriteIdentity(t)
           \/ LoadIdentity(t) \/ StorePeers(t)
    PROVE  TypeInv'
<1>0. /\ TypeOK /\ ArgInv /\ made \in Nat /\ made + 1 \in 1..(made + 1)
      /\ \A n \in 1..made : n \in Nat /\ n \in Ids /\ n \in 1..(made + 1)
  BY DEF TypeInv, TypeOK, Ids
<1>1. pc' \in [Threads -> At] /\ out' \in [Threads -> Threads \cup {Nobody}]
  <2>1. pc \in [Threads -> At] /\ out \in [Threads -> Threads \cup {Nobody}]
    BY <1>0 DEF TypeOK
  <2>2. /\ \E to \in At : pc' = [pc EXCEPT ![t] = to]
        /\ \E e \in Threads : out' \in {out, [out EXCEPT ![t] = e]}
    BY DEF CheckIdentity, TruncateIdentity, WriteIdentity, LoadIdentity, StorePeers,
       RefuseFile, EndsBadly, EndsWell, Goto, At
  <2> QED
    BY <2>1, <2>2
<1>2. /\ made' \in Nat /\ 1..made \subseteq 1..made'
      /\ mine' \in [Threads -> Nat]
  <2>1. made' = made \/ made' = made + 1
    BY DEF CheckIdentity, TruncateIdentity, WriteIdentity, LoadIdentity, StorePeers,
       RefuseFile, history, identities
  <2>2. \/ mine' = mine
        \/ \E n \in Nat : mine' = [mine EXCEPT ![t] = n]
    BY <1>0 DEF CheckIdentity, TruncateIdentity, WriteIdentity, LoadIdentity, StorePeers,
       RefuseFile, thread, TypeInv
  <2>3. made' \in Nat /\ 1..made \subseteq 1..made'
    BY <1>0, <2>1
  <2>4. mine' \in [Threads -> Nat]
    BY <1>0, <2>2 DEF TypeOK
  <2> QED
    BY <2>3, <2>4
<1>3. held' \subseteq 1..made'
  <2>1. held \subseteq 1..made
    BY <1>0 DEF TypeOK
  <2>2. \/ held' = held \/ (WriteIdentity(t) /\ held' = held \cup {mine[t]})
        \/ (Parses(identity) /\ held' = held \cup {identity.body})
    BY DEF CheckIdentity, TruncateIdentity, WriteIdentity, LoadIdentity, StorePeers,
       RefuseFile, history, identities
  <2>3. WriteIdentity(t) => mine[t] \in 1..made
    BY <1>0 DEF WriteIdentity, Goto, ArgInv
  <2>4. Parses(identity) => identity.body \in 1..made
    BY DEF TypeInv
  <2> QED
    BY <1>2, <2>1, <2>2, <2>3, <2>4
<1>4. /\ identity'.body \in 1..made' \cup {Nobody}
      /\ Parses(identity') => identity'.body \in 1..made'
  <2>1. CASE identity' = identity
    BY <1>2, <2>1 DEF TypeInv, TypeOK
  <2>2. CASE TruncateIdentity(t)
    BY <2>2, Contents DEF TruncateIdentity
  <2>3. CASE WriteIdentity(t)
    <3>1. mine[t] \in 1..made /\ identity' \in Written(identity, t, mine[t])
      BY <2>3 DEF WriteIdentity, Goto, TypeInv, ArgInv
    <3>2. identity' = identity \/ identity'.body \in {mine[t], Nobody}
      BY <3>1, Contents
    <3>3. Parses(identity') => identity' = identity \/ identity'.body = mine[t]
      BY <3>1, Contents
    <3>4. /\ identity.body \in 1..made \cup {Nobody}
          /\ Parses(identity) => identity.body \in 1..made
      BY DEF TypeInv, TypeOK
    <3> QED
      BY <1>2, <3>1, <3>2, <3>3, <3>4
  <2> QED
    BY <2>1, <2>2, <2>3 DEF CheckIdentity, LoadIdentity, StorePeers, disk
<1>5. peers' \subseteq Lan \cup Ids
  BY <1>0 DEF CheckIdentity, TruncateIdentity, WriteIdentity, LoadIdentity, StorePeers,
     runtime, TypeOK
<1>6. UNCHANGED <<arg, store, stamp, tasks, last_error, trust, table, now, budget, paired,
                  outcome, overtaken, told>>
  BY DEF CheckIdentity, TruncateIdentity, WriteIdentity, LoadIdentity, StorePeers, thread,
     runtime, disk, history, pairings, reported
<1>7. ArgInv'
  <2>1. ASSUME NEW u \in Threads
        PROVE  /\ pc'[u] \in {"load_trust", "truncate_trust", "write_trust", "push", "clock",
                              "insert"} => pc'[u] = pc[u]
               /\ pc'[u] \in {"truncate_identity", "write_identity"} => mine'[u] \in 1..made'
    <3>1. /\ pc \in [Threads -> At] /\ mine \in [Threads -> Nat]
          /\ pc[u] \in {"truncate_identity", "write_identity"} => mine[u] \in 1..made
      BY <1>0 DEF TypeOK, ArgInv
    <3>2. CASE CheckIdentity(t) \/ LoadIdentity(t)
      <4>1. \/ /\ pc' = [pc EXCEPT ![t] = "truncate_identity"]
               /\ mine' = [mine EXCEPT ![t] = made + 1] /\ made' = made + 1
            \/ /\ \E to \in {"load_identity", "listen", "finish"} : pc' = [pc EXCEPT ![t] = to]
               /\ mine' = mine \/ \E n : mine' = [mine EXCEPT ![t] = n]
        BY <3>2 DEF CheckIdentity, LoadIdentity, RefuseFile, EndsBadly, Goto
      <4> QED
        BY <1>0, <1>2, <3>1, <4>1
    <3>3. CASE TruncateIdentity(t) \/ WriteIdentity(t) \/ StorePeers(t)
      <4>1. /\ UNCHANGED <<mine, made>>
            /\ \/ pc[t] = "truncate_identity" /\ pc' = [pc EXCEPT ![t] = "write_identity"]
               \/ \E to \in {"listen", "finish"} : pc' = [pc EXCEPT ![t] = to]
        BY <3>3 DEF TruncateIdentity, WriteIdentity, StorePeers, EndsWell, Goto, thread,
           history, identities
      <4> QED
        BY <3>1, <4>1
    <3> QED
      BY <3>2, <3>3
  <2> QED
    BY <1>6, <2>1 DEF TypeInv, ArgInv
<1> QED
  BY <1>1, <1>2, <1>3, <1>4, <1>5, <1>6, <1>7 DEF TypeInv, TypeOK

LEMMA TypePair ==
    ASSUME TypeInv, NEW t \in Threads,
           LoadTrust(t) \/ TruncateTrust(t) \/ WriteTrust(t)
    PROVE  TypeInv'
<1>0. TypeOK /\ ArgInv /\ arg[t] \in Lan /\ store[t] \in SUBSET Lan
  BY DEF TypeInv, TypeOK, ArgInv, LoadTrust, TruncateTrust, WriteTrust, Goto
<1>1. pc' \in [Threads -> At] /\ out' \in [Threads -> Threads \cup {Nobody}]
  <2>1. pc \in [Threads -> At] /\ out \in [Threads -> Threads \cup {Nobody}]
    BY <1>0 DEF TypeOK
  <2>2. /\ \E to \in At : pc' = [pc EXCEPT ![t] = to]
        /\ \E e \in Threads : out' \in {out, [out EXCEPT ![t] = e]}
    BY DEF LoadTrust, TruncateTrust, WriteTrust, EndsBadly, EndsWell, Goto, At
  <2> QED
    BY <2>1, <2>2
<1>2. store' \in [Threads -> SUBSET Lan]
  <2>1. Parses(trust) => trust.body \in SUBSET Lan
    BY <1>0, BodyType DEF TypeOK
  <2> QED
    BY <1>0, <2>1 DEF LoadTrust, TruncateTrust, WriteTrust, ItsPeer, StoreOnDisk, thread,
       TypeOK
<1>3. trust' \in SharedFiles(SUBSET Lan, Threads)
  <2>1. trust \in SharedFiles(SUBSET Lan, Threads)
    BY <1>0 DEF TypeOK
  <2>2. /\ Truncated(trust, t) \in SharedFiles(SUBSET Lan, Threads)
        /\ Written(trust, t, store[t]) \subseteq SharedFiles(SUBSET Lan, Threads)
    BY <1>0, <2>1, FileType
  <2> QED
    BY <2>1, <2>2 DEF LoadTrust, TruncateTrust, WriteTrust, disk
<1>4. paired' \subseteq Lan
  BY <1>0 DEF LoadTrust, TruncateTrust, WriteTrust, history, pairings, TypeOK
<1>5. UNCHANGED <<arg, mine, stamp, peers, tasks, last_error, identity, table, now, budget,
                  made, held, outcome, overtaken, told>>
  BY DEF LoadTrust, TruncateTrust, WriteTrust, thread, runtime, disk, history, identities,
     reported
<1>6. ArgInv'
  BY <1>0, <1>5 DEF LoadTrust, TruncateTrust, WriteTrust, EndsBadly, EndsWell, Goto, TypeOK,
     ArgInv
<1> QED
  BY <1>1, <1>2, <1>3, <1>4, <1>5, <1>6 DEF TypeInv, TypeOK

LEMMA TypeTask ==
    ASSUME TypeInv, NEW t \in Threads, PushTask(t) \/ AcceptTask(t) \/ Read(t) \/ ReadError(t)
    PROVE  TypeInv'
<1>0. TypeOK /\ ArgInv
  BY DEF TypeInv
<1>1. pc' \in [Threads -> At] /\ out' \in [Threads -> Threads \cup {Nobody}]
  BY <1>0 DEF PushTask, AcceptTask, Read, ReadError, EndsBadly, EndsWell, TypeOK, At
<1>2. tasks' \in Seq([peer : Lan, status : {"awaiting_accept", "pending"}])
  <2> DEFINE Task == [peer : Lan, status : {"awaiting_accept", "pending"}]
  <2> SUFFICES tasks' \in Seq(Task)
    OBVIOUS
  <2>1. tasks \in Seq(Task)
    BY <1>0 DEF TypeOK
  <2>2. \A x \in Task : [x EXCEPT !.status = "pending"] \in Task
    OBVIOUS
  <2>3. PushTask(t) => NewSend(arg[t]) \in Task
    BY DEF PushTask, TypeInv, ArgInv, NewSend
  <2> HIDE DEF Task
  <2>4. CASE PushTask(t)
    <3>1. NewSend(arg[t]) \in Task
      BY <2>4, <2>3
    <3>2. tasks' = Append(tasks, NewSend(arg[t]))
      BY <2>4 DEF PushTask
    <3> QED
      BY <2>1, <3>1, <3>2
  <2>5. CASE AcceptTask(t) /\ arg[t] \in DOMAIN tasks
    <3>1. tasks' = [tasks EXCEPT ![arg[t]] = [tasks[arg[t]] EXCEPT !.status = "pending"]]
      BY <2>5 DEF AcceptTask
    <3>2. tasks[arg[t]] \in Task
      BY <2>1, <2>5
    <3> QED
      BY <2>1, <2>2, <2>5, <3>1, <3>2
  <2>6. CASE tasks' = tasks
    BY <2>1, <2>6
  <2> QED
    BY <2>4, <2>5, <2>6 DEF PushTask, AcceptTask, Read, ReadError, runtime
<1>3. /\ UNCHANGED <<thread, peers, last_error, disk, now, budget, identities, pairings,
                     outcome, overtaken>>
      /\ told' \in [Threads -> SUBSET (Threads \cup {Nobody})]
  BY <1>0 DEF PushTask, AcceptTask, Read, ReadError, runtime, history, reported, TypeOK
<1>4. ArgInv'
  BY <1>0, <1>3 DEF PushTask, AcceptTask, Read, ReadError, EndsBadly, EndsWell, TypeOK, ArgInv,
     thread, identities
<1> QED
  BY <1>1, <1>2, <1>3, <1>4
     DEF TypeInv, TypeOK, thread, disk, identities, pairings

LEMMA TypeChat ==
    ASSUME TypeInv, NEW t \in Threads, ReadClock(t) \/ Insert(t)
    PROVE  TypeInv'
<1>0. TypeOK /\ ArgInv
  BY DEF TypeInv
<1>1. pc' \in [Threads -> At] /\ out' \in [Threads -> Threads \cup {Nobody}]
  BY <1>0 DEF ReadClock, Insert, EndsWell, Goto, TypeOK, At
<1>2. DOMAIN table \subseteq Ids /\ now \in Nat
  BY <1>0 DEF TypeOK, Ids
<1>3. stamp' \in [Threads -> [sent_at : Nat, after : SUBSET Ids]]
  <2> DEFINE Stamp == [sent_at : Nat, after : SUBSET Ids]
  <2>1. stamp \in [Threads -> Stamp]
    BY <1>0 DEF TypeOK
  <2>2. [sent_at |-> now, after |-> DOMAIN table] \in Stamp
    BY <1>2
  <2> HIDE DEF Stamp
  <2>3. stamp' \in [Threads -> Stamp]
    BY <2>1, <2>2 DEF ReadClock, Insert, thread
  <2> QED
    BY <2>3 DEF Stamp
<1>4. table' \in Seq([peer : Lan, sent_at : Ids, after : SUBSET Ids])
  <2> DEFINE Row == [peer : Lan, sent_at : Ids, after : SUBSET Ids]
  <2> SUFFICES table' \in Seq(Row)
    OBVIOUS
  <2>1. table \in Seq(Row)
    BY <1>0 DEF TypeOK
  <2>2. Insert(t) =>
          [peer |-> arg[t], sent_at |-> stamp[t].sent_at, after |-> stamp[t].after] \in Row
    BY <1>0 DEF Insert, TypeOK, ArgInv
  <2> HIDE DEF Row
  <2> QED
    BY <2>1, <2>2 DEF Insert, Inserted, ReadClock, disk
<1>5. UNCHANGED <<arg, mine, store, runtime, identity, trust, now, budget, history>>
  BY DEF ReadClock, Insert, thread, disk
<1>6. ArgInv'
  BY <1>0, <1>5 DEF ReadClock, Insert, EndsWell, Goto, thread, TypeOK, ArgInv, history,
     identities
<1> QED
  BY <1>1, <1>3, <1>4, <1>5, <1>6
     DEF TypeInv, TypeOK, runtime, history, identities, pairings, reported

LEMMA SpentType ==
    ASSUME TypeOK, NEW e \in Calls \cup Events, Spend(e)
    PROVE  budget' \in [Calls \cup Events -> Nat]
<1>1. budget[e] \in Nat /\ budget[e] > 0 /\ budget' = [budget EXCEPT ![e] = @ - 1]
  BY DEF TypeOK, Spend
<1>2. budget[e] - 1 \in Nat
  BY <1>1
<1> QED
  BY <1>1, <1>2 DEF TypeOK

\* The end of a call, and of a body.
LEMMA TypeEnd ==
    ASSUME TypeInv, NEW t \in Threads, Finish(t) \/ Fail(t)
    PROVE  TypeInv'
<1>0. TypeOK /\ ArgInv
  BY DEF TypeInv
<1>1. CASE Finish(t)
  <2>1. /\ pc' \in [Threads -> At] /\ out' \in [Threads -> Threads \cup {Nobody}]
        /\ last_error' \in Threads \cup {Nobody}
        /\ outcome' \in [Threads -> Threads \cup {Nobody}]
        /\ overtaken' \in [Threads -> BOOLEAN]
        /\ told' \in [Threads -> SUBSET (Threads \cup {Nobody})]
    BY <1>0, <1>1 DEF Finish, Goto, TypeInv, TypeOK, At
  <2>2. /\ arg' \in [Threads -> Lan \cup Ids \cup {Nobody}]
        /\ mine' \in [Threads -> Nat] /\ store' \in [Threads -> SUBSET Lan]
        /\ stamp' \in [Threads -> [sent_at : Nat, after : SUBSET Ids]]
    BY <1>0, <1>1 DEF Finish, NoStamp, TypeOK
  <2>3. UNCHANGED <<peers, tasks, disk, now, budget, identities, pairings>>
    BY <1>1 DEF Finish
  <2>4. ArgInv'
    BY <1>0, <1>1, <2>3 DEF Finish, Goto, TypeOK, ArgInv, identities
  <2> QED
    BY <2>1, <2>2, <2>3, <2>4, <1>0 DEF TypeInv, TypeOK, disk, identities, pairings
<1>2. CASE Fail(t)
  <2>1. /\ pc' \in [Threads -> At] /\ out' \in [Threads -> Threads \cup {Nobody}]
        /\ UNCHANGED <<thread, runtime, disk, now, identities, paired, reported>>
    BY <1>0, <1>2 DEF Fail, EndsBadly, TypeOK, At
  <2>2. budget' \in [Calls \cup Events -> Nat]
    BY <1>0, <1>2, SpentType DEF Fail, Events
  <2>3. ArgInv'
    BY <1>0, <1>2, <2>1 DEF Fail, EndsBadly, TypeOK, ArgInv, thread, identities
  <2> QED
    BY <2>1, <2>2, <2>3, <1>0
       DEF TypeInv, TypeOK, thread, runtime, disk, identities, reported
<1> QED
  BY <1>1, <1>2

LEMMA TypeEvent ==
    ASSUME TypeInv, Crash \/ Tick \/ SetBack
    PROVE  TypeInv'
<1>0. TypeOK /\ ArgInv
  BY DEF TypeInv
<1>1. budget' \in [Calls \cup Events -> Nat]
  BY <1>0, SpentType DEF Crash, Tick, SetBack, Events
<1>2. CASE Crash
  <2>1. /\ pc' \in [Threads -> At] /\ \A t \in Threads : pc'[t] = "idle"
        /\ out' \in [Threads -> Threads \cup {Nobody}]
        /\ outcome' \in [Threads -> Threads \cup {Nobody}]
        /\ overtaken' \in [Threads -> BOOLEAN]
        /\ told' \in [Threads -> SUBSET (Threads \cup {Nobody})]
        /\ arg' \in [Threads -> Lan \cup Ids \cup {Nobody}]
        /\ mine' \in [Threads -> Nat] /\ store' \in [Threads -> SUBSET Lan]
        /\ stamp' \in [Threads -> [sent_at : Nat, after : SUBSET Ids]]
    BY <1>2 DEF Crash, Idle, At, NoStamp
  <2>2. /\ peers' = {} /\ tasks' = <<>> /\ last_error' = Nobody
        /\ UNCHANGED <<disk, now, identities, paired>>
    BY <1>2 DEF Crash
  <2>3. ArgInv'
    BY <2>1 DEF ArgInv
  <2> QED
    BY <1>0, <1>1, <2>1, <2>2, <2>3 DEF TypeInv, TypeOK, disk, identities
<1>3. CASE Tick \/ SetBack
  <2>1. now' \in Ids
    BY <1>0, <1>3 DEF Tick, SetBack, TypeOK, Ids
  <2>2. UNCHANGED <<pc, out, thread, runtime, disk, identities, pairings, reported>>
    BY <1>3 DEF Tick, SetBack, history
  <2>3. ArgInv'
    BY <1>0, <2>2 DEF ArgInv, thread, identities
  <2> QED
    BY <1>0, <1>1, <2>1, <2>2, <2>3
       DEF TypeInv, TypeOK, thread, runtime, disk, identities, pairings, reported
<1> QED
  BY <1>2, <1>3

LEMMA TypeStep ==
    ASSUME TypeInv, [Next]_vars
    PROVE  TypeInv'
<1>1. CASE UNCHANGED vars
  BY <1>1 DEF vars, thread, runtime, disk, history, identities, pairings, reported, TypeInv,
     TypeOK, ArgInv
<1>2. CASE Next
  BY <1>2, TypeCall, TypeDiscover, TypePair, TypeTask, TypeChat, TypeEnd, TypeEvent
     DEF Next, Body
<1> QED
  BY <1>1, <1>2

\* The shared state and the files of the application hold what its calls put there,
\* for any number of threads, peers, errors and crashes.
THEOREM TypeCorrect == Spec => []TypeOK
<1>1. TypeInv => TypeOK
  BY DEF TypeInv
<1> QED
  BY <1>1, TypeInit, TypeStep, PTL DEF Spec

-----------------------------------------------------------------------------
(* last_error.                                                             *)

\* last_error belongs to the call that ended last: to a thread that has not been
\* overtaken last_error_message tells of its own call, while any number of others run
\* or fail.
THEOREM ErrorIsOwn == Spec => []OwnErrorUntilOvertaken
<1>1. Init => OwnErrorUntilOvertaken
  BY DEF Init, OwnErrorUntilOvertaken
<1>2. TypeInv /\ OwnErrorUntilOvertaken /\ [Next]_vars => OwnErrorUntilOvertaken'
  <2> SUFFICES ASSUME TypeInv, OwnErrorUntilOvertaken, [Next]_vars
               PROVE  OwnErrorUntilOvertaken'
    OBVIOUS
  <2>1. ASSUME NEW t \in Threads, Finish(t)
        PROVE  OwnErrorUntilOvertaken'
    BY <2>1 DEF Finish, OwnErrorUntilOvertaken, TypeInv, TypeOK
  <2>2. CASE Crash
    BY <2>2 DEF Crash, OwnErrorUntilOvertaken
  <2>3. ASSUME NEW t \in Threads, ReadError(t)
        PROVE  OwnErrorUntilOvertaken'
    BY <2>3 DEF ReadError, runtime, OwnErrorUntilOvertaken, TypeInv, TypeOK
  <2>4. ASSUME ~Crash, ~\E t \in Threads : Finish(t) \/ ReadError(t)
        PROVE  UNCHANGED <<last_error, outcome, overtaken, told>>
    <3>1. ASSUME NEW t \in Threads, CallAny(t)
          PROVE  UNCHANGED <<last_error, outcome, overtaken, told>>
      BY <3>1 DEF CallAny, Call, ErrorKept, history, reported
    <3>2. ASSUME NEW t \in Threads,
                 \/ CheckIdentity(t) \/ TruncateIdentity(t) \/ WriteIdentity(t)
                 \/ LoadIdentity(t) \/ StorePeers(t)
          PROVE  UNCHANGED <<last_error, outcome, overtaken, told>>
      BY <3>2 DEF CheckIdentity, TruncateIdentity, WriteIdentity, LoadIdentity, RefuseFile,
         StorePeers, runtime, history, reported
    <3>3. ASSUME NEW t \in Threads,
                 \/ LoadTrust(t) \/ TruncateTrust(t) \/ WriteTrust(t)
                 \/ PushTask(t) \/ AcceptTask(t) \/ Read(t)
                 \/ ReadClock(t) \/ Insert(t)
          PROVE  UNCHANGED <<last_error, outcome, overtaken, told>>
      BY <3>3 DEF LoadTrust, TruncateTrust, WriteTrust, PushTask, AcceptTask, Read,
         ReadClock, Insert, runtime, history, reported
    <3>4. ASSUME \/ \E t \in Threads : Fail(t)
                 \/ Tick \/ SetBack \/ UNCHANGED vars
          PROVE  UNCHANGED <<last_error, outcome, overtaken, told>>
      BY <3>4 DEF Fail, Tick, SetBack, vars, runtime, history, reported
    <3> QED
      BY <2>4, <3>1, <3>2, <3>3, <3>4 DEF Next, Body
  <2> QED
    BY <2>1, <2>2, <2>3, <2>4 DEF OwnErrorUntilOvertaken
<1> QED
  BY <1>1, <1>2, TypeInit, TypeStep, PTL DEF Spec

-----------------------------------------------------------------------------
(* trusted_peers.json.                                                     *)

\* What PairingIsKept says of the file, whoever is pairing.
StoreKept == IF paired = {} THEN ~Exists(trust) ELSE Parses(trust) /\ trust.body = paired

\* One pair_peer at a time, which will write what is kept and its own peer; the
\* file is kept until it truncates it.
PairInv ==
    ~disturbed =>
        /\ \A t, u \in Threads : Pairing(t) /\ Pairing(u) => t = u
        /\ \A t \in Threads : Pairing(t) => store[t] = {arg[t]} \cup paired
        /\ \A t \in Threads : pc[t] = "write_trust" => trust.is = "empty" /\ t \in trust.open
        /\ (\A t \in Threads : pc[t] # "write_trust") => StoreKept

LEMMA PairSteps ==
    ASSUME TypeInv, PairInv, NEW t \in Threads,
           LoadTrust(t) \/ TruncateTrust(t) \/ WriteTrust(t)
    PROVE  PairInv'
<1>0. pc \in [Threads -> At] /\ store \in [Threads -> SUBSET Lan]
  BY DEF TypeInv, TypeOK
<1>1. CASE LoadTrust(t)
  <2> SUFFICES ASSUME ~disturbed'
               PROVE  PairInv'
    BY DEF PairInv
  <2>1. /\ pc[t] = "load_trust" /\ ~Pairing(t)
        /\ \A u \in Threads : ~Pairing(u) /\ pc[u] # "write_trust"
        /\ ~disturbed
    BY <1>1 DEF LoadTrust, EndsBadly, Goto, Pairing
  <2>2. StoreKept /\ StoreOnDisk = paired
    BY <2>1, Contents DEF PairInv, StoreKept, StoreOnDisk, Parses, Exists
  <2>3. /\ pc' = [pc EXCEPT ![t] = "truncate_trust"]
        /\ store' = [store EXCEPT ![t] = {arg[t]} \cup paired]
        /\ UNCHANGED <<arg, trust, paired>>
    BY <1>1, <2>1, <2>2 DEF LoadTrust, Goto, ItsPeer, StoreKept, Parses, Exists, disk
  <2> QED
    BY <1>0, <2>1, <2>2, <2>3 DEF PairInv, Pairing, StoreKept
<1>2. CASE TruncateTrust(t)
  <2>1. /\ pc[t] = "truncate_trust" /\ pc' = [pc EXCEPT ![t] = "write_trust"]
        /\ trust' = Truncated(trust, t)
        /\ UNCHANGED <<arg, store, paired, disturbed>>
    BY <1>2 DEF TruncateTrust, Goto, thread, history, pairings
  <2>2. trust'.is = "empty" /\ t \in trust'.open
    BY <2>1 DEF Truncated
  <2> QED
    BY <1>0, <2>1, <2>2 DEF PairInv, Pairing
<1>3. CASE WriteTrust(t)
  <2>1. /\ pc[t] = "write_trust" /\ pc' = [pc EXCEPT ![t] = "finish"]
        /\ trust' \in Written(trust, t, store[t]) /\ paired' = paired \cup {arg[t]}
        /\ UNCHANGED <<arg, store, disturbed>>
    BY <1>3 DEF WriteTrust, EndsWell, thread
  <2> SUFFICES ASSUME ~disturbed
               PROVE  PairInv'
    BY <2>1 DEF PairInv
  <2>2. /\ store[t] = paired' /\ trust.is = "empty" /\ t \in trust.open
        /\ \A u \in Threads : Pairing(u) => u = t
    BY <2>1 DEF PairInv, Pairing
  <2>3. Parses(trust') /\ trust'.body = paired'
    BY <2>1, <2>2, Contents
  <2> QED
    BY <1>0, <2>1, <2>2, <2>3 DEF PairInv, Pairing, StoreKept
<1> QED
  BY <1>1, <1>2, <1>3

LEMMA PairElsewhere ==
    ASSUME TypeInv, PairInv, [Next]_vars,
           ~\E t \in Threads : LoadTrust(t) \/ TruncateTrust(t) \/ WriteTrust(t)
    PROVE  PairInv'
<1>0. pc \in [Threads -> At]
  BY DEF TypeInv, TypeOK
<1>1. CASE Crash
  <2>1. /\ \A t \in Threads : pc'[t] = "idle"
        /\ disturbed' = (disturbed \/ \E t \in Threads : Pairing(t))
        /\ UNCHANGED <<trust, paired>>
    BY <1>1 DEF Crash, Idle, disk
  <2> QED
    BY <2>1 DEF PairInv, Pairing, StoreKept
<1>2. ASSUME NEW t \in Threads, Fail(t)
      PROVE  PairInv'
  <2>1. /\ pc' = [pc EXCEPT ![t] = "finish"]
        /\ disturbed' = (disturbed \/ pc[t] = "write_trust")
        /\ UNCHANGED <<arg, store, trust, paired>>
    BY <1>2 DEF Fail, EndsBadly, thread, disk
  <2> QED
    BY <1>0, <2>1 DEF PairInv, Pairing, StoreKept
<1>3. ASSUME NEW t \in Threads, Finish(t)
      PROVE  PairInv'
  <2>1. /\ pc[t] = "finish" /\ pc' = [pc EXCEPT ![t] = "idle"]
        /\ arg' = [arg EXCEPT ![t] = Nobody] /\ store' = [store EXCEPT ![t] = {}]
        /\ UNCHANGED <<trust, paired, disturbed>>
    BY <1>3 DEF Finish, Goto, disk, pairings
  <2> QED
    BY <1>0, <2>1 DEF PairInv, Pairing, StoreKept, TypeInv, TypeOK
<1>4. ASSUME NEW t \in Threads, CallAny(t)
      PROVE  PairInv'
  <2>1. PICK to \in {"check_identity", "load_trust", "push", "clock", "accept", "list",
                     "read_error"} :
          /\ pc[t] = "idle" /\ pc' = [pc EXCEPT ![t] = to]
          /\ \E a : arg' = [arg EXCEPT ![t] = a]
          /\ UNCHANGED <<store, trust, paired, disturbed>>
    BY <1>4 DEF CallAny, Call, disk, history, pairings
  <2> QED
    BY <1>0, <2>1 DEF PairInv, Pairing, StoreKept, TypeInv, TypeOK
<1>5. ASSUME NEW t \in Threads, Body(t)
      PROVE  PairInv'
  <2>1. /\ ~Pairing(t) /\ UNCHANGED <<arg, store, trust, paired, disturbed>>
        /\ \E to \in At \ {"truncate_trust", "write_trust"} : pc' = [pc EXCEPT ![t] = to]
    BY <1>5 DEF Body, CheckIdentity, TruncateIdentity, WriteIdentity, LoadIdentity, RefuseFile,
       StorePeers, PushTask, AcceptTask, Read, ReadError, ReadClock, Insert, EndsWell, EndsBadly,
       Goto, Pairing, At, thread, disk, history, pairings
  <2> QED
    BY <1>0, <2>1 DEF PairInv, Pairing, StoreKept
<1>6. CASE Tick \/ SetBack \/ UNCHANGED vars
  <2>1. UNCHANGED <<pc, arg, store, trust, paired, disturbed>>
    BY <1>6 DEF Tick, SetBack, vars, thread, disk, history, pairings
  <2> QED
    BY <2>1 DEF PairInv, Pairing, StoreKept
<1> QED
  BY <1>1, <1>2, <1>3, <1>4, <1>5, <1>6 DEF Next

\* What pair_peer has returned Ok for stays in the store, and nothing else gets into
\* it, whatever fails and whenever the application is killed, as long as no two
\* pair_peer overlap and none is cut off between the truncation and the write.
THEOREM PairedStays == Spec => []PairingIsKept
<1>1. Init => PairInv
  BY Contents DEF Init, Idle, PairInv, Pairing, StoreKept
<1>2. TypeInv /\ PairInv /\ [Next]_vars => PairInv'
  BY PairSteps, PairElsewhere
<1>3. PairInv => PairingIsKept
  BY DEF PairInv, PairingIsKept, StoreKept, Pairing
<1> QED
  BY <1>1, <1>2, <1>3, TypeInit, TypeStep, PTL DEF Spec

-----------------------------------------------------------------------------
(* identity.json.                                                          *)

Creating(t) == pc[t] \in {"truncate_identity", "write_identity"}

\* One first start at a time, and calls are given what the file says.
IdentityInv ==
    ~raced =>
        /\ \A t, u \in Threads : Creating(t) /\ Creating(u) => t = u
        /\ \A t \in Threads :
              /\ pc[t] = "truncate_identity" => ~Exists(identity)
              /\ pc[t] = "write_identity" => identity.is = "empty" /\ t \in identity.open
              /\ pc[t] = "listen" => mine[t] \in held
        /\ held = IF Parses(identity) THEN {identity.body} ELSE {}
        /\ held = {} => peers = {}
        /\ peers \cap held = {}

LEMMA IdentitySteps ==
    ASSUME TypeInv, IdentityInv, NEW t \in Threads,
           \/ CheckIdentity(t) \/ TruncateIdentity(t) \/ WriteIdentity(t)
           \/ LoadIdentity(t) \/ StorePeers(t)
    PROVE  IdentityInv'
<1>0. pc \in [Threads -> At] /\ mine \in [Threads -> Nat]
  BY DEF TypeInv, TypeOK
<1> SUFFICES ASSUME ~raced'
             PROVE  IdentityInv'
  BY DEF IdentityInv
<1>1. ~raced
  BY DEF CheckIdentity, TruncateIdentity, WriteIdentity, LoadIdentity, StorePeers,
     RefuseFile, history, identities
<1>2. CASE CheckIdentity(t) /\ Exists(identity)
  <2>1. /\ pc' = [pc EXCEPT ![t] = "load_identity"]
        /\ UNCHANGED <<mine, held, identity, peers>>
    BY <1>2 DEF CheckIdentity, Goto, disk, runtime
  <2> QED
    BY <1>0, <1>1, <2>1 DEF IdentityInv, Creating
<1>3. CASE CheckIdentity(t) /\ ~Exists(identity)
  <2>1. /\ pc' = [pc EXCEPT ![t] = "truncate_identity"]
        /\ mine' = [mine EXCEPT ![t] = made + 1] /\ pc[t] = "check_identity"
        /\ \A u \in Threads \ {t} : pc[u] # "truncate_identity"
        /\ UNCHANGED <<held, identity, peers>>
    BY <1>3 DEF CheckIdentity, Goto, disk, runtime
  <2>2. \A u \in Threads : ~Creating(u)
    BY <1>1, <1>3, <2>1 DEF IdentityInv, Creating, Exists
  <2> QED
    BY <1>0, <1>1, <1>3, <2>1, <2>2 DEF IdentityInv, Creating
<1>4. CASE TruncateIdentity(t)
  <2>1. /\ pc[t] = "truncate_identity" /\ pc' = [pc EXCEPT ![t] = "write_identity"]
        /\ identity' = Truncated(identity, t)
        /\ UNCHANGED <<mine, held, peers>>
    BY <1>4 DEF TruncateIdentity, Goto, thread, runtime, history, identities
  <2>2. held = {}
    BY <1>1, <2>1 DEF IdentityInv, Parses, Exists
  <2>3. identity'.is = "empty" /\ t \in identity'.open /\ ~Parses(identity')
    BY <2>1 DEF Truncated, Parses
  <2> QED
    BY <1>0, <1>1, <2>1, <2>2, <2>3 DEF IdentityInv, Creating
<1>5. CASE WriteIdentity(t)
  <2>1. /\ pc[t] = "write_identity" /\ pc' = [pc EXCEPT ![t] = "listen"]
        /\ identity' \in Written(identity, t, mine[t]) /\ held' = held \cup {mine[t]}
        /\ UNCHANGED <<mine, peers>>
    BY <1>5 DEF WriteIdentity, Goto, thread, runtime
  <2>2. /\ identity.is = "empty" /\ t \in identity.open /\ held = {} /\ peers = {}
        /\ \A u \in Threads : Creating(u) => u = t
    BY <1>1, <2>1 DEF IdentityInv, Creating, Parses
  <2>3. Parses(identity') /\ identity'.body = mine[t]
    BY <2>1, <2>2, Contents
  <2> QED
    BY <1>0, <1>1, <2>1, <2>2, <2>3 DEF IdentityInv, Creating
<1>6. CASE LoadIdentity(t)
  <2>1. \/ /\ Parses(identity) /\ pc' = [pc EXCEPT ![t] = "listen"]
           /\ mine' = [mine EXCEPT ![t] = identity.body]
           /\ held' = held \cup {identity.body}
        \/ pc' = [pc EXCEPT ![t] = "finish"] /\ UNCHANGED <<mine, held>>
    BY <1>6 DEF LoadIdentity, RefuseFile, EndsBadly, Goto
  <2>2. UNCHANGED <<identity, peers>>
    BY <1>6 DEF LoadIdentity, disk, runtime
  <2>3. held' = held
    BY <1>1, <2>1 DEF IdentityInv
  <2> QED
    BY <1>0, <1>1, <2>1, <2>2, <2>3 DEF IdentityInv, Creating
<1>7. CASE StorePeers(t)
  <2>1. /\ pc[t] = "listen" /\ pc' = [pc EXCEPT ![t] = "finish"]
        /\ mine[t] \notin peers'
        /\ UNCHANGED <<mine, held, identity>>
    BY <1>7 DEF StorePeers, EndsWell, thread, disk, history, identities
  <2>2. held = {mine[t]}
    BY <1>1, <2>1 DEF IdentityInv
  <2> QED
    BY <1>0, <1>1, <2>1, <2>2 DEF IdentityInv, Creating
<1> QED
  BY <1>2, <1>3, <1>4, <1>5, <1>6, <1>7

LEMMA IdentityElsewhere ==
    ASSUME TypeInv, IdentityInv, [Next]_vars,
           ~\E t \in Threads : \/ CheckIdentity(t) \/ TruncateIdentity(t) \/ WriteIdentity(t)
                               \/ LoadIdentity(t) \/ StorePeers(t)
    PROVE  IdentityInv'
<1>0. pc \in [Threads -> At] /\ mine \in [Threads -> Nat]
  BY DEF TypeInv, TypeOK
<1>1. CASE Crash
  <2>1. /\ \A t \in Threads : pc'[t] = "idle"
        /\ peers' = {}
        /\ UNCHANGED <<identity, held, raced>>
    BY <1>1 DEF Crash, Idle, disk, identities
  <2> QED
    BY <2>1 DEF IdentityInv, Creating
<1>2. ASSUME NEW t \in Threads,
             CallAny(t) \/ Body(t) \/ Finish(t) \/ Fail(t)
      PROVE  IdentityInv'
  <2>1. \E to \in At \ {"truncate_identity", "write_identity", "listen"} :
           pc' = [pc EXCEPT ![t] = to]
    BY <1>2 DEF CallAny, Call, Body, Finish, Fail, LoadTrust, TruncateTrust, WriteTrust,
       PushTask, AcceptTask, Read, ReadError, ReadClock, Insert, EndsWell, EndsBadly, Goto, At
  <2>2. /\ mine' = mine \/ mine' = [mine EXCEPT ![t] = 0]
        /\ UNCHANGED <<identity, peers, held, raced>>
    BY <1>2 DEF CallAny, Call, Body, Finish, Fail, LoadTrust, TruncateTrust, WriteTrust,
       PushTask, AcceptTask, Read, ReadError, ReadClock, Insert, thread, runtime, disk, history,
       identities
  <2> QED
    BY <1>0, <2>1, <2>2 DEF IdentityInv, Creating
<1>3. CASE Tick \/ SetBack \/ UNCHANGED vars
  <2>1. UNCHANGED <<pc, mine, identity, peers, held, raced>>
    BY <1>3 DEF Tick, SetBack, vars, thread, runtime, disk, history, identities
  <2> QED
    BY <2>1 DEF IdentityInv, Creating
<1> QED
  BY <1>1, <1>2, <1>3 DEF Next

\* A device keeps the identity it made first and never lists itself as a peer,
\* whatever fails and whenever the application is killed, as long as no two first
\* starts overlap.
THEOREM IdentityStays == Spec => []OneIdentity
<1>1. Init => IdentityInv
  BY Contents DEF Init, Idle, IdentityInv, Creating
<1>2. TypeInv /\ IdentityInv /\ [Next]_vars => IdentityInv'
  BY IdentitySteps, IdentityElsewhere
<1>3. IdentityInv => OneIdentity
  BY DEF IdentityInv, OneIdentity
<1> QED
  BY <1>1, <1>2, <1>3, TypeInit, TypeStep, PTL DEF Spec
-----------------------------------------------------------------------------
(* chat.db: the order list_messages shows.                                 *)

Row == [peer : Lan, sent_at : Ids, after : SUBSET Ids]

LEMMA RowType ==
    ASSUME table \in Seq(Row), NEW j \in DOMAIN table
    PROVE  /\ j \in Ids /\ j \in Int
           /\ table[j].sent_at \in Int
           /\ \A i \in table[j].after : i \in Ids /\ i \in Int
<1>1. table[j] \in Row /\ j \in Ids
  BY DEF Ids
<1>2. table[j].sent_at \in Ids /\ table[j].after \subseteq Ids
  BY <1>1 DEF Row
<1> QED
  BY <1>1, <1>2 DEF Ids

\* The rows are ranked: Newer is a strict order on them, whatever their stamps.
LEMMA NewerOrder ==
    ASSUME table \in Seq(Row), NEW i \in DOMAIN table, NEW j \in DOMAIN table
    PROVE  /\ ~Newer(table, i, i)
           /\ i # j => Newer(table, i, j) \/ Newer(table, j, i)
           /\ \A k \in DOMAIN table :
                 Newer(table, i, j) /\ Newer(table, j, k) => Newer(table, i, k)
<1>1. \A k \in DOMAIN table : k \in Int /\ table[k].sent_at \in Int
  BY RowType
<1> QED
  BY <1>1 DEF Newer

LEMMA FiniteRows ==
    ASSUME table \in Seq(Row), NEW p
    PROVE  /\ IsFiniteSet(MessagesOf(table, p)) /\ MessagesOf(table, p) \subseteq DOMAIN table
           /\ Cardinality(MessagesOf(table, p)) \in Nat
<1>1. DOMAIN table = 1..Len(table) /\ Len(table) \in Nat
  OBVIOUS
<1>2. IsFiniteSet(DOMAIN table)
  BY <1>1, FS_Interval
<1>3. MessagesOf(table, p) \in SUBSET DOMAIN table
  BY DEF MessagesOf
<1> QED
  BY <1>2, <1>3, FS_Subset, FS_CardinalityType

\* A row has more rows before it than any row that is newer, and fewer than there are.
LEMMA BeforeGrows ==
    ASSUME table \in Seq(Row), NEW p, NEW i \in MessagesOf(table, p)
    PROVE  /\ Before(table, p, i) \in 0..(Cardinality(MessagesOf(table, p)) - 1)
           /\ \A j \in MessagesOf(table, p) :
                 Newer(table, i, j) => Before(table, p, i) < Before(table, p, j)
<1> DEFINE rows == MessagesOf(table, p)
           Newers(j) == {k \in rows : Newer(table, k, j)}
<1>1. rows \subseteq DOMAIN table /\ IsFiniteSet(rows) /\ Cardinality(rows) \in Nat
  BY FiniteRows
<1>2. ASSUME NEW S \in SUBSET rows, Newers(i) \subseteq S, i \in S
      PROVE  Before(table, p, i) \in Nat /\ Before(table, p, i) < Cardinality(S)
  <2>1. IsFiniteSet(S) /\ i \notin Newers(i)
    BY <1>1, <1>2, FS_Subset, NewerOrder
  <2>2. /\ IsFiniteSet(Newers(i)) /\ Cardinality(Newers(i)) <= Cardinality(S)
        /\ Cardinality(S) # Cardinality(Newers(i))
    BY <1>2, <2>1, FS_Subset
  <2>3. Cardinality(S) \in Nat /\ Cardinality(Newers(i)) \in Nat
    BY <2>1, <2>2, FS_CardinalityType
  <2> QED
    BY <2>2, <2>3 DEF Before
<1>3. Before(table, p, i) \in 0..(Cardinality(rows) - 1)
  BY <1>1, <1>2
<1>4. ASSUME NEW j \in rows, Newer(table, i, j)
      PROVE  Before(table, p, i) < Before(table, p, j)
  <2>1. Newers(i) \subseteq Newers(j) /\ i \in Newers(j)
    BY <1>1, <1>4, NewerOrder
  <2> QED
    BY <1>2, <2>1 DEF Before
<1> QED
  BY <1>3, <1>4

\* So every place is taken by one row.
LEMMA EveryPlace ==
    ASSUME table \in Seq(Row), NEW p, NEW n \in 0..(Cardinality(MessagesOf(table, p)) - 1)
    PROVE  \E i \in MessagesOf(table, p) : Before(table, p, i) = n
<1> DEFINE rows == MessagesOf(table, p)
           places == 0..(Cardinality(rows) - 1)
           place == [i \in rows |-> Before(table, p, i)]
<1>1. IsFiniteSet(rows) /\ rows \subseteq DOMAIN table /\ Cardinality(rows) \in Nat
  BY FiniteRows
<1>2. IsFiniteSet(places) /\ Cardinality(places) = Cardinality(rows)
  BY <1>1, FS_Interval
<1>3. place \in Injection(rows, places)
  <2>1. place \in [rows -> places]
    BY BeforeGrows
  <2>2. ASSUME NEW i \in rows, NEW j \in rows, i # j
        PROVE  Before(table, p, i) # Before(table, p, j)
    <3>1. Newer(table, i, j) \/ Newer(table, j, i)
      BY <1>1, <2>2, NewerOrder
    <3>2. Before(table, p, i) \in Int /\ Before(table, p, j) \in Int
      BY <1>1, BeforeGrows
    <3> QED
      BY <3>1, <3>2, BeforeGrows
  <2> QED
    BY <2>1, <2>2 DEF Injection, IsInjective
<1>4. place \in Surjection(rows, places)
  BY <1>2, <1>3, FS_Injection
<1> QED
  BY <1>4 DEF Surjection

\* list_messages shows at each place the row that has it, and leaves out the last ones.
LEMMA Shown ==
    ASSUME table \in Seq(Row), NEW p, NEW limit \in Nat
    PROVE  \E n \in 0..Cardinality(MessagesOf(table, p)) :
              LET shown == ListMessages(table, p, limit) IN
              /\ shown \in [1..n -> MessagesOf(table, p)]
              /\ \A k \in 1..n : Before(table, p, shown[k]) = n - k
              /\ \A id \in MessagesOf(table, p) \ Range(shown) : Before(table, p, id) >= n
<1> DEFINE rows == MessagesOf(table, p)
           n == Min({limit, Cardinality(rows)})
           shown == ListMessages(table, p, limit)
<1>1. rows \subseteq DOMAIN table /\ Cardinality(rows) \in Nat
  BY FiniteRows
<1>2. n \in 0..Cardinality(rows)
  <2>1. \E x \in {limit, Cardinality(rows)} : \A y \in {limit, Cardinality(rows)} : x <= y
    BY <1>1
  <2> QED
    BY <1>1, <2>1 DEF Min
<1>3. shown = [k \in 1..n |-> CHOOSE id \in rows : Before(table, p, id) = n - k]
  BY DEF ListMessages
<1> HIDE DEF n, shown
<1>4. \A k \in 1..n : shown[k] \in rows /\ Before(table, p, shown[k]) = n - k
  <2> SUFFICES ASSUME NEW k \in 1..n
               PROVE  shown[k] \in rows /\ Before(table, p, shown[k]) = n - k
    OBVIOUS
  <2>1. n - k \in 0..(Cardinality(rows) - 1)
    BY <1>1, <1>2
  <2> QED
    BY <1>3, <2>1, EveryPlace
<1>5. ASSUME NEW id \in rows, Before(table, p, id) < n
      PROVE  id \in Range(shown)
  <2>1. Before(table, p, id) \in 0..(n - 1)
    BY <1>1, <1>2, <1>5, BeforeGrows
  <2>2. PICK k \in 1..n : Before(table, p, id) = n - k
    <3>1. n - Before(table, p, id) \in 1..n
      BY <1>1, <1>2, <2>1
    <3> QED
      BY <1>1, <1>2, <2>1, <3>1
  <2>3. shown[k] \in rows /\ Before(table, p, shown[k]) = Before(table, p, id)
    BY <1>4, <2>2
  <2>4. ~Newer(table, id, shown[k]) /\ ~Newer(table, shown[k], id)
    BY <1>1, <2>1, <2>3, BeforeGrows
  <2>5. id = shown[k]
    BY <1>1, <2>3, <2>4, NewerOrder
  <2> QED
    BY <1>3, <2>5 DEF Range
<1>6. \A id \in rows \ Range(shown) : Before(table, p, id) >= n
  <2>1. \A id \in rows : Before(table, p, id) \in Int
    BY <1>1, BeforeGrows
  <2> QED
    BY <1>1, <1>2, <1>5, <2>1
<1> QED
  BY <1>2, <1>3, <1>4, <1>6 DEF shown

\* Unless the clock went back, a row is not older than what was stored before its
\* stamp was taken, also the row a thread is about to insert.
TableInv ==
    ~wentBack =>
        /\ \A j \in DOMAIN table :
              /\ table[j].sent_at <= now
              /\ \A i \in table[j].after : i < j /\ table[i].sent_at <= table[j].sent_at
        /\ \A t \in Threads : pc[t] = "insert" =>
              /\ stamp[t].sent_at <= now
              /\ \A i \in stamp[t].after :
                    i \in DOMAIN table /\ table[i].sent_at <= stamp[t].sent_at

LEMMA TableInOrder ==
    ASSUME TypeInv, TableInv
    PROVE  ChatInOrder
<1>1. table \in Seq(Row)
  BY DEF TypeInv, TypeOK, Row
<1> SUFFICES ASSUME ~wentBack, NEW p \in Lan, NEW limit \in 1..Len(table)
             PROVE  LET shown == ListMessages(table, p, limit) IN
                    /\ \A i, j \in DOMAIN shown : i < j => shown[j] \notin table[shown[i]].after
                    /\ \A id \in MessagesOf(table, p) \ Range(shown) : \A i \in DOMAIN shown :
                          shown[i] \notin table[id].after
  BY DEF ChatInOrder
<1> DEFINE rows == MessagesOf(table, p)
           shown == ListMessages(table, p, limit)
<1>2. /\ rows \subseteq DOMAIN table /\ Cardinality(rows) \in Nat
      /\ limit \in Nat
  BY <1>1, FiniteRows
<1>3. PICK n \in 0..Cardinality(rows) :
          /\ shown \in [1..n -> rows]
          /\ \A k \in 1..n : Before(table, p, shown[k]) = n - k
          /\ \A id \in rows \ Range(shown) : Before(table, p, id) >= n
  BY <1>1, <1>2, Shown
<1> HIDE DEF shown
<1>4. ASSUME NEW i \in rows, NEW j \in rows, i \in table[j].after
      PROVE  Before(table, p, j) < Before(table, p, i)
  <2>1. i < j /\ table[i].sent_at <= table[j].sent_at
    BY <1>2, <1>4 DEF TableInv
  <2>2. table[i].sent_at \in Int /\ table[j].sent_at \in Int /\ i \in Int /\ j \in Int
    BY <1>1, <1>2, RowType
  <2>3. Newer(table, j, i)
    BY <2>1, <2>2 DEF Newer
  <2> QED
    BY <1>1, <2>3, BeforeGrows
<1>5. n \in Nat /\ \A id \in rows : Before(table, p, id) \in Int
  BY <1>1, <1>2, BeforeGrows
<1>6. ASSUME NEW i \in 1..n, NEW j \in 1..n, i < j, shown[j] \in table[shown[i]].after
      PROVE  FALSE
  BY <1>3, <1>4, <1>5, <1>6
<1>7. ASSUME NEW id \in rows \ Range(shown), NEW i \in 1..n, shown[i] \in table[id].after
      PROVE  FALSE
  BY <1>3, <1>4, <1>5, <1>7
<1> QED
  BY <1>3, <1>6, <1>7 DEF shown

LEMMA TableStep ==
    ASSUME TypeInv, TableInv, [Next]_vars
    PROVE  TableInv'
<1>0. /\ pc \in [Threads -> At] /\ table \in Seq(Row)
      /\ stamp \in [Threads -> [sent_at : Nat, after : SUBSET Ids]] /\ now \in Int
  BY DEF TypeInv, TypeOK, Row, Ids
<1>1. \A j \in DOMAIN table : table[j].sent_at \in Int
  BY <1>0, RowType
<1>2. ASSUME NEW t \in Threads, ReadClock(t)
      PROVE  TableInv'
  <2>1. /\ pc' = [pc EXCEPT ![t] = "insert"]
        /\ stamp' = [stamp EXCEPT ![t] = [sent_at |-> now, after |-> DOMAIN table]]
        /\ UNCHANGED <<table, now, wentBack>>
    BY <1>2 DEF ReadClock, Goto, disk, history
  <2> QED
    BY <1>0, <1>1, <2>1 DEF TableInv
<1>3. ASSUME NEW t \in Threads, Insert(t)
      PROVE  TableInv'
  <2> DEFINE row == [peer |-> arg[t], sent_at |-> stamp[t].sent_at, after |-> stamp[t].after]
  <2>1. /\ pc[t] = "insert" /\ pc' = [pc EXCEPT ![t] = "finish"]
        /\ table' = Append(table, row)
        /\ UNCHANGED <<stamp, now, wentBack>>
    BY <1>3 DEF Insert, EndsWell, Inserted, thread, history
  <2>2. row \in Row
    BY <2>1 DEF TypeInv, TypeOK, ArgInv, Row
  <2>3. /\ DOMAIN table' = 1..(Len(table) + 1) /\ DOMAIN table = 1..Len(table)
        /\ Len(table) \in Nat
        /\ \A j \in DOMAIN table : table'[j] = table[j]
        /\ table'[Len(table) + 1] = row
    BY <1>0, <2>1, <2>2
  <2> SUFFICES ASSUME ~wentBack
               PROVE  TableInv'
    BY <2>1 DEF TableInv
  <2>4. ASSUME NEW j \in DOMAIN table
        PROVE  /\ table'[j].sent_at <= now
               /\ \A i \in table'[j].after : i < j /\ table'[i].sent_at <= table'[j].sent_at
    <3>1. \A i \in table[j].after : i \in Ids
      BY <1>0, RowType
    <3> QED
      BY <2>3, <3>1 DEF TableInv, Ids
  <2>5. /\ row.sent_at <= now
        /\ \A i \in row.after : i < Len(table) + 1 /\ table'[i].sent_at <= row.sent_at
    BY <2>1, <2>3 DEF TableInv
  <2>6. \A u \in Threads : pc'[u] = "insert" =>
          /\ stamp[u].sent_at <= now
          /\ \A i \in stamp[u].after :
                i \in DOMAIN table' /\ table'[i].sent_at <= stamp[u].sent_at
    BY <1>0, <2>1, <2>3 DEF TableInv
  <2>7. ASSUME NEW j \in DOMAIN table'
        PROVE  /\ table'[j].sent_at <= now
               /\ \A i \in table'[j].after : i < j /\ table'[i].sent_at <= table'[j].sent_at
    <3>1. CASE j \in DOMAIN table
      BY <3>1, <2>4
    <3>2. CASE j = Len(table) + 1
      <4>1. table'[j] = row
        BY <2>3, <3>2
      <4> HIDE DEF row
      <4> QED
        BY <2>5, <3>2, <4>1
    <3> QED
      BY <2>3, <3>1, <3>2
  <2> QED
    BY <2>1, <2>6, <2>7 DEF TableInv
<1>4. ASSUME NEW t \in Threads, CallAny(t) \/ Finish(t) \/ Fail(t) \/ Body(t),
             ~ReadClock(t), ~Insert(t)
      PROVE  TableInv'
  <2>1. \E to \in At \ {"insert"} : pc' = [pc EXCEPT ![t] = to]
    BY <1>4 DEF CallAny, Call, Finish, Fail, Body, CheckIdentity, TruncateIdentity, WriteIdentity,
       LoadIdentity, RefuseFile, StorePeers, LoadTrust, TruncateTrust, WriteTrust, PushTask,
       AcceptTask, Read, ReadError, EndsWell, EndsBadly, Goto, At
  <2>2. /\ stamp' = stamp \/ stamp' = [stamp EXCEPT ![t] = NoStamp]
        /\ UNCHANGED <<table, now, wentBack>>
    BY <1>4 DEF CallAny, Call, Finish, Fail, Body, CheckIdentity, TruncateIdentity, WriteIdentity,
       LoadIdentity, RefuseFile, StorePeers, LoadTrust, TruncateTrust, WriteTrust, PushTask,
       AcceptTask, Read, ReadError, thread, disk, history
  <2> QED
    BY <1>0, <1>1, <2>1, <2>2 DEF TableInv
<1>5. CASE Crash
  <2>1. (\A t \in Threads : pc'[t] = "idle") /\ UNCHANGED <<table, now, wentBack>>
    BY <1>5 DEF Crash, Idle, disk
  <2> QED
    BY <2>1 DEF TableInv
<1>6. CASE Tick
  <2>1. now' = now + 1 /\ UNCHANGED <<pc, stamp, table, wentBack>>
    BY <1>6 DEF Tick, thread, disk, history
  <2>2. \A t \in Threads : stamp[t].sent_at \in Int
    BY <1>0
  <2> QED
    BY <1>0, <1>1, <2>1, <2>2 DEF TableInv
<1>7. CASE SetBack
  BY <1>7 DEF SetBack, TableInv
<1>8. CASE UNCHANGED vars
  BY <1>8 DEF vars, thread, disk, history, TableInv
<1> QED
  BY <1>2, <1>3, <1>4, <1>5, <1>6, <1>7, <1>8 DEF Next

\* A conversation is shown in the order it was sent, for any number of threads,
\* messages and limits, also when many fall into one second and whatever fails or is
\* killed in between, as long as the clock does not go back.
THEOREM ChatStaysInOrder == Spec => []ChatInOrder
<1>1. Init => TableInv
  BY DEF Init, Idle, TableInv
<1> QED
  BY <1>1, TableStep, TableInOrder, TypeInit, TypeStep, PTL DEF Spec
=============================================================================
