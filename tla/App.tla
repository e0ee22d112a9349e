-------------------------------- MODULE App --------------------------------
(***************************************************************************)
(* The application behind crates/ffi: threads of the user interface call   *)
(* the exported functions, which share a RuntimeState under one mutex,     *)
(* identity.json and trusted_peers.json, which nothing guards, and the chat*)
(* database.  A call runs its body, which may take the lock and release it,*)
(* and then takes the lock once more to set or clear last_error.           *)
(*                                                                         *)
(* The variables from `made' on record what happened; no step reads them.  *)
(***************************************************************************)
EXTENDS SharedFile, ChatStore, FiniteSets

CONSTANTS
    Threads,
    Lan,        \* peer ids there are beside the own identities
    Budgets     \* bound: how many calls and events of each kind a behaviour has

Calls  == {"discover", "pair", "send", "accept", "list", "chat", "error"}
Events == {"fail", "crash", "tick", "setback"}

ASSUME AppAssumption ==
    /\ Nobody \notin Threads
    /\ Lan \cap Nat = {}
    /\ Budgets \subseteq [Calls \cup Events -> Nat]

VARIABLES
    pc, arg,     \* where each thread is, and the argument of its call
    out,         \* the error its call will report, or Nobody
    mine,        \* the identity it holds, 0 for none
    store,       \* what its pair_peer will write back
    stamp,       \* its now.timestamp(), and the messages there were by then
    peers, tasks, last_error,  \* RuntimeState
    identity, trust, table,    \* identity.json, trusted_peers.json, chat.db
    now,         \* the clock, in seconds
    budget,
    made,        \* identities made so far: they are the numbers up to it
    held,        \* identities a call has been given
    raced,       \* two first starts overlapped
    paired,      \* peers that pair_peer has returned Ok for
    disturbed,   \* two pair_peer overlapped, or one ended half-way
    wentBack,    \* the clock was set back
    outcome,     \* what the last call of each thread reported
    overtaken,   \* another thread's call has ended since
    told         \* what last_error_message is about to return to it, if it is called

thread  == <<arg, mine, store, stamp>>
runtime == <<peers, tasks, last_error>>
disk    == <<identity, trust, table>>
identities == <<made, held, raced>>
pairings   == <<paired, disturbed>>
reported   == <<outcome, overtaken, told>>
history == <<identities, pairings, wentBack, reported>>
vars == <<pc, out, thread, runtime, disk, now, budget, history>>

Ids == Nat \ {0}
NoStamp == [sent_at |-> 0, after |-> {}]

Spend(e) == budget[e] > 0 /\ budget' = [budget EXCEPT ![e] = @ - 1]

Idle == [t \in Threads |-> "idle"]

Init ==
    /\ pc = Idle
    /\ arg = [t \in Threads |-> Nobody] /\ out = [t \in Threads |-> Nobody]
    /\ mine = [t \in Threads |-> 0] /\ store = [t \in Threads |-> {}]
    /\ stamp = [t \in Threads |-> NoStamp]
    /\ peers = {} /\ tasks = <<>> /\ last_error = Nobody
    /\ identity = Absent /\ trust = Absent /\ table = <<>>
    /\ now = 1 /\ made = 0
    /\ held = {} /\ raced = FALSE /\ paired = {} /\ disturbed = FALSE /\ wentBack = FALSE
    /\ outcome = [t \in Threads |-> Nobody] /\ overtaken = [t \in Threads |-> FALSE]
    /\ told = [t \in Threads |-> {}]
    /\ budget \in Budgets

-----------------------------------------------------------------------------
(* with_result and with_json, around the body of every call.               *)

\* Slip: the error of the last call is cleared when a new one starts.
ErrorWhenCalled == Nobody

ErrorKept == last_error

Call(t, call, first, a) ==
    /\ pc[t] = "idle"
    /\ Spend(call)
    /\ pc' = [pc EXCEPT ![t] = first]
    /\ arg' = [arg EXCEPT ![t] = a]
    /\ last_error' = ErrorKept
    /\ UNCHANGED <<out, mine, store, stamp, peers, tasks, disk, now, history>>

Goto(t, from, to) == pc[t] = from /\ pc' = [pc EXCEPT ![t] = to]

\* The body ends, well or with an error, which is known by its thread.
EndsWell(t)  == pc' = [pc EXCEPT ![t] = "finish"] /\ UNCHANGED out
EndsBadly(t) == pc' = [pc EXCEPT ![t] = "finish"] /\ out' = [out EXCEPT ![t] = t]

\* Set or clear last_error.
Finish(t) ==
    /\ Goto(t, "finish", "idle")
    /\ last_error' = out[t]
    /\ outcome' = [outcome EXCEPT ![t] = out[t]]
    /\ overtaken' = [u \in Threads |-> u # t]
    /\ told' = [told EXCEPT ![t] = {}]
    /\ out' = [out EXCEPT ![t] = Nobody]
    /\ arg' = [arg EXCEPT ![t] = Nobody] /\ mine' = [mine EXCEPT ![t] = 0]
    /\ store' = [store EXCEPT ![t] = {}] /\ stamp' = [stamp EXCEPT ![t] = NoStamp]
    /\ UNCHANGED <<peers, tasks, disk, now, budget, identities, pairings, wentBack>>

-----------------------------------------------------------------------------
(* start_discovery, with load_or_create_identity.                          *)

\* path.exists(), and a new identity if there is none.
CheckIdentity(t) ==
    /\ IF Exists(identity)
       THEN Goto(t, "check_identity", "load_identity") /\ UNCHANGED <<made, mine>>
       ELSE /\ Goto(t, "check_identity", "truncate_identity")
            /\ made' = made + 1
            /\ mine' = [mine EXCEPT ![t] = made + 1]
    /\ raced' = (raced \/ (~Exists(identity)
                           /\ \E u \in Threads \ {t} : pc[u] = "truncate_identity"))
    /\ UNCHANGED <<out, arg, store, stamp, runtime, disk, now, budget, held,
                   pairings, wentBack, reported>>

TruncateIdentity(t) ==
    /\ Goto(t, "truncate_identity", "write_identity")
    /\ identity' = Truncated(identity, t)
    /\ UNCHANGED <<out, thread, runtime, trust, table, now, budget, history>>

WriteIdentity(t) ==
    /\ Goto(t, "write_identity", "listen")
    /\ identity' \in Written(identity, t, mine[t])
    /\ held' = held \cup {mine[t]}
    /\ UNCHANGED <<out, thread, runtime, trust, table, now, budget, made, raced,
                   pairings, wentBack, reported>>

\* Slip: a file that does not parse is replaced by a new identity.
MakeAnew(t) ==
    /\ Goto(t, "load_identity", "truncate_identity")
    /\ made' = made + 1
    /\ mine' = [mine EXCEPT ![t] = made + 1]
    /\ UNCHANGED <<out, held>>

RefuseFile(t) ==
    /\ EndsBadly(t)
    /\ UNCHANGED <<made, mine, held>>

\* load_identity.
LoadIdentity(t) ==
    /\ pc[t] = "load_identity"
    /\ \/ /\ Parses(identity)
          /\ Goto(t, "load_identity", "listen")
          /\ mine' = [mine EXCEPT ![t] = identity.body]
          /\ held' = held \cup {identity.body}
          /\ UNCHANGED <<out, made>>
       \/ ~Parses(identity) /\ RefuseFile(t)
    /\ UNCHANGED <<arg, store, stamp, runtime, disk, now, budget, raced,
                   pairings, wentBack, reported>>

\* discover_peers has heard others, and whoever uses an identity of this device.
StorePeers(t) ==
    /\ pc[t] = "listen" /\ EndsWell(t)
    /\ \E heard \in SUBSET (Lan \cup 1..made) : peers' = heard \ {mine[t]}
    /\ UNCHANGED <<thread, tasks, last_error, disk, now, budget, history>>

-----------------------------------------------------------------------------
(* pair_peer: read, insert, write back.                                    *)

Pairing(t) == pc[t] \in {"truncate_trust", "write_trust"}

\* Slip: the store on disk is not read.
FreshStore == {}

StoreOnDisk == IF Exists(trust) THEN trust.body ELSE {}

\* Slip: the two arguments, peer_id and code, are swapped.
ItsCode(t) == Nobody

ItsPeer(t) == arg[t]

LoadTrust(t) ==
    /\ pc[t] = "load_trust"
    /\ IF Exists(trust) /\ ~Parses(trust)
       THEN EndsBadly(t) /\ UNCHANGED store
       ELSE /\ Goto(t, "load_trust", "truncate_trust")
            /\ store' = [store EXCEPT ![t] = {ItsPeer(t)} \cup StoreOnDisk]
            /\ UNCHANGED out
    /\ disturbed' = (disturbed \/ \E u \in Threads \ {t} : Pairing(u))
    /\ UNCHANGED <<arg, mine, stamp, runtime, disk, now, budget, identities,
                   paired, wentBack, reported>>

TruncateTrust(t) ==
    /\ Goto(t, "truncate_trust", "write_trust")
    /\ trust' = Truncated(trust, t)
    /\ UNCHANGED <<out, thread, runtime, identity, table, now, budget, history>>

WriteTrust(t) ==
    /\ pc[t] = "write_trust" /\ EndsWell(t)
    /\ trust' \in Written(trust, t, store[t])
    /\ paired' = paired \cup {arg[t]}
    /\ UNCHANGED <<thread, runtime, identity, table, now, budget, identities,
                   disturbed, wentBack, reported>>

-----------------------------------------------------------------------------
(* send_path, accept_transfer, and the calls that only read.               *)

\* TransferTask::new_send.
NewSend(p) == [peer |-> p, status |-> "awaiting_accept"]

\* build_manifest has run; the task is pushed under the lock.
PushTask(t) ==
    /\ pc[t] = "push" /\ EndsWell(t)
    /\ tasks' = Append(tasks, NewSend(arg[t]))
    /\ UNCHANGED <<thread, peers, last_error, disk, now, budget, history>>

\* find and accept_receive, under one lock.  The argument is a task's number.
AcceptTask(t) ==
    /\ pc[t] = "accept"
    /\ IF arg[t] \in DOMAIN tasks
       THEN EndsWell(t) /\ tasks' = [tasks EXCEPT ![arg[t]].status = "pending"]
       ELSE EndsBadly(t) /\ UNCHANGED tasks
    /\ UNCHANGED <<thread, peers, last_error, disk, now, budget, history>>

\* list_peers, list_tasks, list_chat_messages.
Read(t) ==
    /\ pc[t] = "list" /\ EndsWell(t)
    /\ UNCHANGED <<thread, runtime, disk, now, budget, history>>

\* last_error_message clones last_error, which its own end will clear.
ReadError(t) ==
    /\ pc[t] = "read_error" /\ EndsWell(t)
    /\ told' = [told EXCEPT ![t] = {last_error}]
    /\ UNCHANGED <<thread, runtime, disk, now, budget, identities, pairings, wentBack,
                   outcome, overtaken>>

-----------------------------------------------------------------------------
(* send_chat.  append_message reads the clock before it inserts.           *)

ReadClock(t) ==
    /\ Goto(t, "clock", "insert")
    /\ stamp' = [stamp EXCEPT ![t] = [sent_at |-> now, after |-> DOMAIN table]]
    /\ UNCHANGED <<out, arg, mine, store, runtime, disk, now, budget, history>>

Insert(t) ==
    /\ pc[t] = "insert" /\ EndsWell(t)
    /\ table' = Inserted(table, [peer    |-> arg[t],
                                 sent_at |-> stamp[t].sent_at,
                                 after   |-> stamp[t].after])
    /\ UNCHANGED <<thread, runtime, identity, trust, now, budget, history>>

-----------------------------------------------------------------------------
(* What disturbs.                                                          *)

\* An error in the body: an argument, a socket, a file that cannot be written
\* or was truncated in vain, a database that cannot be used.
Fail(t) ==
    /\ pc[t] \notin {"idle", "finish", "read_error"}
    /\ Spend("fail")
    /\ EndsBadly(t)
    /\ disturbed' = (disturbed \/ pc[t] = "write_trust")
    /\ UNCHANGED <<thread, runtime, disk, now, identities, paired, wentBack,
                   reported>>

\* The application is killed and started again.
Crash ==
    /\ pc # Idle
    /\ Spend("crash")
    /\ pc' = Idle
    /\ arg' = [t \in Threads |-> Nobody] /\ out' = [t \in Threads |-> Nobody]
    /\ mine' = [t \in Threads |-> 0] /\ store' = [t \in Threads |-> {}]
    /\ stamp' = [t \in Threads |-> NoStamp]
    /\ peers' = {} /\ tasks' = <<>> /\ last_error' = Nobody
    /\ outcome' = [t \in Threads |-> Nobody] /\ overtaken' = [t \in Threads |-> FALSE]
    /\ told' = [t \in Threads |-> {}]
    /\ disturbed' = (disturbed \/ \E t \in Threads : Pairing(t))
    /\ UNCHANGED <<disk, now, identities, paired, wentBack>>

Tick ==
    /\ Spend("tick")
    /\ now' = now + 1
    /\ UNCHANGED <<pc, out, thread, runtime, disk, history>>

SetBack ==
    /\ now > 1
    /\ Spend("setback")
    /\ now' = now - 1
    /\ wentBack' = TRUE
    /\ UNCHANGED <<pc, out, thread, runtime, disk, identities, pairings, reported>>

-----------------------------------------------------------------------------
CallAny(t) ==
    \/ Call(t, "discover", "check_identity", Nobody)
    \/ \E p \in Lan : \/ Call(t, "pair", "load_trust", p)
                      \/ Call(t, "send", "push", p)
                      \/ Call(t, "chat", "clock", p)
    \/ \E i \in 1..(Len(tasks) + 1) : Call(t, "accept", "accept", i)
    \/ Call(t, "list", "list", Nobody)
    \/ Call(t, "error", "read_error", Nobody)

Body(t) ==
    \/ CheckIdentity(t) \/ TruncateIdentity(t) \/ WriteIdentity(t) \/ LoadIdentity(t)
    \/ StorePeers(t)
    \/ LoadTrust(t) \/ TruncateTrust(t) \/ WriteTrust(t)
    \/ PushTask(t) \/ AcceptTask(t) \/ Read(t) \/ ReadError(t)
    \/ ReadClock(t) \/ Insert(t)

Next ==
    \/ \E t \in Threads : CallAny(t) \/ Body(t) \/ Finish(t) \/ Fail(t)
    \/ Crash \/ Tick \/ SetBack

Spec == Init /\ [][Next]_vars

-----------------------------------------------------------------------------
(* Properties.                                                             *)

At == {"idle", "finish", "check_identity", "truncate_identity", "write_identity",
       "load_identity", "listen", "load_trust", "truncate_trust", "write_trust",
       "push", "accept", "list", "read_error", "clock", "insert"}

\* The types of the variables; the two files hold what pair_peer and
\* load_or_create_identity write.
TypeOK ==
    /\ pc \in [Threads -> At] /\ out \in [Threads -> Threads \cup {Nobody}]
    /\ arg \in [Threads -> Lan \cup Ids \cup {Nobody}]
    /\ mine \in [Threads -> Nat] /\ store \in [Threads -> SUBSET Lan]
    /\ stamp \in [Threads -> [sent_at : Nat, after : SUBSET Ids]]
    /\ peers \subseteq Lan \cup Ids
    /\ tasks \in Seq([peer : Lan, status : {"awaiting_accept", "pending"}])
    /\ last_error \in Threads \cup {Nobody}
    /\ identity.body \in 1..made \cup {Nobody}
    /\ trust \in SharedFiles(SUBSET Lan, Threads)
    /\ table \in Seq([peer : Lan, sent_at : Ids, after : SUBSET Ids])
    /\ now \in Ids /\ made \in Nat /\ held \subseteq 1..made
    /\ paired \subseteq Lan /\ told \in [Threads -> SUBSET (Threads \cup {Nobody})]
    /\ budget \in [Calls \cup Events -> Nat]

\* last_error_message returns to a thread the error of its own last call, or that there
\* was none, unless a call of another thread has ended in between, be it only
\* a last_error_message, which clears it: starting, running and failing half-way change
\* nothing.
OwnErrorUntilOvertaken ==
    \A t \in Threads : ~overtaken[t] =>
        last_error = outcome[t] /\ told[t] \subseteq {outcome[t]}

\* A device has one identity: unless two first starts overlapped, all calls were
\* given the same one, through errors and crashes, and it is the one in the file;
\* and no list of peers shows the device itself.
OneIdentity ==
    ~raced /\ held # {} =>
        /\ Parses(identity) /\ held = {identity.body}
        /\ peers \cap held = {}

\* Pairing is remembered: unless two pair_peer overlapped or one was cut off
\* between truncation and write, the store holds exactly the peers paired,
\* whenever no pair_peer is under way.
PairingIsKept ==
    ~disturbed /\ (\A t \in Threads : ~Pairing(t)) =>
        IF paired = {} THEN ~Exists(trust) ELSE Parses(trust) /\ trust.body = paired

\* list_messages shows the newest messages in the order they were sent, also
\* within one second and for any limit: what was sent after another had been
\* stored comes later, and is not left out for it; unless the clock went back.
ChatInOrder ==
    ~wentBack => \A p \in Lan : \A limit \in 1..Len(table) :
        LET shown == ListMessages(table, p, limit) IN
        /\ \A i, j \in DOMAIN shown : i < j => shown[j] \notin table[shown[i]].after
        /\ \A id \in MessagesOf(table, p) \ Range(shown) : \A i \in DOMAIN shown :
              shown[i] \notin table[id].after
=============================================================================
