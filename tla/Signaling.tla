----------------------------- MODULE Signaling -----------------------------
(***************************************************************************)
(* The signaling server and its clients.  The server keeps one map from    *)
(* peer ids to the outgoing channels of connections; a task per connection *)
(* reads what its client sends and registers, relays or answers.  A look-up*)
(* and the send that follows it happen under one read lock, so a handler   *)
(* step is atomic with respect to the registrations of others.             *)
(*                                                                         *)
(* A client's unbounded channel, its socket and the pump between them are  *)
(* one queue in each direction: `up' to the server, `down' to the client.  *)
(* sent, got and names record what was sent, received and registered; the  *)
(* program does not read them.                                             *)
(***************************************************************************)
EXTENDS Integers, Sequences, FiniteSets

CONSTANTS
    Conns, Peers,  \* connections, each used once, and peer ids
    Nobody,        \* no connection, no peer
    PeerOf,        \* the peer id each connection is opened with
    Says,          \* what each client sends: a kind of message and its target
    Sends,         \* bound: messages a client sends on each connection
    MaxBreaks      \* bound: how many connections go without a close

\* A signal has a target and a Register a peer id; another message of the
\* protocol, and what does not parse, has none.
Contents == [kind : {"signal", "register"}, to : Peers]
            \cup [kind : {"untargeted", "garbage"}, to : {Nobody}]

ASSUME SignalingAssumption ==
    /\ Nobody \notin Conns /\ Nobody \notin Peers
    /\ PeerOf \in [Conns -> Peers]
    /\ Says \in [Conns -> SUBSET Contents]
    /\ Sends \in [Conns -> Nat]
    /\ MaxBreaks \in Nat

VARIABLES
    client,      \* the SignalingClient: none yet, open, or dropped
    handler,     \* the server's task for the connection
    broken,      \* the connection has gone without a close
    up, down,
    peers,       \* AppState.peers
    registered,  \* registered_peer of each handler
    sent, got, names

wires == <<up, down>>
vars == <<client, handler, broken, wires, peers, registered, sent, got, names>>

\* from and no say which message this is, or which one an error answers.
Messages ==
    [kind : {"register", "signal", "untargeted", "garbage", "error", "close"},
     from : Conns, no : Nat, to : Peers \cup {Nobody}]

Message(kind, c, no, to) == [kind |-> kind, from |-> c, no |-> no, to |-> to]
ErrorFor(m) == [m EXCEPT !.kind = "error"]

\* Slip: what is new goes first.
PostedAhead(q, m) == <<m>> \o q

Posted(q, m) == Append(q, m)

\* The client writes: to a broken connection in vain.
Upload(c, m) == up' = IF broken[c] THEN up ELSE [up EXCEPT ![c] = Posted(@, m)]

\* out_tx.send, whose error is ignored: without sender_task, or with one that
\* cannot write, the message is lost, and a dropped client reads no more.
Download(c, m) ==
    IF broken[c] \/ handler[c] = "done" \/ client[c] = "dropped" THEN down
    ELSE [down EXCEPT ![c] = Posted(@, m)]

Prefixes(q) == {SubSeq(q, 1, n) : n \in 0..Len(q)}

Init ==
    /\ client = [c \in Conns |-> "none"] /\ handler = [c \in Conns |-> "none"]
    /\ broken = [c \in Conns |-> FALSE]
    /\ up = [c \in Conns |-> <<>>] /\ down = [c \in Conns |-> <<>>]
    /\ peers = [p \in Peers |-> Nobody]
    /\ registered = [c \in Conns |-> Nobody]
    /\ sent = [c \in Conns |-> <<>>] /\ got = [c \in Conns |-> <<>>]
    /\ names = [c \in Conns |-> <<>>]

-----------------------------------------------------------------------------
(* The clients.                                                            *)

\* SignalingClient::connect, which ends with a Register.
Connect(c) ==
    /\ client[c] = "none"
    /\ client' = [client EXCEPT ![c] = "open"]
    /\ handler' = [handler EXCEPT ![c] = "run"]
    /\ Upload(c, Message("register", c, 0, PeerOf[c]))
    /\ UNCHANGED <<broken, down, peers, registered, sent, got, names>>

\* SignalingClient::send, which takes a further Register like any message;
\* another program may also send what does not parse.
Send(c, s) ==
    /\ client[c] = "open" /\ Len(sent[c]) < Sends[c]
    /\ sent' = [sent EXCEPT ![c] = Append(@, s)]
    /\ Upload(c, Message(s.kind, c, Len(sent[c]) + 1, s.to))
    /\ UNCHANGED <<client, handler, broken, down, peers, registered, got, names>>

\* The reader pump and SignalingClient::recv.
Recv(c) ==
    /\ client[c] = "open" /\ down[c] # <<>>
    /\ got' = [got EXCEPT ![c] = Append(@, Head(down[c]))]
    /\ down' = [down EXCEPT ![c] = Tail(@)]
    /\ UNCHANGED <<client, handler, broken, up, peers, registered, sent, names>>

\* The client is dropped: the writer pump empties its channel and closes.
Drop(c) ==
    /\ client[c] = "open"
    /\ client' = [client EXCEPT ![c] = "dropped"]
    /\ Upload(c, Message("close", c, 0, Nobody))
    /\ down' = [down EXCEPT ![c] = <<>>]
    /\ UNCHANGED <<handler, broken, peers, registered, sent, got, names>>

\* The connection goes, with all but a beginning of what is on its way.
Break(c) ==
    /\ handler[c] = "run" /\ ~broken[c]
    /\ Cardinality({d \in Conns : broken[d]}) < MaxBreaks
    /\ broken' = [broken EXCEPT ![c] = TRUE]
    /\ \E q \in Prefixes(up[c]) : up' = [up EXCEPT ![c] = q]
    /\ \E q \in Prefixes(down[c]) : down' = [down EXCEPT ![c] = q]
    /\ UNCHANGED <<client, handler, peers, registered, sent, got, names>>

-----------------------------------------------------------------------------
(* handle_socket: the loop over what comes in.                             *)

Incoming(c, kind) ==
    /\ handler[c] = "run" /\ up[c] # <<>>
    /\ Head(up[c]).kind = kind
    /\ up' = [up EXCEPT ![c] = Tail(@)]

\* Slip: the handler remembers the first id only.
FirstName(c, p) == IF registered[c] = Nobody THEN p ELSE registered[c]

\* Slip: it remembers the other string at hand, the address.
Address(c, p) == c

LastName(c, p) == p

\* peers.insert, over the channel of whoever was registered.
Register(c) ==
    LET p == Head(up[c]).to IN
    /\ Incoming(c, "register")
    /\ peers' = [peers EXCEPT ![p] = c]
    /\ registered' = [registered EXCEPT ![c] = LastName(c, p)]
    /\ names' = [names EXCEPT ![c] = Append(@, p)]
    /\ UNCHANGED <<client, handler, broken, down, sent, got>>

\* Slip: no error for an unknown peer.
RelayedSilently(c, m) == IF peers[m.to] = Nobody THEN down ELSE Download(peers[m.to], m)

\* Slip: out_tx and peer_tx are swapped.
RelayedToSender(c, m) ==
    IF peers[m.to] = Nobody THEN Download(c, ErrorFor(m)) ELSE Download(c, m)

\* To the connection in the map, or an error back.
Relayed(c, m) ==
    IF peers[m.to] = Nobody THEN Download(c, ErrorFor(m)) ELSE Download(peers[m.to], m)

Relay(c) ==
    /\ Incoming(c, "signal")
    /\ down' = Relayed(c, Head(up[c]))
    /\ UNCHANGED <<client, handler, broken, peers, registered, sent, got, names>>

\* What does not parse is answered ...
Reject(c) ==
    /\ Incoming(c, "garbage")
    /\ down' = Download(c, ErrorFor(Head(up[c])))
    /\ UNCHANGED <<client, handler, broken, peers, registered, sent, got, names>>

\* ... and a message of the protocol that has no target is not.
Ignore(c) ==
    /\ Incoming(c, "untargeted")
    /\ UNCHANGED <<client, handler, broken, down, peers, registered, sent, got, names>>

\* Slip: the retain of a clean-up, with its condition inverted.
RetainedWrongly(c) == [p \in Peers |-> IF peers[p] = c THEN c ELSE Nobody]

\* peers.remove of the remembered id, whosever channel is there.
Unregistered(c) ==
    IF registered[c] = Nobody THEN peers ELSE [peers EXCEPT ![registered[c]] = Nobody]

\* After the loop: sender_task is aborted.  The client is gone, or cut off.
End(c) ==
    /\ handler' = [handler EXCEPT ![c] = "done"]
    /\ peers' = Unregistered(c)
    /\ UNCHANGED <<client, broken, down, registered, sent, got, names>>

\* Slip: Message::Close is skipped like a ping.
NothingEndsIt(m) == FALSE

EndsLoop(m) == m.kind = "close"

Leave(c) ==
    /\ handler[c] = "run" /\ up[c] # <<>>
    /\ EndsLoop(Head(up[c]))
    /\ up' = [up EXCEPT ![c] = <<>>]
    /\ End(c)

\* A receive error: the server finds out about a broken connection, if it does.
Lose(c) ==
    /\ handler[c] = "run" /\ broken[c] /\ up[c] = <<>>
    /\ End(c)
    /\ UNCHANGED up

-----------------------------------------------------------------------------
ClientStep(c) ==
    \/ Connect(c) \/ Recv(c) \/ Drop(c)
    \/ \E s \in Says[c] : Send(c, s)

Handle(c) == Register(c) \/ Relay(c) \/ Reject(c) \/ Ignore(c) \/ Leave(c)

Next == \E c \in Conns : ClientStep(c) \/ Handle(c) \/ Break(c) \/ Lose(c)

Spec == Init /\ [][Next]_vars

\* The tasks of the server and the pumps of the clients are scheduled, and what
\* is written to a connection that holds arrives.  Nothing makes the server
\* notice a connection that has gone silently: it sends no pings.
FairSpec == Spec /\ \A c \in Conns : WF_vars(Handle(c)) /\ WF_vars(Recv(c))

-----------------------------------------------------------------------------
(* Properties.                                                             *)

\* The types of the variables.
TypeOK ==
    /\ client \in [Conns -> {"none", "open", "dropped"}]
    /\ handler \in [Conns -> {"none", "run", "done"}]
    /\ broken \in [Conns -> BOOLEAN]
    /\ up \in [Conns -> Seq(Messages)] /\ down \in [Conns -> Seq(Messages)]
    /\ peers \in [Peers -> Conns \cup {Nobody}]
    /\ registered \in [Conns -> Peers \cup {Nobody}]
    /\ sent \in [Conns -> Seq(Contents)]
    /\ got \in [Conns -> Seq(Messages)]
    /\ names \in [Conns -> Seq(Peers)]

\* d has registered p, and last of all.
Named(d, p)     == \E i \in DOMAIN names[d] : names[d][i] = p
LastNamed(d, p) == names[d] # <<>> /\ names[d][Len(names[d])] = p

Among(q, kind, c, no) ==
    \E i \in DOMAIN q : q[i].kind = kind /\ q[i].from = c /\ q[i].no = no

Received(d, kind, c, no) == Among(got[d], kind, c, no)

\* What has arrived at a connection's client, or is about to.
All(d) == got[d] \o down[d]

\* What a client receives was sent to an id it has registered or answers what it
\* sent; the messages of one connection arrive in the order they were sent in;
\* none arrives twice, be it at two connections of one peer, and none is
\* delivered that is also reported as undeliverable.
RelayIsFaithful ==
    \A d \in Conns :
        /\ \A i \in DOMAIN got[d] :
              LET m == got[d][i] IN
              \/ /\ m.kind = "signal" /\ Named(d, m.to)
                 /\ sent[m.from][m.no] = [kind |-> "signal", to |-> m.to]
              \/ m.kind = "error" /\ m.from = d /\ m.no \in DOMAIN sent[d]
        /\ \A i, j \in DOMAIN got[d] :
              i < j /\ got[d][i].from = got[d][j].from => got[d][i].no < got[d][j].no
        /\ \A i \in DOMAIN got[d] : \A e \in Conns \ {d} :
              ~Received(e, "signal", got[d][i].from, got[d][i].no)

\* The map points to a connection that has ended only under an id that this
\* connection has given up for another: the last one it registered is removed,
\* however close and registration of its namesakes interleave.
StaleOnlyAfterRename ==
    \A p \in Peers : \A c \in Conns : peers[p] = c /\ handler[c] = "done" =>
        Named(c, p) /\ ~LastNamed(c, p)

\* A registered connection that no other connection has ever shared its id with
\* is found, whatever others register, close or lose.
ReachableUnlessNamesake ==
    \A c \in Conns : handler[c] = "run" /\ registered[c] # Nobody =>
        \/ peers[registered[c]] = c
        \/ \E d \in Conns \ {c} : Named(d, registered[c])

\* The server and its clients implement Switchboard: no registration, close or break
\* gets a message to a line that does not go under its target, to two lines, ahead of
\* an earlier one, or to its target and back as an error, nor takes back what came.
Promised == INSTANCE Switchboard WITH
    Line <- Conns, Id <- Peers, OwnId <- PeerOf, Content <- Contents

KeepsSwitchboard == Promised!Spec

Signalled(c, no) == no \in DOMAIN sent[c] /\ sent[c][no].kind = "signal"

Gone(c) == client[c] = "dropped" \/ broken[c]

\* No signal disappears: at every moment it is on its way to the server, on its way to
\* or at a client, or turned into an error for its sender, unless its sender or a
\* connection registered under its target has gone.
Accounted(c, no) ==
    \/ Among(up[c], "signal", c, no)
    \/ \E d \in Conns : Among(All(d), "signal", c, no)
    \/ Among(All(c), "error", c, no)
    \/ Gone(c)
    \/ \E d \in Conns : Named(d, sent[c][no].to) /\ Gone(d)

NoSignalIsLost ==
    \A c \in Conns : \A no \in DOMAIN sent[c] : Signalled(c, no) => Accounted(c, no)

\* A signal reaches a client or comes back as an error, unless its sender or a
\* connection registered under its target has gone.
SignalIsAnswered ==
    \A c \in Conns : \A no \in 1..Sends[c] :
        Signalled(c, no) ~>
            \/ \E d \in Conns : Received(d, "signal", c, no)
            \/ Received(c, "error", c, no)
            \/ Gone(c)
            \/ \E d \in Conns : Signalled(c, no) /\ Named(d, sent[c][no].to) /\ Gone(d)

\* The server ends the task of a client that closes, after all it has sent
\* before was handled.
DroppedIsForgotten ==
    \A c \in Conns : client[c] = "dropped" ~> (handler[c] = "done" \/ broken[c])

-----------------------------------------------------------------------------
(* What the protocol says, and the server does not keep.                   *)

\* SIGNALING_PROTOCOL.md: relays between registered peers.  A connection that is
\* registered under an id no other live connection has registered is found.
RegisteredIsReachable ==
    \A c \in Conns : handler[c] = "run" /\ registered[c] # Nobody =>
        \/ peers[registered[c]] = c
        \/ \E d \in Conns \ {c} : handler[d] = "run" /\ Named(d, registered[c])
=============================================================================
