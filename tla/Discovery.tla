----------------------------- MODULE Discovery -----------------------------
(***************************************************************************)
(* LAN discovery: every running `sendrs send' broadcasts its offer once a  *)
(* second, and a finder (`sendrs discover', or start_discovery of the FFI) *)
(* broadcasts one beacon and then listens until a deadline.                *)
(*                                                                         *)
(* Time goes in ticks of 250 ms, the read timeout of the listener, and only*)
(* differences are kept.  Steps take no time: time passes when everybody   *)
(* sleeps or is blocked in recv_from.  A broadcast puts a copy for every   *)
(* device on the way.  Each arrives when it likes, up to Latency ticks     *)
(* later and in any order, at the socket that is bound on its device then, *)
(* if one is; it may be lost, and it may arrive twice.                     *)
(***************************************************************************)
EXTENDS Integers, Sequences, SequencesExt, FiniteSets

CONSTANTS
    Senders,    \* processes of `sendrs send', each with one code
    Finders,    \* discovery rounds
    Casts,      \* bound: which of them a behaviour is about; the others rest
    Devices,    \* what finders run on; a device is known by its peer id
    Layouts,    \* which finder may run where
    Strangers,  \* where no finder runs: devices of which only the beacons matter
    Addresses,  \* the source addresses a device may have
    Period,     \* ticks a sender sleeps between two broadcasts,
    Jitter,     \* ... and the most it may oversleep
    Timeout,    \* ticks a finder listens
    Latency,    \* the most ticks a datagram is on its way
    MaxBuffer,  \* bound: datagrams in the buffer of a socket
    MaxOdd      \* bound: datagrams lost, doubled, or sent by strangers

ASSUME DiscoveryAssumption ==
    /\ Senders \cap (Finders \cup Devices) = {} /\ Finders \cap Devices = {}
    /\ IsFiniteSet(Finders) /\ Casts \subseteq SUBSET (Senders \cup Finders)
    /\ Layouts \subseteq [Finders -> Devices]
    /\ Strangers \subseteq Devices
    /\ DOMAIN Addresses = Devices /\ {} \notin Range(Addresses)
    /\ Period \in Nat \ {0} /\ Jitter \in Nat /\ MaxBuffer \in Nat /\ MaxOdd \in Nat
    /\ Latency \in Nat
    /\ Timeout \in Nat /\ Timeout > Period + Jitter + Latency

VARIABLES
    hostOf,   \* the device each finder runs on
    sends,    \* each sender: not started, on, stopped
    slept,    \* ticks since its last broadcast
    pc,       \* where each finder is
    bound,    \* does it hold the socket
    elapsed,  \* ticks since its deadline was set
    waited,   \* has its recv_from been blocked for a tick
    inbox,    \* datagrams in the buffer of its socket
    peers,    \* the addresses of each peer it has heard, in order
    offers,   \* the senders whose offers it has heard
    air,      \* copies of datagrams on the way to a device, with their age
    odd,      \* datagrams lost, doubled, or sent by strangers so far
    heard,    \* observed: all datagrams that its loop took
    due       \* observed: whose datagrams its socket has to get before the deadline

finder == <<bound, elapsed, waited, inbox, peers, offers>>
vars == <<hostOf, sends, slept, pc, finder, air, odd, heard, due>>

Offer(s)     == [kind |-> "offer", from |-> s, addr |-> ""]
Beacon(f, a) == [kind |-> "beacon", from |-> f, addr |-> a]

Device(x) == IF x \in Finders THEN hostOf[x] ELSE x

AllAddresses == UNION Range(Addresses)

Datagrams ==
    [kind : {"offer"}, from : Senders, addr : {""}]
    \cup [kind : {"beacon"}, from : Finders \cup Strangers, addr : AllAddresses]

Copies == [what : Datagrams, to : Devices, age : 0..Latency]

First == "beacon"

Nothing == [p \in Devices |-> <<>>]

Init ==
    /\ \E cast \in Casts :
          /\ sends = [s \in Senders |-> IF s \in cast THEN "new" ELSE "stopped"]
          /\ pc = [f \in Finders |-> IF f \in cast THEN First ELSE "done"]
    /\ slept = [s \in Senders |-> 0]
    /\ bound = [f \in Finders |-> FALSE]
    /\ elapsed = [f \in Finders |-> 0] /\ waited = [f \in Finders |-> FALSE]
    /\ inbox = [f \in Finders |-> <<>>]
    /\ peers = [f \in Finders |-> Nothing]
    /\ offers = [f \in Finders |-> {}]
    /\ air = {} /\ odd = 0 /\ hostOf \in Layouts
    /\ heard = [f \in Finders |-> {}] /\ due = [f \in Finders |-> {}]

\* broadcast_packet.  A socket that is bound long enough has to get its copy.
Broadcast(d) ==
    /\ air' = air \cup [what : {d}, to : Range(hostOf), age : {0}]
    /\ due' = [f \in Finders |-> due[f] \cup
                   IF bound[f] /\ elapsed[f] + Latency < Timeout THEN {d.from} ELSE {}]

-----------------------------------------------------------------------------
(* The broadcast thread of cmd_send.                                       *)

Launch(s) ==
    /\ sends[s] = "new"
    /\ sends' = [sends EXCEPT ![s] = "on"]
    /\ slept' = [slept EXCEPT ![s] = Period]
    /\ UNCHANGED <<pc, finder, air, odd, heard, due>>

\* broadcast_share_offer, whose error is ignored, and a sleep of one second.
Announce(s) ==
    /\ sends[s] = "on" /\ slept[s] >= Period
    /\ Broadcast(Offer(s))
    /\ slept' = [slept EXCEPT ![s] = 0]
    /\ UNCHANGED <<sends, pc, finder, odd, heard>>

\* Ctrl+C.
Stop(s) ==
    /\ sends[s] = "on"
    /\ sends' = [sends EXCEPT ![s] = "stopped"]
    /\ slept' = [slept EXCEPT ![s] = 0]
    /\ due' = [f \in Finders |-> due[f] \ {s}]
    /\ UNCHANGED <<pc, finder, air, odd, heard>>

-----------------------------------------------------------------------------
(* discover_snapshot.                                                      *)

\* The end of a round: the socket is closed, with what is in its buffer.
Close(f, how) ==
    /\ pc' = [pc EXCEPT ![f] = how]
    /\ bound' = [bound EXCEPT ![f] = FALSE]
    /\ inbox' = [inbox EXCEPT ![f] = <<>>]
    /\ elapsed' = [elapsed EXCEPT ![f] = 0] /\ waited' = [waited EXCEPT ![f] = FALSE]

\* broadcast_beacon.
SendBeacon(f) ==
    /\ pc[f] = "beacon" /\ pc' = [pc EXCEPT ![f] = "bind"]
    /\ \E a \in Addresses[hostOf[f]] : Broadcast(Beacon(f, a))
    /\ UNCHANGED <<sends, slept, finder, odd, heard>>

\* One socket of a host can have the port; the deadline counts from here.
Bind(f) ==
    /\ ~\E g \in Finders : bound[g] /\ hostOf[g] = hostOf[f]
    /\ pc[f] = "bind" /\ pc' = [pc EXCEPT ![f] = "recv"]
    /\ bound' = [bound EXCEPT ![f] = TRUE]
    /\ due' = [due EXCEPT ![f] = {s \in Senders : sends[s] = "on"}]
    /\ UNCHANGED <<sends, slept, elapsed, waited, inbox, peers, offers, air, odd, heard>>

\* Slip: the deadline is never looked at.
NeverOver(f) == FALSE

\* Slip: one datagram is enough.
EnoughHeard(f) == elapsed[f] >= Timeout \/ heard[f] # {}

Over(f) == elapsed[f] >= Timeout

\* The head of the loop: return the snapshot, or call recv_from again.
Turn(f, buffer) ==
    \/ Over(f) /\ Close(f, "done")
    \/ /\ ~Over(f)
       /\ inbox' = [inbox EXCEPT ![f] = buffer]
       /\ waited' = [waited EXCEPT ![f] = FALSE]
       /\ UNCHANGED <<pc, bound, elapsed>>

\* Slip: the address is pushed without a look at those there are.
Pushed(known, a) == Append(known, a)

WithAddress(known, a) == IF a \in Range(known) THEN known ELSE Append(known, a)

\* recv_from is Ok: an offer goes into the map under owner and code, a beacon
\* makes or completes the entry of its peer.
Recv(f) ==
    LET d == Head(inbox[f]) IN
    /\ pc[f] = "recv" /\ inbox[f] # <<>>
    /\ Turn(f, Tail(inbox[f]))
    /\ heard' = [heard EXCEPT ![f] = @ \cup {d}]
    /\ \/ /\ d.kind = "offer"
          /\ offers' = [offers EXCEPT ![f] = @ \cup {d.from}]
          /\ UNCHANGED peers
       \/ /\ d.kind = "beacon"
          /\ peers' = [peers EXCEPT ![f][Device(d.from)] = WithAddress(@, d.addr)]
          /\ UNCHANGED offers
    /\ UNCHANGED <<sends, slept, air, odd, due>>

\* Slip: silence ends the loop.
EndAtSilence(f) == Close(f, "done")

\* Slip: the deadline counts from the last silence.
DeadlineAnew(f) ==
    /\ elapsed' = [elapsed EXCEPT ![f] = 0] /\ waited' = [waited EXCEPT ![f] = FALSE]
    /\ UNCHANGED <<pc, bound, inbox>>

AfterSilence(f) == Turn(f, <<>>)

\* WouldBlock or TimedOut, after one tick without a datagram.
Silence(f) ==
    /\ pc[f] = "recv" /\ inbox[f] = <<>> /\ waited[f]
    /\ AfterSilence(f)
    /\ UNCHANGED <<sends, slept, peers, offers, air, odd, heard, due>>

\* Any other error of the two sockets, and of bind if the port is taken.
SocketError(f) ==
    /\ pc[f] \in {"beacon", "bind", "recv"}
    /\ Close(f, "failed")
    /\ peers' = [peers EXCEPT ![f] = Nothing] /\ offers' = [offers EXCEPT ![f] = {}]
    /\ heard' = [heard EXCEPT ![f] = {}] /\ due' = [due EXCEPT ![f] = {}]
    /\ UNCHANGED <<sends, slept, air, odd>>

-----------------------------------------------------------------------------
(* The network and the rest of the world.                                  *)

\* The socket that is bound on a device.
BoundOn(f, h) == bound[f] /\ hostOf[f] = h

\* A copy is at its device; without a socket there it is gone.
Reach(x) ==
    /\ inbox' = [f \in Finders |->
                     IF BoundOn(f, x.to) THEN Append(inbox[f], x.what) ELSE inbox[f]]
    /\ \A f \in Finders : Len(inbox'[f]) <= MaxBuffer
    /\ UNCHANGED <<sends, slept, pc, bound, elapsed, waited, peers, offers, heard, due>>

Arrive(x) == Reach(x) /\ air' = air \ {x} /\ UNCHANGED odd

Odd == odd < MaxOdd /\ odd' = odd + 1

\* It will arrive once more.
Doubled(x) == Reach(x) /\ Odd /\ UNCHANGED air

\* On the way, or because the buffer is full.
Lost(x) ==
    /\ Odd /\ air' = air \ {x}
    /\ due' = [f \in Finders |->
                   IF BoundOn(f, x.to) THEN due[f] \ {x.what.from} ELSE due[f]]
    /\ UNCHANGED <<sends, slept, pc, finder, heard>>

\* A round that is not looked at here.
Hello(h) ==
    /\ Odd /\ h \notin Range(hostOf)
    /\ \E a \in Addresses[h] : Broadcast(Beacon(h, a))
    /\ UNCHANGED <<sends, slept, pc, finder, heard>>

\* Time passes when no sender has slept too long, every finder that listens is
\* blocked in recv_from, and no copy has been on its way too long.
Tick ==
    /\ \A s \in Senders : sends[s] = "on" => slept[s] < Period + Jitter
    /\ \A f \in Finders : \/ pc[f] \in {First, "done", "failed"}
                          \/ pc[f] = "recv" /\ inbox[f] = <<>> /\ ~waited[f]
    /\ \A x \in air : x.age < Latency
    /\ air' = {[x EXCEPT !.age = @ + 1] : x \in air}
    /\ slept' = [s \in Senders |-> IF sends[s] = "on" THEN slept[s] + 1 ELSE slept[s]]
    /\ elapsed' = [f \in Finders |-> IF bound[f] THEN elapsed[f] + 1 ELSE elapsed[f]]
    /\ waited' = [f \in Finders |-> waited[f] \/ bound[f]]
    /\ UNCHANGED <<sends, pc, bound, inbox, peers, offers, odd, heard, due>>

Round(f) ==
    \/ SendBeacon(f) \/ Bind(f) \/ Recv(f) \/ Silence(f) \/ SocketError(f)

Begun(f) == pc[f] # First

Clockwork ==
    /\ \/ Tick
       \/ \E s \in Senders : Announce(s)
       \/ \E x \in air : Arrive(x)
       \/ \E f \in Finders : Begun(f) /\ Round(f)
    /\ UNCHANGED hostOf

Next ==
    \/ Clockwork
    \/ /\ \/ \E s \in Senders : Launch(s) \/ Stop(s)
          \/ \E f \in Finders : Round(f)
          \/ \E x \in air : Doubled(x) \/ Lost(x)
          \/ \E h \in Strangers : Hello(h)
       /\ UNCHANGED hostOf

Spec == Init /\ [][Next]_vars

\* Threads are scheduled, and time goes on; nobody has to begin a round.
FairSpec == Spec /\ WF_vars(Clockwork)

-----------------------------------------------------------------------------
(* Properties.                                                             *)

\* The types of the variables; no counter passes its limit.
TypeOK ==
    /\ sends \in [Senders -> {"new", "on", "stopped"}]
    /\ slept \in [Senders -> 0..(Period + Jitter)]
    /\ pc \in [Finders -> {"beacon", "bind", "recv", "done", "failed"}]
    /\ bound \in [Finders -> BOOLEAN]
    /\ elapsed \in [Finders -> 0..Timeout]
    /\ waited \in [Finders -> BOOLEAN]
    /\ inbox \in [Finders -> Seq(Datagrams)]
    /\ peers \in [Finders -> [Devices -> Seq(AllAddresses)]]
    /\ offers \in [Finders -> SUBSET Senders]
    /\ air \subseteq Copies /\ odd \in 0..MaxOdd /\ hostOf \in Layouts
    /\ heard \in [Finders -> SUBSET Datagrams]
    /\ due \in [Finders -> SUBSET (Senders \cup Finders \cup Strangers)]

\* A snapshot is a function of the set of datagrams heard, whatever was repeated:
\* every peer is there once, with each of its addresses once, every offer once.
SnapshotIsWhatWasHeard ==
    \A f \in Finders :
        /\ offers[f] = {d.from : d \in {e \in heard[f] : e.kind = "offer"}}
        /\ \A p \in Devices :
              /\ Range(peers[f][p]) = {d.addr : d \in
                    {e \in heard[f] : e.kind = "beacon" /\ Device(e.from) = p}}
              /\ IsInjective(peers[f][p])

\* README: discover shows the offers of active send sessions.  A sender that was on
\* from bind to deadline, none of whose datagrams was lost on the way, is in the
\* snapshot, however late it wakes, whatever is on the way when the listening starts,
\* and however long its datagram takes.
RunningSendIsShown ==
    \A f \in Finders : pc[f] = "done" => due[f] \cap Senders \subseteq offers[f]

\* A round that sends its beacon while another listens, early enough for the beacon to
\* arrive before the deadline, is found by it, unless the beacon was lost.  Of two
\* rounds that begin together each may find the other, or one, or none: the beacon
\* goes out before the socket is bound.
LaterRoundIsFound ==
    \A f \in Finders : pc[f] = "done" =>
        \A g \in due[f] \ Senders : peers[f][Device(g)] # <<>>

\* A round ends with a snapshot or an error, also if datagrams arrive at the deadline.
RoundEnds == \A f \in Finders : Begun(f) ~> pc[f] \in {"done", "failed"}
=============================================================================
