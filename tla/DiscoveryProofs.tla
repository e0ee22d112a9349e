-------------------------- MODULE DiscoveryProofs --------------------------
(***************************************************************************)
(* Theorems about Discovery for any number of senders and rounds on any    *)
(* devices, any buffers and faults, and all periods and timeouts with      *)
(* Timeout > Period + Jitter + Latency.                                    *)
(***************************************************************************)
EXTENDS Discovery, SequenceTheorems, FiniteSetTheorems, TLAPS

USE DEF First

-----------------------------------------------------------------------------
(* Sequences.                                                              *)

LEMMA Ranges ==
    ASSUME NEW S
    PROVE  /\ Range(<<>>) = {} /\ <<>> \in Seq(S)
           /\ \A s \in Seq(S) : s # <<>> =>
                 /\ Head(s) \in S /\ Tail(s) \in Seq(S)
                 /\ Range(s) = {Head(s)} \cup Range(Tail(s))
           /\ \A s \in Seq(S), x \in S :
                 /\ Append(s, x) \in Seq(S)
                 /\ Range(Append(s, x)) = Range(s) \cup {x}
<1>1. Range(<<>>) = {} /\ <<>> \in Seq(S)
  BY DEF Range
<1>2. ASSUME NEW s \in Seq(S), s # <<>>
      PROVE  /\ Head(s) \in S /\ Tail(s) \in Seq(S)
             /\ Range(s) = {Head(s)} \cup Range(Tail(s))
  <2>1. /\ Head(s) \in S /\ Tail(s) \in Seq(S) /\ Len(Tail(s)) = Len(s) - 1
        /\ \A i \in 1..Len(Tail(s)) : Tail(s)[i] = s[i + 1]
        /\ Len(s) \in Nat \ {0} /\ Head(s) = s[1]
    <3>1. /\ Head(s) \in S /\ Tail(s) \in Seq(S) /\ Len(Tail(s)) = Len(s) - 1
          /\ \A i \in 1..Len(Tail(s)) : Tail(s)[i] = s[i + 1]
      BY <1>2, HeadTailProperties
    <3>2. Len(s) \in Nat \ {0} /\ Head(s) = s[1]
      BY <1>2
    <3> QED
      BY <3>1, <3>2
  <2>2. /\ Range(s) = {s[i] : i \in 1..Len(s)}
        /\ Range(Tail(s)) = {Tail(s)[i] : i \in 1..Len(Tail(s))}
    <3>1. DOMAIN s = 1..Len(s) /\ DOMAIN Tail(s) = 1..Len(Tail(s))
      BY <2>1
    <3> QED
      BY <3>1, Zenon DEF Range
  <2>3. \A i \in 1..Len(s) : s[i] = Head(s) \/ s[i] \in Range(Tail(s))
    <3> SUFFICES ASSUME NEW i \in 1..Len(s), i # 1
                 PROVE  s[i] \in Range(Tail(s))
      BY <2>1
    <3>1. i - 1 \in 1..Len(Tail(s)) /\ Tail(s)[i - 1] = s[i]
      BY <2>1
    <3> QED
      BY <2>2, <3>1
  <2>4. \A i \in 1..Len(Tail(s)) : Tail(s)[i] \in Range(s)
    <3> SUFFICES ASSUME NEW i \in 1..Len(Tail(s))
                 PROVE  Tail(s)[i] \in Range(s)
      OBVIOUS
    <3>1. i + 1 \in 1..Len(s) /\ Tail(s)[i] = s[i + 1]
      BY <2>1
    <3> QED
      BY <2>2, <3>1
  <2>5. Head(s) \in Range(s)
    BY <2>1, <2>2
  <2> QED
    BY <2>1, <2>2, <2>3, <2>4, <2>5
<1>3. ASSUME NEW s \in Seq(S), NEW x \in S
      PROVE  /\ Append(s, x) \in Seq(S)
             /\ Range(Append(s, x)) = Range(s) \cup {x}
  <2>1. Append(s, x) = s \o <<x>> /\ <<x>> \in Seq(S) /\ Append(s, x) \in Seq(S)
    BY <1>3
  <2>2. Range(<<x>>) = {x}
    BY DEF Range
  <2> DEFINE one == <<x>>
  <2>3. one \in Seq(S) /\ Append(s, x) = s \o one
    BY <2>1
  <2> HIDE DEF one
  <2>4. Range(s \o one) = Range(s) \cup Range(one)
    BY <1>3, <2>3, RangeConcatenation
  <2> QED
    BY <2>1, <2>2, <2>3, <2>4 DEF one
<1> QED
  BY <1>1, <1>2, <1>3

\* What WithAddress makes of the addresses of a peer.
LEMMA AddressKnownOnce ==
    ASSUME NEW S, NEW known \in Seq(S), NEW a \in S
    PROVE  /\ WithAddress(known, a) \in Seq(S)
           /\ Range(WithAddress(known, a)) = Range(known) \cup {a}
           /\ IsInjective(known) => IsInjective(WithAddress(known, a))
<1>1. CASE a \in Range(known)
  BY <1>1 DEF WithAddress
<1>2. CASE a \notin Range(known)
  <2>1. /\ WithAddress(known, a) = Append(known, a)
        /\ Append(known, a) \in Seq(S)
        /\ Range(Append(known, a)) = Range(known) \cup {a}
    BY <1>2, Ranges DEF WithAddress
  <2>2. ASSUME IsInjective(known)
        PROVE  IsInjective(Append(known, a))
    <3>1. /\ DOMAIN Append(known, a) = 1..(Len(known) + 1) /\ DOMAIN known = 1..Len(known)
          /\ Len(known) \in Nat
          /\ Append(known, a)[Len(known) + 1] = a
          /\ \A i \in 1..Len(known) : Append(known, a)[i] = known[i]
      OBVIOUS
    <3>2. \A i \in 1..Len(known) : known[i] # a
      BY <1>2, <3>1 DEF Range
    <3>3. SUFFICES ASSUME NEW i \in 1..(Len(known) + 1), NEW j \in 1..(Len(known) + 1),
                          Append(known, a)[i] = Append(known, a)[j]
                   PROVE  i = j
      BY <3>1 DEF IsInjective
    <3>4. CASE i \in 1..Len(known) /\ j \in 1..Len(known)
      BY <2>2, <3>1, <3>3, <3>4 DEF IsInjective
    <3>5. CASE i = Len(known) + 1 \/ j = Len(known) + 1
      BY <3>1, <3>2, <3>3, <3>5
    <3> QED
      BY <3>1, <3>4, <3>5
  <2> QED
    BY <2>1, <2>2
<1> QED
  BY <1>1, <1>2

-----------------------------------------------------------------------------
(* Type correctness.                                                       *)

\* A socket is bound while its loop runs, and its deadline is seen in time.
LoopInv ==
    \A f \in Finders :
        /\ bound[f] <=> pc[f] = "recv"
        /\ ~bound[f] => inbox[f] = <<>> /\ elapsed[f] = 0 /\ ~waited[f]
        /\ bound[f] /\ ~waited[f] => elapsed[f] < Timeout

TypeInv == TypeOK /\ LoopInv

Everyone == Senders \cup Finders \cup Strangers

LEMMA Known ==
    ASSUME TypeOK
    PROVE  /\ Period \in Nat \ {0} /\ Jitter \in Nat /\ Latency \in Nat
           /\ Timeout \in Nat /\ Timeout > Period + Jitter + Latency
           /\ MaxOdd \in Nat
           /\ (\A f \in Finders : hostOf[f] \in Devices) /\ Range(hostOf) \subseteq Devices
           /\ \A f \in Finders : hostOf[f] \in Range(hostOf)
           /\ \A x \in Finders \cup Strangers : Device(x) \in Devices
           /\ \A h \in Devices : \A a \in Addresses[h] : a \in AllAddresses
           /\ \A s \in Senders : Offer(s) \in Datagrams
           /\ \A x \in Finders \cup Strangers, a \in AllAddresses : Beacon(x, a) \in Datagrams
           /\ \A d \in Datagrams :
                 /\ d.kind \in {"offer", "beacon"} /\ d.from \in Everyone
                 /\ d.kind = "offer" => d.from \in Senders /\ d = Offer(d.from)
                 /\ d.kind = "beacon" => d.from \in Finders \cup Strangers /\ d.addr \in AllAddresses
<1>1. /\ Layouts \subseteq [Finders -> Devices] /\ Strangers \subseteq Devices
      /\ hostOf \in Layouts /\ DOMAIN Addresses = Devices
  BY DiscoveryAssumption DEF DiscoveryAssumption, TypeOK
<1>2. /\ Period \in Nat \ {0} /\ Jitter \in Nat /\ Latency \in Nat
      /\ Timeout \in Nat /\ Timeout > Period + Jitter + Latency
      /\ MaxOdd \in Nat
  BY DiscoveryAssumption DEF DiscoveryAssumption
<1>3. /\ (\A f \in Finders : hostOf[f] \in Devices) /\ Range(hostOf) \subseteq Devices
      /\ \A f \in Finders : hostOf[f] \in Range(hostOf)
  BY <1>1 DEF Range
<1>4. \A h \in Devices : \A a \in Addresses[h] : a \in AllAddresses
  BY <1>1 DEF AllAddresses, Range
<1>5. \A d \in Datagrams :
         /\ d.kind \in {"offer", "beacon"} /\ d.from \in Everyone
         /\ d.kind = "offer" => d.from \in Senders /\ d = Offer(d.from)
         /\ d.kind = "beacon" => d.from \in Finders \cup Strangers /\ d.addr \in AllAddresses
  <2> SUFFICES ASSUME NEW d \in Datagrams
               PROVE  /\ d.kind \in {"offer", "beacon"} /\ d.from \in Everyone
                      /\ d.kind = "offer" => d.from \in Senders /\ d = Offer(d.from)
                      /\ d.kind = "beacon" =>
                            d.from \in Finders \cup Strangers /\ d.addr \in AllAddresses
    OBVIOUS
  <2>1. CASE d \in [kind : {"offer"}, from : Senders, addr : {""}]
    <3>1. d.kind = "offer" /\ d.from \in Senders /\ d.addr = ""
      BY <2>1
    <3>2. d = [kind |-> "offer", from |-> d.from, addr |-> ""]
      BY <2>1
    <3> QED
      BY <3>1, <3>2 DEF Offer, Everyone
  <2>2. CASE d \in [kind : {"beacon"}, from : Finders \cup Strangers, addr : AllAddresses]
    BY <2>2 DEF Everyone
  <2> QED
    BY <2>1, <2>2 DEF Datagrams
<1>6. /\ \A s \in Senders : Offer(s) \in Datagrams
      /\ \A x \in Finders \cup Strangers, a \in AllAddresses : Beacon(x, a) \in Datagrams
  BY DEF Datagrams, Offer, Beacon
<1> QED
  BY <1>1, <1>2, <1>3, <1>4, <1>5, <1>6 DEF Device

LEMMA TypeInit ==
    ASSUME Init
    PROVE  TypeInv
<1>1. /\ Period \in Nat \ {0} /\ Jitter \in Nat /\ Timeout \in Nat /\ Timeout > 0
      /\ MaxOdd \in Nat
  BY DiscoveryAssumption DEF DiscoveryAssumption
<1>2. /\ inbox \in [Finders -> Seq(Datagrams)]
      /\ peers \in [Finders -> [Devices -> Seq(AllAddresses)]]
  BY DEF Init, Nothing
<1>3. /\ sends \in [Senders -> {"new", "on", "stopped"}]
      /\ slept \in [Senders -> 0..(Period + Jitter)]
      /\ pc \in [Finders -> {"beacon", "bind", "recv", "done", "failed"}]
      /\ bound \in [Finders -> BOOLEAN] /\ waited \in [Finders -> BOOLEAN]
      /\ elapsed \in [Finders -> 0..Timeout]
      /\ offers \in [Finders -> SUBSET Senders]
      /\ heard \in [Finders -> SUBSET Datagrams]
      /\ due \in [Finders -> SUBSET (Senders \cup Finders \cup Strangers)]
      /\ air \subseteq Copies /\ odd \in 0..MaxOdd /\ hostOf \in Layouts
  BY <1>1 DEF Init
<1>4. LoopInv
  BY <1>1 DEF Init, LoopInv
<1> QED
  BY <1>2, <1>3, <1>4 DEF TypeInv, TypeOK

\* What a broadcast puts on the way, and to whom it is due.
LEMMA Broadcasting ==
    ASSUME TypeInv, NEW d \in Datagrams, Broadcast(d)
    PROVE  /\ air' \subseteq Copies /\ air \subseteq air'
           /\ due' \in [Finders -> SUBSET Everyone]
           /\ \A f \in Finders :
                 /\ due'[f] \subseteq due[f] \cup {d.from}
                 /\ ~bound[f] => due'[f] = due[f]
                 /\ \/ d.from \notin due'[f] \ due[f]
                    \/ elapsed[f] + Latency < Timeout
                 /\ [what |-> d, to |-> hostOf[f], age |-> 0] \in air'
<1>1. /\ air \subseteq Copies /\ due \in [Finders -> SUBSET Everyone]
      /\ d.from \in Everyone /\ 0 \in 0..Latency
      /\ Range(hostOf) \subseteq Devices /\ \A f \in Finders : hostOf[f] \in Range(hostOf)
  BY Known DEF TypeInv, TypeOK, Everyone
<1> DEFINE new == [what : {d}, to : Range(hostOf), age : {0}]
<1>2. /\ new \subseteq Copies
      /\ \A f \in Finders : [what |-> d, to |-> hostOf[f], age |-> 0] \in new
  BY <1>1 DEF Copies
<1>3. /\ air' = air \cup new
      /\ due' = [f \in Finders |-> due[f] \cup
                    IF bound[f] /\ elapsed[f] + Latency < Timeout THEN {d.from} ELSE {}]
  BY DEF Broadcast
<1> HIDE DEF new
<1> QED
  BY <1>1, <1>2, <1>3

\* The types of what the loop of a round works on.
RoundType ==
    /\ pc \in [Finders -> {"beacon", "bind", "recv", "done", "failed"}]
    /\ bound \in [Finders -> BOOLEAN]
    /\ elapsed \in [Finders -> 0..Timeout]
    /\ waited \in [Finders -> BOOLEAN]
    /\ inbox \in [Finders -> Seq(Datagrams)]

\* The rest of TypeOK.
OthersType ==
    /\ sends \in [Senders -> {"new", "on", "stopped"}]
    /\ slept \in [Senders -> 0..(Period + Jitter)]
    /\ peers \in [Finders -> [Devices -> Seq(AllAddresses)]]
    /\ offers \in [Finders -> SUBSET Senders]
    /\ air \subseteq Copies /\ odd \in 0..MaxOdd /\ hostOf \in Layouts
    /\ heard \in [Finders -> SUBSET Datagrams]
    /\ due \in [Finders -> SUBSET Everyone]

LEMMA Types == TypeOK <=> RoundType /\ OthersType
  BY DEF TypeOK, RoundType, OthersType, Everyone

LEMMA Closing ==
    ASSUME TypeInv, NEW f \in Finders, NEW how \in {"done", "failed"}, Close(f, how)
    PROVE  RoundType' /\ LoopInv'
<1>1. RoundType /\ LoopInv /\ Timeout \in Nat
  BY Types, Known DEF TypeInv
<1>2. RoundType'
  BY <1>1 DEF Close, RoundType
<1>3. LoopInv'
  BY <1>1 DEF Close, RoundType, LoopInv
<1> QED
  BY <1>2, <1>3

LEMMA Turning ==
    ASSUME TypeInv, NEW f \in Finders, pc[f] = "recv",
           NEW buffer \in Seq(Datagrams), Turn(f, buffer)
    PROVE  RoundType' /\ LoopInv'
<1>1. RoundType /\ LoopInv /\ Timeout \in Nat
  BY Types, Known DEF TypeInv
<1>2. CASE Close(f, "done")
  BY <1>2, Closing
<1>3. CASE ~Close(f, "done")
  <2>1. /\ elapsed[f] < Timeout
        /\ inbox' = [inbox EXCEPT ![f] = buffer] /\ waited' = [waited EXCEPT ![f] = FALSE]
        /\ UNCHANGED <<pc, bound, elapsed>>
    BY <1>1, <1>3 DEF Turn, Over, RoundType
  <2>2. RoundType'
    BY <1>1, <2>1 DEF RoundType
  <2>3. LoopInv'
    BY <1>1, <2>1 DEF RoundType, LoopInv
  <2> QED
    BY <2>2, <2>3
<1> QED
  BY <1>2, <1>3

LEMMA TypeSenders ==
    ASSUME TypeInv, NEW s \in Senders, UNCHANGED hostOf,
           Launch(s) \/ Announce(s) \/ Stop(s)
    PROVE  TypeInv'
<1>0. /\ RoundType /\ OthersType /\ LoopInv
      /\ Period \in Nat /\ Jitter \in Nat /\ Offer(s) \in Datagrams
  BY Types, Known DEF TypeInv
<1>1. sends' \in [Senders -> {"new", "on", "stopped"}]
  BY <1>0 DEF Launch, Announce, Stop, OthersType
<1>2. slept' \in [Senders -> 0..(Period + Jitter)]
  <2>1. slept' = [slept EXCEPT ![s] = Period] \/ slept' = [slept EXCEPT ![s] = 0]
    BY DEF Launch, Announce, Stop
  <2> QED
    BY <1>0, <2>1 DEF OthersType
<1>3. air' \subseteq Copies /\ due' \in [Finders -> SUBSET Everyone]
  <2>1. CASE Launch(s)
    BY <1>0, <2>1 DEF Launch, OthersType
  <2>2. CASE Announce(s)
    BY <1>0, <2>2, Broadcasting DEF Announce
  <2>3. CASE Stop(s)
    BY <1>0, <2>3 DEF Stop, OthersType
  <2> QED
    BY <2>1, <2>2, <2>3
<1>4. UNCHANGED <<pc, bound, elapsed, waited, inbox, peers, offers, odd, heard>>
  BY DEF Launch, Announce, Stop, finder
<1>5. LoopInv'
  BY <1>0, <1>4 DEF LoopInv
<1> QED
  BY <1>0, <1>1, <1>2, <1>3, <1>4, <1>5 DEF TypeInv, TypeOK, RoundType, OthersType, Everyone

LEMMA Beacons ==
    ASSUME TypeInv,
           \/ \E f \in Finders : SendBeacon(f)
           \/ \E h \in Strangers : Hello(h)
    PROVE  \E d \in Datagrams : Broadcast(d)
<1>1. CASE \E f \in Finders : SendBeacon(f)
  <2>1. PICK f \in Finders : \E a \in Addresses[hostOf[f]] : Broadcast(Beacon(f, a))
    BY <1>1 DEF SendBeacon
  <2>2. \A a \in Addresses[hostOf[f]] : Beacon(f, a) \in Datagrams
    BY Known DEF TypeInv
  <2> QED
    BY <2>1, <2>2
<1>2. CASE \E h \in Strangers : Hello(h)
  <2>1. PICK h \in Strangers : \E a \in Addresses[h] : Broadcast(Beacon(h, a))
    BY <1>2 DEF Hello
  <2>2. h \in Devices
    BY DiscoveryAssumption DEF DiscoveryAssumption
  <2>3. \A a \in Addresses[h] : Beacon(h, a) \in Datagrams
    BY <2>2, Known DEF TypeInv
  <2> QED
    BY <2>1, <2>3
<1> QED
  BY <1>1, <1>2

LEMMA TypeSpeaks ==
    ASSUME TypeInv, UNCHANGED hostOf,
           \/ \E f \in Finders : SendBeacon(f)
           \/ \E h \in Strangers : Hello(h)
    PROVE  TypeInv'
<1>0. RoundType /\ OthersType /\ LoopInv /\ MaxOdd \in Nat
  BY Types, Known DEF TypeInv
<1>1. air' \subseteq Copies /\ due' \in [Finders -> SUBSET Everyone]
  BY Beacons, Broadcasting
<1>2. odd' \in 0..MaxOdd
  BY <1>0 DEF SendBeacon, Hello, Odd, OthersType
<1>3. UNCHANGED <<sends, slept, bound, elapsed, waited, inbox, peers, offers, heard>>
  BY DEF SendBeacon, Hello, finder
<1>4. \/ pc' = pc
      \/ \E f \in Finders : pc[f] = "beacon" /\ pc' = [pc EXCEPT ![f] = "bind"]
  BY DEF SendBeacon, Hello
<1>5. pc' \in [Finders -> {"beacon", "bind", "recv", "done", "failed"}]
  BY <1>0, <1>4 DEF RoundType
<1>6. LoopInv'
  BY <1>0, <1>3, <1>4 DEF LoopInv, RoundType
<1> QED
  BY <1>0, <1>1, <1>2, <1>3, <1>5, <1>6 DEF TypeInv, TypeOK, RoundType, OthersType, Everyone

LEMMA TypeNetwork ==
    ASSUME TypeInv, NEW x \in air, UNCHANGED hostOf,
           Arrive(x) \/ Doubled(x) \/ Lost(x)
    PROVE  TypeInv'
<1>0. RoundType /\ OthersType /\ LoopInv /\ MaxOdd \in Nat
  BY Types, Known DEF TypeInv
<1>1. x.what \in Datagrams
  BY <1>0 DEF OthersType, Copies
<1>2. UNCHANGED <<sends, slept, pc, bound, elapsed, waited, peers, offers, heard>>
  BY DEF Arrive, Doubled, Lost, Reach, finder
<1>3. air' \subseteq Copies /\ odd' \in 0..MaxOdd
  BY <1>0 DEF Arrive, Doubled, Lost, Odd, OthersType
<1>4. due' \in [Finders -> SUBSET Everyone]
  BY <1>0 DEF Arrive, Doubled, Lost, Reach, OthersType
<1>5. /\ inbox' \in [Finders -> Seq(Datagrams)]
      /\ \A f \in Finders : ~bound[f] => inbox'[f] = inbox[f]
  <2>1. CASE Reach(x)
    <3>1. \A f \in Finders : Append(inbox[f], x.what) \in Seq(Datagrams)
      BY <1>0, <1>1 DEF RoundType
    <3> QED
      BY <1>0, <2>1, <3>1 DEF Reach, BoundOn, RoundType
  <2>2. CASE Lost(x)
    BY <1>0, <2>2 DEF Lost, finder, RoundType
  <2> QED
    BY <2>1, <2>2 DEF Arrive, Doubled
<1>6. LoopInv'
  BY <1>0, <1>2, <1>5 DEF LoopInv
<1> QED
  BY <1>0, <1>2, <1>3, <1>4, <1>5, <1>6 DEF TypeInv, TypeOK, RoundType, OthersType, Everyone

LEMMA TypeRound ==
    ASSUME TypeInv, NEW f \in Finders, UNCHANGED hostOf,
           Bind(f) \/ Recv(f) \/ Silence(f) \/ SocketError(f)
    PROVE  TypeInv'
<1>0. RoundType /\ OthersType /\ LoopInv /\ Timeout \in Nat /\ Timeout > 0
  BY Types, Known DEF TypeInv
<1>1. CASE Bind(f)
  <2>1. /\ pc[f] = "bind" /\ pc' = [pc EXCEPT ![f] = "recv"]
        /\ bound' = [bound EXCEPT ![f] = TRUE]
        /\ due' = [due EXCEPT ![f] = {s \in Senders : sends[s] = "on"}]
        /\ UNCHANGED <<sends, slept, elapsed, waited, inbox, peers, offers, air, odd, heard>>
    BY <1>1 DEF Bind
  <2>2. due' \in [Finders -> SUBSET Everyone]
    BY <1>0, <2>1 DEF OthersType, Everyone
  <2>3. RoundType' /\ OthersType'
    BY <1>0, <2>1, <2>2 DEF RoundType, OthersType
  <2>4. LoopInv'
    BY <1>0, <2>1 DEF RoundType, LoopInv
  <2> QED
    BY <2>3, <2>4, Types DEF TypeInv, TypeOK, RoundType, OthersType, Everyone
<1>2. CASE Recv(f)
  <2> DEFINE d == Head(inbox[f])
  <2>1. /\ inbox[f] \in Seq(Datagrams) /\ inbox[f] # <<>>
        /\ d \in Datagrams /\ Tail(inbox[f]) \in Seq(Datagrams)
    BY <1>0, <1>2, Ranges DEF Recv, RoundType
  <2>2. /\ pc[f] = "recv" /\ Turn(f, Tail(inbox[f]))
        /\ heard' = [heard EXCEPT ![f] = @ \cup {d}]
        /\ UNCHANGED <<sends, slept, air, odd, due>>
    BY <1>2 DEF Recv
  <2>3. heard' \in [Finders -> SUBSET Datagrams]
    BY <1>0, <2>1, <2>2 DEF OthersType
  <2>4. RoundType' /\ LoopInv'
    BY <2>1, <2>2, Turning
  <2>5. offers' \in [Finders -> SUBSET Senders]
    <3>1. d.kind = "offer" => d.from \in Senders
      BY <2>1, Known DEF TypeInv
    <3>2. offers' = offers \/ (d.kind = "offer" /\ offers' = [offers EXCEPT ![f] = @ \cup {d.from}])
      BY <1>2 DEF Recv
    <3>3. offers \in [Finders -> SUBSET Senders]
      BY <1>0 DEF OthersType
    <3> HIDE DEF d
    <3> QED
      BY <3>1, <3>2, <3>3
  <2>6. peers' \in [Finders -> [Devices -> Seq(AllAddresses)]]
    <3>1. CASE d.kind = "beacon"
      <4> DEFINE p == Device(d.from)
      <4>1. p \in Devices /\ d.addr \in AllAddresses
        BY <2>1, <3>1, Known DEF TypeInv
      <4>2. peers[f] \in [Devices -> Seq(AllAddresses)] /\ peers[f][p] \in Seq(AllAddresses)
        BY <1>0, <4>1 DEF OthersType
      <4>3. WithAddress(peers[f][p], d.addr) \in Seq(AllAddresses)
        BY <4>1, <4>2, AddressKnownOnce
      <4>4. peers' = [peers EXCEPT ![f] = [peers[f] EXCEPT ![p] = WithAddress(peers[f][p], d.addr)]]
        BY <1>2, <3>1 DEF Recv
      <4> HIDE DEF p, d
      <4>5. [peers[f] EXCEPT ![p] = WithAddress(peers[f][p], d.addr)] \in [Devices -> Seq(AllAddresses)]
        BY <4>2, <4>3
      <4> QED
        BY <1>0, <4>4, <4>5 DEF OthersType
    <3>2. CASE d.kind # "beacon"
      BY <1>0, <1>2, <3>2 DEF Recv, OthersType
    <3> QED
      BY <3>1, <3>2
  <2> QED
    BY <1>0, <2>2, <2>3, <2>4, <2>5, <2>6 DEF TypeInv, TypeOK, RoundType, OthersType, Everyone
<1>3. CASE Silence(f)
  <2>1. /\ pc[f] = "recv" /\ Turn(f, <<>>) /\ <<>> \in Seq(Datagrams)
        /\ UNCHANGED <<sends, slept, peers, offers, air, odd, heard, due>>
    BY <1>3 DEF Silence, AfterSilence
  <2>2. RoundType' /\ LoopInv'
    BY <2>1, Turning
  <2> QED
    BY <1>0, <2>1, <2>2 DEF TypeInv, TypeOK, RoundType, OthersType, Everyone
<1>4. CASE SocketError(f)
  <2>1. /\ Close(f, "failed")
        /\ peers' = [peers EXCEPT ![f] = Nothing] /\ offers' = [offers EXCEPT ![f] = {}]
        /\ heard' = [heard EXCEPT ![f] = {}] /\ due' = [due EXCEPT ![f] = {}]
        /\ UNCHANGED <<sends, slept, air, odd>>
    BY <1>4 DEF SocketError
  <2>2. RoundType' /\ LoopInv'
    BY <1>0, <2>1, Closing DEF OthersType
  <2>3. Nothing \in [Devices -> Seq(AllAddresses)]
    BY DEF Nothing
  <2>4. OthersType'
    BY <1>0, <2>1, <2>3 DEF OthersType
  <2> QED
    BY <2>2, <2>4 DEF TypeInv, TypeOK, RoundType, OthersType, Everyone
<1> QED
  BY <1>1, <1>2, <1>3, <1>4

LEMMA TypeTick ==
    ASSUME TypeInv, UNCHANGED hostOf, Tick
    PROVE  TypeInv'
<1>0. /\ RoundType /\ OthersType /\ LoopInv
      /\ Timeout \in Nat /\ Period \in Nat /\ Jitter \in Nat /\ Latency \in Nat
  BY Types, Known DEF TypeInv
<1>1. \A f \in Finders : bound[f] => ~waited[f] /\ elapsed[f] + 1 \in 0..Timeout
  <2> SUFFICES ASSUME NEW f \in Finders, bound[f]
               PROVE  ~waited[f] /\ elapsed[f] + 1 \in 0..Timeout
    OBVIOUS
  <2>1. pc[f] = "recv" /\ First = "beacon"
    BY <1>0 DEF LoopInv
  <2>2. ~waited[f]
    BY <2>1 DEF Tick
  <2>3. elapsed[f] < Timeout /\ elapsed[f] \in 0..Timeout
    BY <1>0, <2>2 DEF LoopInv, RoundType
  <2> QED
    BY <1>0, <2>2, <2>3
<1>2. /\ elapsed' \in [Finders -> 0..Timeout] /\ waited' \in [Finders -> BOOLEAN]
      /\ \A f \in Finders : waited'[f] = (waited[f] \/ bound[f])
      /\ \A f \in Finders : ~bound[f] => elapsed'[f] = elapsed[f]
  BY <1>0, <1>1 DEF Tick, RoundType
<1>3. slept' \in [Senders -> 0..(Period + Jitter)]
  <2>1. \A s \in Senders : sends[s] = "on" => slept[s] + 1 \in 0..(Period + Jitter)
    BY <1>0 DEF Tick, OthersType
  <2> QED
    BY <1>0, <2>1 DEF Tick, OthersType
<1>4. UNCHANGED <<sends, pc, bound, inbox, peers, offers, odd, heard, due>>
  BY DEF Tick
<1>5. LoopInv'
  BY <1>0, <1>2, <1>4 DEF LoopInv, RoundType
<1>6. air' \subseteq Copies
  <2>1. \A x \in air : x \in Copies /\ x.age < Latency
    BY <1>0 DEF Tick, OthersType
  <2>2. \A x \in air : [x EXCEPT !.age = @ + 1] \in Copies
    BY <1>0, <2>1 DEF Copies
  <2> QED
    BY <2>2 DEF Tick
<1> QED
  BY <1>0, <1>2, <1>3, <1>4, <1>5, <1>6 DEF TypeInv, TypeOK, RoundType, OthersType, Everyone

\* The steps, by who takes them.
LEMMA Steps ==
    ASSUME [Next]_vars
    PROVE  \/ UNCHANGED vars
           \/ /\ UNCHANGED hostOf
              /\ \/ \E s \in Senders : Launch(s) \/ Announce(s) \/ Stop(s)
                 \/ \E f \in Finders : SendBeacon(f)
                 \/ \E h \in Strangers : Hello(h)
                 \/ \E x \in air : Arrive(x) \/ Doubled(x) \/ Lost(x)
                 \/ \E f \in Finders : Bind(f) \/ Recv(f) \/ Silence(f) \/ SocketError(f)
                 \/ Tick
  BY DEF Next, Clockwork, Round

LEMMA TypeStep ==
    ASSUME TypeInv, [Next]_vars
    PROVE  TypeInv'
<1>1. CASE UNCHANGED vars
  BY <1>1 DEF vars, finder, TypeInv, TypeOK, LoopInv
<1>2. CASE ~UNCHANGED vars
  BY <1>2, Steps, TypeSenders, TypeSpeaks, TypeNetwork, TypeRound, TypeTick
<1> QED
  BY <1>1, <1>2

\* What a round collects has its form, and no timer passes its limit, for any number
\* of senders, rounds and devices.
THEOREM TypeCorrect == Spec => []TypeOK
<1>1. TypeInv => TypeOK
  BY DEF TypeInv
<1> QED
  BY <1>1, TypeInit, TypeStep, PTL DEF Spec

-----------------------------------------------------------------------------
(* What a snapshot shows.                                                  *)

\* SnapshotIsWhatWasHeard, of one round.
OffersShown(f) == offers[f] = {d.from : d \in {e \in heard[f] : e.kind = "offer"}}

PeerShown(f, p) ==
    /\ Range(peers[f][p]) =
         {d.addr : d \in {e \in heard[f] : e.kind = "beacon" /\ Device(e.from) = p}}
    /\ IsInjective(peers[f][p])

LEMMA Shown ==
    SnapshotIsWhatWasHeard <=>
        \A f \in Finders : OffersShown(f) /\ \A p \in Devices : PeerShown(f, p)
  BY DEF SnapshotIsWhatWasHeard, OffersShown, PeerShown

LEMMA NothingShown ==
    ASSUME NEW f \in Finders, heard[f] = {}, offers[f] = {}, peers[f] = Nothing
    PROVE  OffersShown(f) /\ \A p \in Devices : PeerShown(f, p)
<1>1. \A p \in Devices : peers[f][p] = <<>>
  BY DEF Nothing
<1>2. Range(<<>>) = {} /\ IsInjective(<<>>)
  BY DEF Range, IsInjective
<1> QED
  BY <1>1, <1>2 DEF OffersShown, PeerShown

LEMMA ShownAfterRecv ==
    ASSUME TypeInv, NEW f \in Finders, Recv(f), UNCHANGED hostOf,
           OffersShown(f), \A p \in Devices : PeerShown(f, p)
    PROVE  OffersShown(f)' /\ \A p \in Devices : PeerShown(f, p)'
<1> DEFINE d == Head(inbox[f])
<1>0. RoundType /\ OthersType
  BY Types DEF TypeInv
<1>1. inbox[f] \in Seq(Datagrams) /\ inbox[f] # <<>> /\ d \in Datagrams
  BY <1>0, Ranges DEF Recv, RoundType
<1>2. heard'[f] = heard[f] \cup {d}
  BY <1>0 DEF Recv, OthersType
<1>3. \A x : Device(x)' = Device(x)
  BY DEF Device
<1>4. CASE d.kind = "offer"
  <2>1. offers'[f] = offers[f] \cup {d.from} /\ peers' = peers
    BY <1>0, <1>4 DEF Recv, OthersType
  <2> HIDE DEF d
  <2>2. OffersShown(f)'
    BY <1>2, <1>4, <2>1 DEF OffersShown
  <2>3. \A p \in Devices : {e \in heard'[f] : e.kind = "beacon" /\ Device(e.from) = p}
                             = {e \in heard[f] : e.kind = "beacon" /\ Device(e.from) = p}
    BY <1>2, <1>4
  <2> QED
    BY <1>3, <2>1, <2>2, <2>3 DEF PeerShown
<1>5. CASE d.kind = "beacon"
  <2>0. PICK q \in Devices : q = Device(d.from)
    BY <1>1, <1>5, Known DEF TypeInv
  <2>1. d.addr \in AllAddresses /\ d.kind # "offer"
    BY <1>1, <1>5, Known DEF TypeInv
  <2>2. /\ offers' = offers
        /\ peers' = [peers EXCEPT ![f] = [peers[f] EXCEPT ![q] = WithAddress(peers[f][q], d.addr)]]
    BY <1>5, <2>0, <2>1 DEF Recv
  <2>3. peers \in [Finders -> [Devices -> Seq(AllAddresses)]]
    BY <1>0 DEF OthersType
  <2> HIDE DEF d
  <2>4. /\ peers'[f][q] = WithAddress(peers[f][q], d.addr)
        /\ \A p \in Devices \ {q} : peers'[f][p] = peers[f][p]
    BY <2>1, <2>2, <2>3
  <2>5. OffersShown(f)'
    BY <1>2, <2>1, <2>2 DEF OffersShown
  <2>6. ASSUME NEW p \in Devices, p # q
        PROVE  PeerShown(f, p)'
    <3>1. {e \in heard'[f] : e.kind = "beacon" /\ Device(e.from) = p}
            = {e \in heard[f] : e.kind = "beacon" /\ Device(e.from) = p}
      BY <1>2, <2>0, <2>6
    <3> QED
      BY <1>3, <2>4, <2>6, <3>1 DEF PeerShown
  <2>7. PeerShown(f, q)'
    <3>1. /\ Range(peers'[f][q]) = Range(peers[f][q]) \cup {d.addr}
          /\ IsInjective(peers[f][q]) => IsInjective(peers'[f][q])
      BY <2>1, <2>3, <2>4, AddressKnownOnce
    <3>2. {e \in heard'[f] : e.kind = "beacon" /\ Device(e.from) = q}
            = {e \in heard[f] : e.kind = "beacon" /\ Device(e.from) = q} \cup {d}
      BY <1>2, <1>5, <2>0
    <3> QED
      BY <1>3, <2>1, <3>1, <3>2 DEF PeerShown
  <2> QED
    BY <2>5, <2>6, <2>7
<1> QED
  BY <1>1, <1>4, <1>5, Known DEF TypeInv

LEMMA ShownStep ==
    ASSUME TypeInv, SnapshotIsWhatWasHeard, [Next]_vars
    PROVE  SnapshotIsWhatWasHeard'
<1>0. /\ \A f \in Finders : OffersShown(f) /\ \A p \in Devices : PeerShown(f, p)
      /\ RoundType /\ OthersType
  BY Shown, Types DEF TypeInv
<1>1. SUFFICES ASSUME NEW f \in Finders
               PROVE  (OffersShown(f) /\ \A p \in Devices : PeerShown(f, p))'
  BY DEF SnapshotIsWhatWasHeard, OffersShown, PeerShown
<1>2. hostOf' = hostOf
  BY Steps DEF vars
<1>3. CASE Recv(f)
  BY <1>0, <1>2, <1>3, ShownAfterRecv
<1>4. CASE SocketError(f)
  <2>1. heard'[f] = {} /\ offers'[f] = {} /\ peers'[f] = Nothing
    BY <1>0, <1>4 DEF SocketError, OthersType
  <2>2. \A p \in Devices : peers'[f][p] = <<>>
    BY <2>1 DEF Nothing
  <2>3. Range(<<>>) = {} /\ IsInjective(<<>>)
    BY DEF Range, IsInjective
  <2> QED
    BY <2>1, <2>2, <2>3 DEF OffersShown, PeerShown
<1>5. CASE ~Recv(f) /\ ~SocketError(f)
  <2>1. heard'[f] = heard[f] /\ offers'[f] = offers[f] /\ peers'[f] = peers[f]
    <3>1. CASE \E g \in Finders : Recv(g) \/ SocketError(g)
      BY <1>0, <1>5, <3>1 DEF Recv, SocketError, OthersType
    <3>2. CASE ~\E g \in Finders : Recv(g) \/ SocketError(g)
      BY <3>2, Steps DEF Launch, Announce, Stop, SendBeacon, Hello, Arrive, Doubled,
         Lost, Reach, Bind, Silence, Tick, finder, vars
    <3> QED
      BY <3>1, <3>2
  <2> QED
    BY <1>0, <1>2, <2>1 DEF OffersShown, PeerShown, Device
<1> QED
  BY <1>3, <1>4, <1>5

\* A snapshot shows exactly what was heard, each peer, address and offer once, for any
\* number and order of datagrams.
THEOREM SnapshotIsTrue == Spec => []SnapshotIsWhatWasHeard
<1>1. Init => SnapshotIsWhatWasHeard
  BY Shown, NothingShown DEF Init
<1> QED
  BY <1>1, TypeInit, TypeStep, ShownStep, PTL DEF Spec

-----------------------------------------------------------------------------
(* Who is shown.                                                           *)

\* Whoever is due is a sender, whose offer is shown, or a round, whose device is.
Found(f, w) == IF w \in Senders THEN w \in offers[f] ELSE peers[f][Device(w)] # <<>>

\* What a round that listens has of someone who is due: the entry, or a datagram that
\* is in the buffer before the deadline, or a copy that will be, or a sender that will
\* wake in time: the round has listened no longer than the sender has slept.
Waiting(f, w) == elapsed[f] < Timeout /\ \E d \in Range(inbox[f]) : d.from = w

Coming(f, w) ==
    \E x \in air : /\ x.what.from = w /\ x.to = hostOf[f]
                   /\ elapsed[f] + Latency < Timeout + x.age

Sleeping(f, w) == w \in Senders /\ sends[w] = "on" /\ elapsed[f] <= slept[w]

OnItsWay(f, w) == Found(f, w) \/ Waiting(f, w) \/ Coming(f, w) \/ Sleeping(f, w)

ShowInv ==
    \A f \in Finders : \A w \in due[f] :
        /\ bound[f] => OnItsWay(f, w)
        /\ pc[f] = "done" => Found(f, w)

\* What the steps of the others leave alone.
LEMMA FoundStays ==
    ASSUME NEW f, NEW w, UNCHANGED hostOf, offers'[f] = offers[f], peers'[f] = peers[f], Found(f, w)
    PROVE  Found(f, w)'
  BY DEF Found, Device

LEMMA ShowSenders ==
    ASSUME TypeInv, ShowInv, UNCHANGED hostOf,
           NEW s \in Senders, Launch(s) \/ Announce(s) \/ Stop(s)
    PROVE  ShowInv'
<1>0. RoundType /\ OthersType /\ LoopInv
  BY Types DEF TypeInv
<1>1. /\ UNCHANGED <<pc, bound, elapsed, inbox, peers, offers>>
      /\ \A w \in Senders \ {s} : sends'[w] = sends[w] /\ slept'[w] = slept[w]
  BY <1>0 DEF Launch, Announce, Stop, finder, OthersType
<1>2. /\ air \subseteq air'
      /\ \A f \in Finders : due'[f] \subseteq due[f] \cup {s}
      /\ \A f \in Finders : ~bound[f] => due'[f] \subseteq due[f]
  <2>1. CASE Launch(s) \/ Stop(s)
    BY <1>0, <2>1 DEF Launch, Stop, OthersType
  <2>2. CASE Announce(s)
    BY <2>2, Broadcasting, Known DEF Announce, TypeInv, Offer
  <2> QED
    BY <2>1, <2>2
<1>3. ASSUME NEW f \in Finders, NEW w \in due[f], bound[f], w # s
      PROVE  OnItsWay(f, w)'
  <2>1. OnItsWay(f, w)
    BY <1>3 DEF ShowInv
  <2>2. Found(f, w) => Found(f, w)'
    BY <1>1, FoundStays
  <2>3. Waiting(f, w) => Waiting(f, w)'
    BY <1>1 DEF Waiting
  <2>4. Coming(f, w) => Coming(f, w)'
    BY <1>1, <1>2 DEF Coming
  <2>5. Sleeping(f, w) => Sleeping(f, w)'
    BY <1>1, <1>3 DEF Sleeping
  <2> QED
    BY <2>1, <2>2, <2>3, <2>4, <2>5 DEF OnItsWay
<1>4. ASSUME NEW f \in Finders, bound[f], s \in due'[f]
      PROVE  OnItsWay(f, s)'
  <2>1. CASE Launch(s)
    <3>1. s \in due[f] /\ sends[s] = "new" /\ air' = air
      BY <1>4, <2>1 DEF Launch
    <3>2. Found(f, s) \/ Waiting(f, s) \/ Coming(f, s)
      BY <1>4, <3>1 DEF ShowInv, OnItsWay, Sleeping
    <3>3. Found(f, s) => Found(f, s)'
      BY <1>1, FoundStays
    <3> QED
      BY <1>1, <3>1, <3>2, <3>3 DEF OnItsWay, Waiting, Coming
  <2>2. CASE Announce(s)
    <3>1. Broadcast(Offer(s)) /\ Offer(s) \in Datagrams /\ Offer(s).from = s
      BY <2>2, Known DEF Announce, TypeInv, Offer
    <3>2. CASE elapsed[f] + Latency < Timeout
      <4> DEFINE x == [what |-> Offer(s), to |-> hostOf[f], age |-> 0]
      <4>1. x \in air' /\ x.what.from = s /\ x.to = hostOf'[f] /\ x.age = 0
        BY <3>1, Broadcasting
      <4>2. Timeout + 0 = Timeout
        BY Known DEF TypeInv
      <4> QED
        BY <1>1, <3>2, <4>1, <4>2 DEF OnItsWay, Coming
    <3>3. CASE ~(elapsed[f] + Latency < Timeout)
      <4>1. s \in due[f]
        BY <1>4, <3>1, <3>3, Broadcasting
      <4>2. ~Sleeping(f, s)
        <5>1. /\ slept[s] \in 0..(Period + Jitter) /\ elapsed[f] \in 0..Timeout
              /\ Timeout > Period + Jitter + Latency
              /\ Period \in Nat /\ Jitter \in Nat /\ Latency \in Nat /\ Timeout \in Nat
          BY <1>0, Known DEF TypeInv, RoundType, OthersType
        <5> QED
          BY <3>3, <5>1 DEF Sleeping
      <4>3. Found(f, s) \/ Waiting(f, s) \/ Coming(f, s)
        BY <1>4, <4>1, <4>2 DEF ShowInv, OnItsWay
      <4>4. Found(f, s) => Found(f, s)'
        BY <1>1, FoundStays
      <4> QED
        BY <1>1, <1>2, <4>3, <4>4 DEF OnItsWay, Waiting, Coming
    <3> QED
      BY <3>2, <3>3
  <2>3. CASE Stop(s)
    BY <1>4, <2>3 DEF Stop
  <2> QED
    BY <2>1, <2>2, <2>3
<1>5. ASSUME NEW f \in Finders, NEW w \in due'[f], pc[f] = "done"
      PROVE  Found(f, w)'
  <2>1. ~bound[f]
    BY <1>0, <1>5 DEF LoopInv
  <2>2. Found(f, w)
    BY <1>2, <1>5, <2>1 DEF ShowInv
  <2> QED
    BY <1>1, <2>2, FoundStays
<1> QED
  BY <1>1, <1>2, <1>3, <1>4, <1>5 DEF ShowInv

LEMMA ShowSpeaks ==
    ASSUME TypeInv, ShowInv, UNCHANGED hostOf,
           \/ \E f \in Finders : SendBeacon(f)
           \/ \E h \in Strangers : Hello(h)
    PROVE  ShowInv'
<1>0. RoundType /\ OthersType /\ LoopInv
  BY Types DEF TypeInv
<1>1. PICK d \in Datagrams : Broadcast(d)
  BY Beacons
<1>2. UNCHANGED <<sends, slept, bound, elapsed, inbox, peers, offers>>
  BY DEF SendBeacon, Hello, finder
<1>3. \A f \in Finders : pc'[f] = "done" => pc[f] = "done"
  <2>1. \/ pc' = pc
        \/ \E f \in Finders : pc[f] = "beacon" /\ pc' = [pc EXCEPT ![f] = "bind"]
    BY DEF SendBeacon, Hello
  <2> QED
    BY <1>0, <2>1 DEF RoundType
<1>4. /\ air \subseteq air'
      /\ \A f \in Finders :
            /\ due'[f] \subseteq due[f] \cup {d.from}
            /\ ~bound[f] => due'[f] = due[f]
            /\ d.from \notin due'[f] \ due[f] \/ elapsed[f] + Latency < Timeout
            /\ [what |-> d, to |-> hostOf[f], age |-> 0] \in air'
  BY <1>1, Broadcasting
<1>5. ASSUME NEW f \in Finders, NEW w \in due'[f], bound[f]
      PROVE  OnItsWay(f, w)'
  <2>1. CASE w \in due[f]
    <3>1. OnItsWay(f, w)
      BY <1>5, <2>1 DEF ShowInv
    <3>2. Found(f, w) => Found(f, w)'
      BY <1>2, FoundStays
    <3> QED
      BY <1>2, <1>4, <3>1, <3>2 DEF OnItsWay, Waiting, Coming, Sleeping
  <2>2. CASE w \notin due[f]
    <3> DEFINE x == [what |-> d, to |-> hostOf[f], age |-> 0]
    <3>1. x \in air' /\ x.what.from = w /\ x.to = hostOf'[f] /\ x.age = 0
      BY <1>4, <1>5, <2>2
    <3>2. w = d.from /\ Timeout + 0 = Timeout
      <4>1. w = d.from
        BY <1>4, <1>5, <2>2
      <4>2. Timeout + 0 = Timeout
        BY Known DEF TypeInv
      <4> QED
        BY <4>1, <4>2
    <3>3. elapsed'[f] + Latency < Timeout + 0
      BY <1>2, <1>4, <1>5, <2>2, <3>2
    <3> QED
      BY <3>1, <3>3 DEF OnItsWay, Coming
  <2> QED
    BY <2>1, <2>2
<1>6. ASSUME NEW f \in Finders, NEW w \in due'[f], pc'[f] = "done"
      PROVE  Found(f, w)'
  <2>1. pc[f] = "done" /\ ~bound[f]
    BY <1>0, <1>3, <1>6 DEF LoopInv
  <2>2. Found(f, w)
    BY <1>4, <1>6, <2>1 DEF ShowInv
  <2> QED
    BY <1>2, <2>2, FoundStays
<1> QED
  BY <1>2, <1>5, <1>6 DEF ShowInv

LEMMA ShowNetwork ==
    ASSUME TypeInv, ShowInv, UNCHANGED hostOf,
           NEW x \in air, Arrive(x) \/ Doubled(x) \/ Lost(x)
    PROVE  ShowInv'
<1>0. /\ RoundType /\ OthersType /\ LoopInv /\ x \in Copies
      /\ Latency \in Nat /\ Timeout \in Nat
  BY Types, Known DEF TypeInv, OthersType
<1>1. /\ UNCHANGED <<sends, slept, pc, bound, elapsed, peers, offers>>
      /\ air \ {x} \subseteq air'
  BY DEF Arrive, Doubled, Lost, Reach, finder
<1>2. \A f \in Finders : due'[f] \subseteq due[f]
  BY <1>0 DEF Arrive, Doubled, Lost, Reach, OthersType
<1>3. ASSUME NEW f \in Finders
      PROVE  Range(inbox[f]) \subseteq Range(inbox'[f])
  <2>1. inbox[f] \in Seq(Datagrams) /\ x.what \in Datagrams
    BY <1>0 DEF RoundType, Copies
  <2>2. inbox'[f] = inbox[f] \/ inbox'[f] = Append(inbox[f], x.what)
    BY <1>0 DEF Arrive, Doubled, Lost, Reach, finder, RoundType
  <2>3. Range(Append(inbox[f], x.what)) = Range(inbox[f]) \cup {x.what}
    BY <2>1, Ranges
  <2> QED
    BY <2>2, <2>3
<1>4. ASSUME NEW f \in Finders, NEW w \in due'[f], bound[f]
      PROVE  OnItsWay(f, w)'
  <2>1. OnItsWay(f, w)
    BY <1>2, <1>4 DEF ShowInv
  <2>2. CASE Found(f, w)
    BY <1>1, <2>2, FoundStays DEF OnItsWay
  <2>3. CASE Waiting(f, w) \/ Sleeping(f, w)
    BY <1>1, <1>3, <2>3 DEF OnItsWay, Waiting, Sleeping
  <2>4. CASE Coming(f, w)
    <3>1. PICK y \in air : /\ y.what.from = w /\ y.to = hostOf[f]
                           /\ elapsed[f] + Latency < Timeout + y.age
      BY <2>4 DEF Coming
    <3>2. CASE y # x
      BY <1>1, <3>1, <3>2 DEF OnItsWay, Coming
    <3>3. CASE y = x /\ Reach(x)
      <4>1. inbox'[f] = Append(inbox[f], x.what)
        BY <1>4, <3>1, <3>3 DEF Reach, BoundOn
      <4>2. inbox[f] \in Seq(Datagrams) /\ x.what \in Datagrams /\ x.age \in 0..Latency
        BY <1>0 DEF RoundType, Copies
      <4>3. x.what \in Range(inbox'[f])
        BY <4>1, <4>2, Ranges
      <4>4. elapsed'[f] < Timeout
        <5>1. elapsed[f] \in 0..Timeout
          BY <1>0 DEF RoundType
        <5> QED
          BY <1>0, <1>1, <3>1, <3>3, <4>2, <5>1
      <4> QED
        BY <3>1, <3>3, <4>3, <4>4 DEF OnItsWay, Waiting
    <3>4. CASE y = x /\ Lost(x)
      <4>1. due'[f] = due[f] \ {w}
        BY <1>4, <3>1, <3>4 DEF Lost, BoundOn
      <4> QED
        BY <1>4, <4>1
    <3> QED
      BY <3>2, <3>3, <3>4 DEF Arrive, Doubled
  <2> QED
    BY <2>1, <2>2, <2>3, <2>4 DEF OnItsWay
<1>5. ASSUME NEW f \in Finders, NEW w \in due'[f], pc[f] = "done"
      PROVE  Found(f, w)'
  <2>1. Found(f, w)
    BY <1>2, <1>5 DEF ShowInv
  <2> QED
    BY <1>1, <2>1, FoundStays
<1> QED
  BY <1>1, <1>4, <1>5 DEF ShowInv

\* After the deadline nothing is on its way.
LEMMA OverMeansFound ==
    ASSUME TypeInv, NEW f \in Finders, NEW w \in Everyone, Over(f), OnItsWay(f, w)
    PROVE  Found(f, w)
<1>1. /\ RoundType /\ OthersType
      /\ Timeout > Period + Jitter + Latency
      /\ Period \in Nat /\ Jitter \in Nat /\ Latency \in Nat /\ Timeout \in Nat
      /\ elapsed[f] \in Nat /\ elapsed[f] >= Timeout
  BY Types, Known DEF TypeInv, RoundType, Over
<1>2. ~Waiting(f, w)
  BY <1>1 DEF Waiting
<1>3. ~Coming(f, w)
  <2>1. \A x \in air : x.age \in 0..Latency
    BY <1>1 DEF OthersType, Copies
  <2> QED
    BY <1>1, <2>1 DEF Coming
<1>4. ~Sleeping(f, w)
  BY <1>1 DEF Sleeping, OthersType
<1> QED
  BY <1>2, <1>3, <1>4 DEF OnItsWay

\* What a datagram does to the entries of its round.
LEMMA FoundByRecv ==
    ASSUME TypeInv, UNCHANGED hostOf, NEW f \in Finders, Recv(f), NEW w \in Everyone,
           Found(f, w) \/ Head(inbox[f]).from = w
    PROVE  Found(f, w)'
<1> DEFINE d == Head(inbox[f])
<1>0. RoundType /\ OthersType
  BY Types DEF TypeInv
<1>1. d \in Datagrams
  BY <1>0, Ranges DEF Recv, RoundType
<1>2. Device(w)' = Device(w)
  BY DEF Device
<1>3. CASE d.kind = "offer"
  <2>1. d.from \in Senders
    BY <1>1, <1>3, Known DEF TypeInv
  <2>2. offers'[f] = offers[f] \cup {d.from} /\ peers' = peers
    BY <1>0, <1>3 DEF Recv, OthersType
  <2> QED
    BY <1>2, <2>1, <2>2 DEF Found
<1>4. CASE d.kind = "beacon"
  <2>1. d.from \notin Senders /\ Device(d.from) \in Devices /\ d.addr \in AllAddresses
    <3>1. d.from \in Finders \cup Strangers /\ d.addr \in AllAddresses
      BY <1>1, <1>4, Known DEF TypeInv
    <3>2. Senders \cap (Finders \cup Devices) = {} /\ Strangers \subseteq Devices
      BY DiscoveryAssumption DEF DiscoveryAssumption
    <3>3. Device(d.from) \in Devices
      BY <3>1, Known DEF TypeInv
    <3> QED
      BY <3>1, <3>2, <3>3
  <2> DEFINE q == Device(d.from)
  <2>2. /\ offers' = offers /\ peers \in [Finders -> [Devices -> Seq(AllAddresses)]]
        /\ peers' = [peers EXCEPT ![f] = [peers[f] EXCEPT ![q] = WithAddress(peers[f][q], d.addr)]]
    BY <1>0, <1>4 DEF Recv, OthersType
  <2>3. WithAddress(peers[f][q], d.addr) # <<>>
    <3>1. /\ peers[f][q] \in Seq(AllAddresses)
          /\ Range(WithAddress(peers[f][q], d.addr)) = Range(peers[f][q]) \cup {d.addr}
      BY <2>1, <2>2, AddressKnownOnce
    <3> QED
      BY <3>1, Ranges
  <2>4. ASSUME NEW p \in Devices, peers[f][p] # <<>> \/ p = q
        PROVE  peers'[f][p] # <<>>
    <3> HIDE DEF q, d
    <3>1. peers'[f] = [peers[f] EXCEPT ![q] = WithAddress(peers[f][q], d.addr)]
      BY <2>2
    <3> QED
      BY <2>2, <2>3, <2>4, <3>1
  <2>5. CASE w \in Senders
    BY <2>1, <2>2, <2>5 DEF Found
  <2>6. CASE w \notin Senders
    <3>1. Device(w) \in Devices
      BY <2>6, Known DEF TypeInv, Everyone
    <3>2. peers[f][Device(w)] # <<>> \/ Device(w) = q
      BY <2>6 DEF Found
    <3> QED
      BY <1>2, <2>4, <2>6, <3>1, <3>2 DEF Found
  <2> QED
    BY <2>5, <2>6
<1> QED
  BY <1>1, <1>3, <1>4, Known DEF TypeInv

LEMMA ShowRound ==
    ASSUME TypeInv, ShowInv, UNCHANGED hostOf, NEW f \in Finders,
           Bind(f) \/ Recv(f) \/ Silence(f) \/ SocketError(f)
    PROVE  ShowInv'
<1>0. /\ RoundType /\ OthersType /\ LoopInv /\ Timeout \in Nat
      /\ \A g \in Finders : due[g] \subseteq Everyone
  BY Types, Known DEF TypeInv, OthersType
<1>1. /\ UNCHANGED <<sends, slept, air>>
      /\ \A g \in Finders \ {f} :
            /\ pc'[g] = pc[g] /\ bound'[g] = bound[g] /\ elapsed'[g] = elapsed[g]
            /\ inbox'[g] = inbox[g] /\ offers'[g] = offers[g] /\ due'[g] = due[g]
            /\ peers'[g] = peers[g]
  <2>1. /\ UNCHANGED <<sends, slept, air>>
        /\ \A g \in Finders \ {f} :
              offers'[g] = offers[g] /\ due'[g] = due[g] /\ peers'[g] = peers[g]
    BY <1>0 DEF Bind, Recv, Silence, SocketError, OthersType
  <2>2. \A g \in Finders \ {f} :
            /\ pc'[g] = pc[g] /\ bound'[g] = bound[g] /\ elapsed'[g] = elapsed[g]
            /\ inbox'[g] = inbox[g]
    <3>1. CASE Bind(f)
      BY <1>0, <3>1 DEF Bind, RoundType
    <3>2. CASE Recv(f) \/ Silence(f) \/ SocketError(f)
      BY <1>0, <3>2 DEF Recv, Silence, AfterSilence, Turn, SocketError, Close, RoundType
    <3> QED
      BY <3>1, <3>2
  <2> QED
    BY <2>1, <2>2
<1>2. ASSUME NEW w \in due'[f]
      PROVE  (bound'[f] => OnItsWay(f, w)') /\ (pc'[f] = "done" => Found(f, w)')
  <2>1. CASE Bind(f)
    <3>1. /\ pc'[f] = "recv" /\ due'[f] = {s \in Senders : sends[s] = "on"}
          /\ UNCHANGED <<sends, slept, elapsed>> /\ elapsed[f] = 0
      BY <1>0, <2>1 DEF Bind, RoundType, OthersType, LoopInv
    <3>2. w \in Senders /\ sends[w] = "on" /\ slept[w] \in Nat
      BY <1>0, <1>2, <3>1 DEF OthersType
    <3>3. Sleeping(f, w)'
      BY <3>1, <3>2 DEF Sleeping
    <3> QED
      BY <3>1, <3>3 DEF OnItsWay
  <2>2. CASE Recv(f) \/ Silence(f)
    <3>1. /\ pc[f] = "recv" /\ bound[f] /\ UNCHANGED <<sends, slept, air, due>>
          /\ inbox[f] \in Seq(Datagrams) /\ w \in Everyone /\ w \in due[f]
      BY <1>0, <1>2, <2>2 DEF Recv, Silence, LoopInv, RoundType
    <3>2. OnItsWay(f, w)
      BY <3>1 DEF ShowInv
    <3>3. Found(f, w) => Found(f, w)'
      <4>1. CASE Recv(f)
        BY <3>1, <4>1, FoundByRecv
      <4>2. CASE Silence(f)
        BY <4>2, FoundStays DEF Silence
      <4> QED
        BY <2>2, <4>1, <4>2
    <3>4. CASE Over(f)
      <4>1. Found(f, w)
        BY <3>1, <3>2, <3>4, OverMeansFound
      <4> QED
        BY <3>3, <4>1 DEF OnItsWay
    <3>5. CASE ~Over(f)
      <4>1. pc' = pc /\ elapsed' = elapsed
        BY <2>2, <3>5 DEF Recv, Silence, AfterSilence, Turn
      <4>2. Waiting(f, w) => Found(f, w)' \/ Waiting(f, w)'
        <5>1. CASE Recv(f)
          <6>1. inbox[f] # <<>> /\ inbox'[f] = Tail(inbox[f])
            BY <1>0, <3>5, <5>1 DEF Recv, Turn, RoundType
          <6>2. Range(inbox[f]) = {Head(inbox[f])} \cup Range(Tail(inbox[f]))
            BY <3>1, <6>1, Ranges
          <6>3. Head(inbox[f]).from = w => Found(f, w)'
            BY <3>1, <5>1, FoundByRecv
          <6> QED
            BY <4>1, <6>1, <6>2, <6>3 DEF Waiting
        <5>2. CASE Silence(f)
          <6>1. inbox[f] = <<>>
            BY <5>2 DEF Silence
          <6> QED
            BY <6>1, Ranges DEF Waiting
        <5> QED
          BY <2>2, <5>1, <5>2
      <4>3. (Coming(f, w) => Coming(f, w)') /\ (Sleeping(f, w) => Sleeping(f, w)')
        BY <3>1, <4>1 DEF Coming, Sleeping
      <4> QED
        BY <3>1, <3>2, <3>3, <4>1, <4>2, <4>3 DEF OnItsWay
    <3> QED
      BY <3>4, <3>5
  <2>3. CASE SocketError(f)
    BY <1>0, <1>2, <2>3 DEF SocketError, OthersType
  <2> QED
    BY <2>1, <2>2, <2>3
<1>3. ASSUME NEW g \in Finders \ {f}, NEW w \in due'[g]
      PROVE  (bound'[g] => OnItsWay(g, w)') /\ (pc'[g] = "done" => Found(g, w)')
  <2>1. Found(g, w) => Found(g, w)'
    BY <1>1, FoundStays
  <2> QED
    BY <1>1, <1>3, <2>1 DEF ShowInv, OnItsWay, Waiting, Coming, Sleeping
<1> QED
  BY <1>2, <1>3 DEF ShowInv

LEMMA ShowTick ==
    ASSUME TypeInv, ShowInv, UNCHANGED hostOf, Tick
    PROVE  ShowInv'
<1>0. /\ RoundType /\ OthersType /\ LoopInv
      /\ Timeout \in Nat /\ Period \in Nat /\ Jitter \in Nat /\ Latency \in Nat
  BY Types, Known DEF TypeInv
<1>1. UNCHANGED <<sends, pc, bound, inbox, peers, offers, due>>
  BY DEF Tick
<1>2. ASSUME NEW f \in Finders, NEW w \in due[f], bound[f]
      PROVE  OnItsWay(f, w)'
  <2>1. OnItsWay(f, w) /\ elapsed'[f] = elapsed[f] + 1 /\ elapsed[f] \in Nat
    BY <1>0, <1>2 DEF ShowInv, Tick, RoundType
  <2>2. ~Waiting(f, w)
    <3>1. pc[f] = "recv"
      BY <1>0, <1>2 DEF LoopInv
    <3>2. inbox[f] = <<>>
      BY <3>1 DEF Tick
    <3> QED
      BY <3>2, Ranges DEF Waiting
  <2>3. CASE Found(f, w)
    BY <1>1, <2>3, FoundStays DEF OnItsWay
  <2>4. CASE Coming(f, w)
    <3>1. PICK x \in air : /\ x.what.from = w /\ x.to = hostOf[f]
                           /\ elapsed[f] + Latency < Timeout + x.age
      BY <2>4 DEF Coming
    <3>2. x \in Copies
      BY <1>0 DEF OthersType
    <3> DEFINE y == [x EXCEPT !.age = @ + 1]
    <3>3. /\ y \in air' /\ x.age \in Nat
          /\ y.what = x.what /\ y.to = x.to /\ y.age = x.age + 1
      <4>1. air' = {[z EXCEPT !.age = @ + 1] : z \in air}
        BY DEF Tick
      <4>2. y \in air'
        BY <4>1
      <4>3. x.age \in Nat /\ y.what = x.what /\ y.to = x.to /\ y.age = x.age + 1
        BY <1>0, <3>2 DEF Copies
      <4> QED
        BY <4>2, <4>3
    <3>4. elapsed'[f] + Latency < Timeout + (x.age + 1)
      BY <1>0, <2>1, <3>1, <3>3
    <3> HIDE DEF y
    <3> QED
      BY <3>1, <3>3, <3>4 DEF OnItsWay, Coming
  <2>5. CASE Sleeping(f, w)
    <3>1. slept'[w] = slept[w] + 1 /\ slept[w] \in Nat
      BY <1>0, <2>5 DEF Tick, Sleeping, OthersType
    <3>2. Sleeping(f, w)'
      BY <1>1, <2>1, <2>5, <3>1 DEF Sleeping
    <3> QED
      BY <3>2 DEF OnItsWay
  <2> QED
    BY <2>1, <2>2, <2>3, <2>4, <2>5 DEF OnItsWay
<1>3. ASSUME NEW f \in Finders, NEW w \in due[f], pc[f] = "done"
      PROVE  Found(f, w)'
  BY <1>1, <1>3, FoundStays DEF ShowInv
<1> QED
  BY <1>1, <1>2, <1>3 DEF ShowInv

LEMMA ShowStep ==
    ASSUME TypeInv, ShowInv, [Next]_vars
    PROVE  ShowInv'
<1>1. CASE UNCHANGED vars
  BY <1>1 DEF vars, finder, ShowInv, OnItsWay, Found, Waiting, Coming, Sleeping, Device
<1>2. CASE ~UNCHANGED vars
  BY <1>2, Steps, ShowSenders, ShowSpeaks, ShowNetwork, ShowRound, ShowTick
<1> QED
  BY <1>1, <1>2

LEMMA ShowInit ==
    ASSUME Init
    PROVE  ShowInv
  BY DEF Init, ShowInv

\* A sender that runs as long as a round listens is shown, unless a datagram of its was
\* lost: for any number of senders, all buffers, and every timeout that is longer than
\* a sender can sleep and a datagram be on its way.
THEOREM ActiveSendShown == Spec => []RunningSendIsShown
<1>1. ShowInv => RunningSendIsShown
  BY DEF ShowInv, RunningSendIsShown, Found
<1> QED
  BY <1>1, TypeInit, TypeStep, ShowInit, ShowStep, PTL DEF Spec

\* A round whose beacon goes out while another listens is found by it if the beacon can
\* arrive in time and is not lost: for any number of rounds on any devices.
THEOREM LaterRoundFound == Spec => []LaterRoundIsFound
<1>1. ShowInv => LaterRoundIsFound
  BY DEF ShowInv, LaterRoundIsFound, Found
<1> QED
  BY <1>1, TypeInit, TypeStep, ShowInit, ShowStep, PTL DEF Spec
=============================================================================
