-------------------------- MODULE SignalingProofs --------------------------
(***************************************************************************)
(* Theorems about Signaling for any connections, peers and messages.       *)
(*                                                                         *)
(* What the map says is not inductive: it needs what handlers remember     *)
(* (NamesInv) and that nobody is in the map who did not register (MapInv). *)
(* Relaying, and with it the refinement of Switchboard, needs what is true *)
(* of messages on their way (Core); that none is lost needs moreover why a *)
(* handler has ended (GoneInv).                                            *)
(***************************************************************************)
EXTENDS Signaling, SequenceTheorems, TLAPS

-----------------------------------------------------------------------------
(* Type correctness.                                                       *)

\* A message on its way up that the server looks into has a peer id in it.
Addressed ==
    \A c \in Conns : \A i \in DOMAIN up[c] :
        up[c][i].kind \in {"register", "signal"} => up[c][i].to \in Peers

TypeInv == TypeOK /\ Addressed

\* Queues stay queues: what is posted joins them, what is taken leaves them.
LEMMA PostedType ==
    ASSUME NEW q \in Seq(Messages), NEW m \in Messages
    PROVE  /\ Posted(q, m) \in Seq(Messages)
           /\ DOMAIN Posted(q, m) = 1..(Len(q) + 1)
           /\ Posted(q, m)[Len(q) + 1] = m
           /\ \A i \in 1..Len(q) : Posted(q, m)[i] = q[i]
  BY DEF Posted

LEMMA TailType ==
    ASSUME NEW q \in Seq(Messages), q # <<>>
    PROVE  /\ Head(q) \in Messages /\ Head(q) = q[1] /\ 1 \in DOMAIN q
           /\ Tail(q) \in Seq(Messages)
           /\ \A i \in DOMAIN Tail(q) : i + 1 \in DOMAIN q /\ Tail(q)[i] = q[i + 1]
  OBVIOUS

LEMMA PrefixType ==
    ASSUME NEW q \in Seq(Messages), NEW r \in Prefixes(q)
    PROVE  /\ r \in Seq(Messages)
           /\ \A i \in DOMAIN r : i \in DOMAIN q /\ r[i] = q[i]
  BY DEF Prefixes

LEMMA DownloadType ==
    ASSUME TypeOK, NEW c \in Conns, NEW m \in Messages
    PROVE  Download(c, m) \in [Conns -> Seq(Messages)]
  BY PostedType DEF TypeOK, Download

LEMMA UploadType ==
    ASSUME TypeInv, NEW c \in Conns, NEW m \in Messages,
           m.kind \in {"register", "signal"} => m.to \in Peers, Upload(c, m)
    PROVE  up' \in [Conns -> Seq(Messages)] /\ Addressed'
<1>1. up \in [Conns -> Seq(Messages)]
  BY DEF TypeInv, TypeOK
<1>2. up' \in [Conns -> Seq(Messages)]
  BY <1>1, PostedType DEF Upload
<1>3. ASSUME NEW d \in Conns, NEW i \in DOMAIN up'[d],
             up'[d][i].kind \in {"register", "signal"}
      PROVE  up'[d][i].to \in Peers
  <2>1. CASE up'[d] = up[d]
    BY <1>3, <2>1 DEF TypeInv, Addressed
  <2>2. CASE d = c /\ up'[d] = Posted(up[d], m)
    <3>1. up[d] \in Seq(Messages)
      BY <1>1
    <3>2. /\ DOMAIN Posted(up[d], m) = 1..(Len(up[d]) + 1)
          /\ Posted(up[d], m)[Len(up[d]) + 1] = m
          /\ \A j \in 1..Len(up[d]) : Posted(up[d], m)[j] = up[d][j]
      BY <3>1, PostedType
    <3>3. CASE i = Len(up[d]) + 1
      BY <1>3, <2>2, <3>2, <3>3
    <3>4. CASE i \in 1..Len(up[d])
      <4>1. i \in DOMAIN up[d] /\ up'[d][i] = up[d][i]
        BY <2>2, <3>1, <3>2, <3>4
      <4> QED
        BY <1>3, <4>1 DEF TypeInv, Addressed
    <3> QED
      BY <2>2, <3>1, <3>2, <3>3, <3>4
  <2> QED
    BY <1>1, <2>1, <2>2 DEF Upload
<1> QED
  BY <1>2, <1>3 DEF Addressed

LEMMA MessageType ==
    ASSUME NEW kind \in {"register", "signal", "untargeted", "garbage", "close"},
           NEW c \in Conns, NEW no \in Nat, NEW to \in Peers \cup {Nobody}
    PROVE  /\ Message(kind, c, no, to) \in Messages
           /\ Message(kind, c, no, to).kind = kind
           /\ Message(kind, c, no, to).to = to
  BY DEF Message, Messages

LEMMA ErrorType ==
    ASSUME NEW m \in Messages
    PROVE  ErrorFor(m) \in Messages
  BY DEF ErrorFor, Messages

\* What a handler takes from its connection.
LEMMA IncomingType ==
    ASSUME TypeInv, NEW c \in Conns, NEW kind, Incoming(c, kind)
    PROVE  /\ up' \in [Conns -> Seq(Messages)] /\ Addressed'
           /\ Head(up[c]) \in Messages
           /\ kind \in {"register", "signal"} => Head(up[c]).to \in Peers
<1>1. up \in [Conns -> Seq(Messages)] /\ up[c] \in Seq(Messages) /\ up[c] # <<>>
  BY DEF TypeInv, TypeOK, Incoming
<1>2. /\ Head(up[c]) \in Messages /\ Head(up[c]) = up[c][1] /\ 1 \in DOMAIN up[c]
      /\ Tail(up[c]) \in Seq(Messages)
      /\ \A i \in DOMAIN Tail(up[c]) :
            i + 1 \in DOMAIN up[c] /\ Tail(up[c])[i] = up[c][i + 1]
  BY <1>1, TailType
<1>3. up' = [up EXCEPT ![c] = Tail(up[c])]
  BY DEF Incoming
<1>4. Addressed'
  BY <1>1, <1>2, <1>3 DEF TypeInv, Addressed
<1>5. kind \in {"register", "signal"} => Head(up[c]).to \in Peers
  BY <1>2 DEF TypeInv, Addressed, Incoming
<1> QED
  BY <1>1, <1>2, <1>3, <1>4, <1>5

\* The queues, and what is recorded, when nothing of them changes.
LEMMA TypeInvStep ==
    ASSUME TypeInv, Next
    PROVE  TypeInv'
<1> SUFFICES ASSUME NEW c \in Conns,
                    ClientStep(c) \/ Handle(c) \/ Break(c) \/ Lose(c)
             PROVE  TypeInv'
  BY DEF Next
<1>0. /\ TypeOK /\ Addressed /\ SignalingAssumption
      /\ up[c] \in Seq(Messages) /\ down[c] \in Seq(Messages)
      /\ got[c] \in Seq(Messages) /\ sent[c] \in Seq(Contents)
      /\ names[c] \in Seq(Peers)
  BY SignalingAssumption DEF TypeInv, TypeOK
<1>1. CASE Connect(c)
  <2> DEFINE m == Message("register", c, 0, PeerOf[c])
  <2>1. PeerOf[c] \in Peers
    BY <1>0 DEF SignalingAssumption
  <2>2. m \in Messages /\ (m.kind \in {"register", "signal"} => m.to \in Peers)
    BY <2>1, MessageType
  <2>3. Upload(c, m)
    BY <1>1 DEF Connect
  <2> HIDE DEF m
  <2>4. up' \in [Conns -> Seq(Messages)] /\ Addressed'
    BY <2>2, <2>3, UploadType
  <2> QED
    BY <1>0, <1>1, <2>4 DEF TypeInv, TypeOK, Connect
<1>2. ASSUME NEW s \in Says[c], Send(c, s)
      PROVE  TypeInv'
  <2> DEFINE no == Len(sent[c]) + 1
             m == Message(s.kind, c, no, s.to)
  <2>0. no \in Nat
    BY <1>0
  <2> HIDE DEF no
  <2>1. s \in Contents
    BY <1>0 DEF SignalingAssumption
  <2>2. /\ s.kind \in {"signal", "register", "untargeted", "garbage"}
        /\ s.to \in Peers \cup {Nobody}
        /\ s.kind \in {"register", "signal"} => s.to \in Peers
    BY <2>1 DEF Contents
  <2>3. m \in Messages /\ (m.kind \in {"register", "signal"} => m.to \in Peers)
    BY <2>2, <2>0, MessageType
  <2>4. Upload(c, m)
    BY <1>2 DEF Send, no
  <2> HIDE DEF m
  <2>5. up' \in [Conns -> Seq(Messages)] /\ Addressed'
    BY <2>3, <2>4, UploadType
  <2>6. sent' \in [Conns -> Seq(Contents)]
    BY <1>0, <1>2, <2>1 DEF TypeOK, Send
  <2> QED
    BY <1>0, <1>2, <2>5, <2>6 DEF TypeInv, TypeOK, Send
<1>3. CASE Recv(c)
  <2>1. Head(down[c]) \in Messages /\ Tail(down[c]) \in Seq(Messages)
    BY <1>0, <1>3, TailType DEF Recv
  <2>2. /\ down' \in [Conns -> Seq(Messages)]
        /\ got' \in [Conns -> Seq(Messages)]
    BY <1>0, <1>3, <2>1 DEF Recv, TypeOK
  <2> QED
    BY <1>0, <1>3, <2>2 DEF TypeInv, TypeOK, Addressed, Recv
<1>4. CASE Drop(c)
  <2> DEFINE m == Message("close", c, 0, Nobody)
  <2>1. m \in Messages /\ (m.kind \in {"register", "signal"} => m.to \in Peers)
    BY MessageType
  <2>2. Upload(c, m)
    BY <1>4 DEF Drop
  <2> HIDE DEF m
  <2>3. up' \in [Conns -> Seq(Messages)] /\ Addressed'
    BY <2>1, <2>2, UploadType
  <2>4. down' \in [Conns -> Seq(Messages)]
    BY <1>0, <1>4 DEF Drop, TypeOK
  <2> QED
    BY <1>0, <1>4, <2>3, <2>4 DEF TypeInv, TypeOK, Drop
<1>5. CASE Break(c)
  <2>1. PICK q \in Prefixes(up[c]) : up' = [up EXCEPT ![c] = q]
    BY <1>5 DEF Break
  <2>2. PICK r \in Prefixes(down[c]) : down' = [down EXCEPT ![c] = r]
    BY <1>5 DEF Break
  <2>3. /\ q \in Seq(Messages) /\ r \in Seq(Messages)
        /\ \A i \in DOMAIN q : i \in DOMAIN up[c] /\ q[i] = up[c][i]
    BY <1>0, PrefixType
  <2>4. Addressed'
    BY <1>0, <2>1, <2>3 DEF Addressed, TypeOK
  <2>5. up' \in [Conns -> Seq(Messages)] /\ down' \in [Conns -> Seq(Messages)]
    BY <1>0, <2>1, <2>2, <2>3 DEF TypeOK
  <2> QED
    BY <1>0, <1>5, <2>4, <2>5 DEF TypeInv, TypeOK, Break
<1>6. CASE Register(c)
  <2>1. /\ up' \in [Conns -> Seq(Messages)] /\ Addressed'
        /\ Head(up[c]).to \in Peers
    BY <1>6, IncomingType DEF Register
  <2>2. names' \in [Conns -> Seq(Peers)]
    BY <1>0, <1>6, <2>1 DEF TypeOK, Register
  <2> QED
    BY <1>0, <1>6, <2>1, <2>2 DEF TypeInv, TypeOK, Register, LastName
<1>7. CASE Relay(c)
  <2>1. /\ up' \in [Conns -> Seq(Messages)] /\ Addressed'
        /\ Head(up[c]) \in Messages /\ Head(up[c]).to \in Peers
    BY <1>7, IncomingType DEF Relay
  <2>2. ErrorFor(Head(up[c])) \in Messages
    BY <2>1, ErrorType
  <2>3. peers[Head(up[c]).to] \in Conns \cup {Nobody}
    BY <1>0, <2>1 DEF TypeOK
  <2>4. down' \in [Conns -> Seq(Messages)]
    BY <1>0, <1>7, <2>1, <2>2, <2>3, DownloadType DEF Relay, Relayed
  <2> QED
    BY <1>0, <1>7, <2>1, <2>4 DEF TypeInv, TypeOK, Relay
<1>8. CASE Reject(c)
  <2>1. /\ up' \in [Conns -> Seq(Messages)] /\ Addressed'
        /\ Head(up[c]) \in Messages
    BY <1>8, IncomingType DEF Reject
  <2>2. ErrorFor(Head(up[c])) \in Messages
    BY <2>1, ErrorType
  <2>3. down' \in [Conns -> Seq(Messages)]
    BY <1>0, <1>8, <2>2, DownloadType DEF Reject
  <2> QED
    BY <1>0, <1>8, <2>1, <2>3 DEF TypeInv, TypeOK, Reject
<1>9. CASE Ignore(c)
  <2>1. up' \in [Conns -> Seq(Messages)] /\ Addressed'
    BY <1>9, IncomingType DEF Ignore
  <2> QED
    BY <1>0, <1>9, <2>1 DEF TypeInv, TypeOK, Ignore
<1>10. CASE Leave(c)
  <2>1. up' \in [Conns -> Seq(Messages)] /\ Addressed'
    BY <1>0, <1>10 DEF Leave, TypeOK, Addressed
  <2>2. peers' \in [Peers -> Conns \cup {Nobody}]
    BY <1>0, <1>10 DEF Leave, End, Unregistered, TypeOK
  <2> QED
    BY <1>0, <1>10, <2>1, <2>2 DEF TypeInv, TypeOK, Leave, End
<1>11. CASE Lose(c)
  <2>1. peers' \in [Peers -> Conns \cup {Nobody}]
    BY <1>0, <1>11 DEF Lose, End, Unregistered, TypeOK
  <2> QED
    BY <1>0, <1>11, <2>1 DEF TypeInv, TypeOK, Addressed, Lose, End
<1> QED
  BY <1>1, <1>2, <1>3, <1>4, <1>5, <1>6, <1>7, <1>8, <1>9, <1>10, <1>11
     DEF ClientStep, Handle

\* The server and its clients keep their types, whatever connects, registers,
\* breaks and is sent.
THEOREM TypeCorrect == Spec => []TypeOK
<1>1. Init => TypeInv
  BY SignalingAssumption DEF Init, TypeInv, TypeOK, Addressed
<1>2. TypeInv /\ [Next]_vars => TypeInv'
  <2> SUFFICES ASSUME TypeInv, [Next]_vars PROVE TypeInv'
    OBVIOUS
  <2>1. CASE UNCHANGED vars
    BY <2>1 DEF vars, wires, TypeInv, TypeOK, Addressed
  <2> QED
    BY <2>1, TypeInvStep
<1>3. TypeInv => TypeOK
  BY DEF TypeInv
<1> QED
  BY <1>1, <1>2, <1>3, PTL DEF Spec

-----------------------------------------------------------------------------
(* The map.                                                                *)

\* A handler remembers the last id that was registered on its connection.
NamesInv ==
    \A c \in Conns :
        IF names[c] = <<>> THEN registered[c] = Nobody
        ELSE LastNamed(c, registered[c])

\* Nobody is in the map under an id he has not registered.
MapInv == \A p \in Peers : \A c \in Conns : peers[p] = c => Named(c, p)

\* A connection that is still to come has no handler and has registered nothing.
NewInv == \A c \in Conns : client[c] = "none" => handler[c] = "none" /\ names[c] = <<>>

MappedInv ==
    /\ TypeInv /\ NewInv /\ NamesInv /\ MapInv
    /\ StaleOnlyAfterRename /\ ReachableUnlessNamesake

\* The ids of a connection: the last one registered is one of them, and a
\* registration adds one, behind those there are.
LEMMA LastIsOne ==
    ASSUME TypeOK, NEW c \in Conns, NEW p, LastNamed(c, p)
    PROVE  Named(c, p)
<1>1. names[c] \in Seq(Peers) /\ names[c] # <<>>
  BY DEF TypeOK, LastNamed
<1>2. Len(names[c]) \in DOMAIN names[c]
  BY <1>1
<1> QED
  BY <1>2 DEF LastNamed, Named

LEMMA Remembered ==
    ASSUME TypeOK, NamesInv, NEW c \in Conns
    PROVE  registered[c] # Nobody => LastNamed(c, registered[c]) /\ Named(c, registered[c])
  BY LastIsOne DEF NamesInv

LEMMA NamesGrow ==
    ASSUME TypeOK, NEW c \in Conns, NEW p \in Peers,
           names' = [names EXCEPT ![c] = Append(@, p)]
    PROVE  /\ LastNamed(c, p)' /\ Named(c, p)'
           /\ \A d \in Conns : \A q : Named(d, q) => Named(d, q)'
           /\ \A d \in Conns \ {c} : names'[d] = names[d]
<1>1. names[c] \in Seq(Peers) /\ names'[c] = Append(names[c], p)
      /\ \A d \in Conns \ {c} : names'[d] = names[d]
  BY DEF TypeOK
<1> DEFINE n == Len(names[c])
<1>2. /\ n \in Nat /\ DOMAIN names[c] = 1..n
      /\ Len(names'[c]) = n + 1 /\ DOMAIN names'[c] = 1..(n + 1)
      /\ names'[c][n + 1] = p /\ names'[c] # <<>>
      /\ \A i \in 1..n : names'[c][i] = names[c][i]
  BY <1>1
<1>3. LastNamed(c, p)' /\ Named(c, p)'
  BY <1>2 DEF LastNamed, Named
<1>4. ASSUME NEW d \in Conns, NEW q, Named(d, q)
      PROVE  Named(d, q)'
  <2>1. CASE d = c
    <3>1. PICK i \in 1..n : names[c][i] = q
      BY <1>2, <1>4, <2>1 DEF Named
    <3>2. i \in DOMAIN names'[c] /\ names'[c][i] = q
      BY <1>2, <3>1
    <3> QED
      BY <2>1, <3>2 DEF Named
  <2>2. CASE d # c
    BY <1>1, <1>4, <2>2 DEF Named
  <2> QED
    BY <2>1, <2>2
<1> QED
  BY <1>1, <1>3, <1>4

\* A registration puts its connection into the map and takes none but a namesake out.
LEMMA RegisterMaps ==
    ASSUME MappedInv, NEW c \in Conns, Register(c)
    PROVE  (NamesInv /\ MapInv /\ StaleOnlyAfterRename /\ ReachableUnlessNamesake)'
<1>0. TypeInv /\ TypeOK /\ SignalingAssumption
  BY SignalingAssumption DEF MappedInv, TypeInv
<1>1. PICK p \in Peers : p = Head(up[c]).to
  BY <1>0, IncomingType DEF Register
<1>2. /\ peers' = [peers EXCEPT ![p] = c] /\ handler' = handler /\ handler[c] = "run"
      /\ registered' = [registered EXCEPT ![c] = p]
      /\ names' = [names EXCEPT ![c] = Append(@, p)]
  BY <1>1 DEF Register, LastName, Incoming
<1>3. /\ LastNamed(c, p)' /\ Named(c, p)'
      /\ \A d \in Conns : \A q : Named(d, q) => Named(d, q)'
      /\ \A d \in Conns \ {c} : names'[d] = names[d]
  BY <1>0, <1>1, <1>2, NamesGrow
<1>4. /\ peers'[p] = c /\ registered'[c] = p
      /\ \A q \in Peers \ {p} : peers'[q] = peers[q]
      /\ \A d \in Conns \ {c} : registered'[d] = registered[d]
  BY <1>0, <1>1, <1>2 DEF TypeOK
<1>5. NamesInv'
  <2> SUFFICES ASSUME NEW d \in Conns
               PROVE  IF names'[d] = <<>> THEN registered'[d] = Nobody
                      ELSE LastNamed(d, registered[d])'
    BY DEF NamesInv
  <2>1. CASE d = c
    BY <1>3, <1>4, <2>1 DEF LastNamed
  <2>2. CASE d # c
    BY <1>3, <1>4, <2>2 DEF MappedInv, NamesInv, LastNamed
  <2> QED
    BY <2>1, <2>2
<1>6. MapInv'
  BY <1>3, <1>4 DEF MappedInv, MapInv
<1>7. StaleOnlyAfterRename'
  <2> SUFFICES ASSUME NEW q \in Peers, NEW d \in Conns, peers'[q] = d, handler'[d] = "done"
               PROVE  Named(d, q)' /\ ~LastNamed(d, q)'
    BY DEF StaleOnlyAfterRename
  <2>1. d # c /\ q # p /\ peers[q] = d
    BY <1>2, <1>4
  <2>2. Named(d, q) /\ ~LastNamed(d, q)
    BY <1>2, <2>1 DEF MappedInv, StaleOnlyAfterRename
  <2> QED
    BY <1>3, <2>1, <2>2 DEF LastNamed
<1>8. ReachableUnlessNamesake'
  <2> SUFFICES ASSUME NEW d \in Conns, handler'[d] = "run", registered'[d] # Nobody,
                      peers'[registered'[d]] # d
               PROVE  \E e \in Conns \ {d} : Named(e, registered[d])'
    BY DEF ReachableUnlessNamesake
  <2>1. d # c /\ registered'[d] = registered[d]
    BY <1>4
  <2>2. CASE registered[d] = p
    BY <1>3, <2>1, <2>2
  <2>3. CASE registered[d] # p
    <3>1. peers[registered[d]] # d
      BY <1>0, <1>4, <2>1, <2>3 DEF TypeOK
    <3>2. PICK e \in Conns \ {d} : Named(e, registered[d])
      BY <1>2, <2>1, <3>1 DEF MappedInv, ReachableUnlessNamesake
    <3> QED
      BY <1>3, <2>1, <3>2
  <2> QED
    BY <2>2, <2>3
<1> QED
  BY <1>5, <1>6, <1>7, <1>8

\* The end of a connection removes its last id from the map, and nothing else.
LEMMA EndMaps ==
    ASSUME MappedInv, NEW c \in Conns, End(c)
    PROVE  (NamesInv /\ MapInv /\ StaleOnlyAfterRename /\ ReachableUnlessNamesake)'
<1> DEFINE p == registered[c]
<1>0. TypeOK /\ NamesInv /\ SignalingAssumption
  BY SignalingAssumption DEF MappedInv, TypeInv
<1>1. /\ names' = names /\ registered' = registered
      /\ handler'[c] = "done" /\ \A d \in Conns \ {c} : handler'[d] = handler[d]
  BY <1>0 DEF End, TypeOK
<1>2. \A q \in Peers : IF q = p THEN peers'[q] = Nobody ELSE peers'[q] = peers[q]
  BY <1>0 DEF End, Unregistered, TypeOK, SignalingAssumption
<1>3. \A d \in Conns : Nobody # d
  BY <1>0 DEF SignalingAssumption
<1>4. p # Nobody => LastNamed(c, p) /\ Named(c, p)
  BY <1>0, Remembered
<1> HIDE DEF p
<1>5. NamesInv'
  BY <1>0, <1>1 DEF NamesInv, LastNamed
<1>6. MapInv'
  BY <1>1, <1>2, <1>3 DEF MappedInv, MapInv, Named
<1>7. StaleOnlyAfterRename'
  <2> SUFFICES ASSUME NEW q \in Peers, NEW d \in Conns, peers'[q] = d, handler'[d] = "done"
               PROVE  Named(d, q) /\ ~LastNamed(d, q)
    BY <1>1 DEF StaleOnlyAfterRename, Named, LastNamed
  <2>1. q # p /\ peers[q] = d
    BY <1>2, <1>3
  <2>2. Named(d, q)
    BY <2>1 DEF MappedInv, MapInv
  <2>3. CASE d = c
    <3>1. names[c] # <<>>
      BY <1>0, <2>2, <2>3 DEF Named, TypeOK
    <3>2. LastNamed(c, p)
      BY <1>0, <3>1 DEF NamesInv, p
    <3> QED
      BY <2>1, <2>2, <2>3, <3>2 DEF LastNamed
  <2>4. CASE d # c
    BY <1>1, <2>1, <2>4 DEF MappedInv, StaleOnlyAfterRename
  <2> QED
    BY <2>3, <2>4
<1>8. ReachableUnlessNamesake'
  <2> SUFFICES ASSUME NEW d \in Conns, handler'[d] = "run", registered[d] # Nobody,
                      peers'[registered[d]] # d
               PROVE  \E e \in Conns \ {d} : Named(e, registered[d])
    BY <1>1 DEF ReachableUnlessNamesake, Named
  <2>1. d # c /\ handler[d] = "run"
    BY <1>1
  <2>2. CASE registered[d] = p
    BY <1>4, <2>1, <2>2
  <2>3. CASE registered[d] # p
    BY <1>0, <1>2, <2>1, <2>3 DEF MappedInv, ReachableUnlessNamesake, TypeOK
  <2> QED
    BY <2>2, <2>3
<1> QED
  BY <1>5, <1>6, <1>7, <1>8

LEMMA MappedInvStep ==
    ASSUME MappedInv, [Next]_vars
    PROVE  MappedInv'
<1>0. TypeInv
  BY DEF MappedInv
<1>1. TypeInv'
  <2>1. CASE UNCHANGED vars
    BY <1>0, <2>1 DEF vars, wires, TypeInv, TypeOK, Addressed
  <2> QED
    BY <1>0, <2>1, TypeInvStep
<1>2. ASSUME names' = names, registered' = registered, peers' = peers,
             \A c \in Conns : handler'[c] = handler[c]
                              \/ (handler'[c] = "run" /\ registered[c] = Nobody)
      PROVE  (NamesInv /\ MapInv /\ StaleOnlyAfterRename /\ ReachableUnlessNamesake)'
  BY <1>2 DEF MappedInv, NamesInv, MapInv, StaleOnlyAfterRename, ReachableUnlessNamesake,
              Named, LastNamed
<1>3. ASSUME UNCHANGED vars
      PROVE  (NamesInv /\ MapInv /\ StaleOnlyAfterRename /\ ReachableUnlessNamesake)'
  BY <1>2, <1>3 DEF vars
<1>4. ASSUME NEW c \in Conns, ClientStep(c) \/ Handle(c) \/ Break(c) \/ Lose(c)
      PROVE  (NamesInv /\ MapInv /\ StaleOnlyAfterRename /\ ReachableUnlessNamesake)'
  <2>1. CASE Register(c)
    BY <2>1, RegisterMaps
  <2>2. CASE Leave(c) \/ Lose(c)
    BY <2>2, EndMaps DEF Leave, Lose
  <2>3. CASE Connect(c)
    <3>1. registered[c] = Nobody
      BY <2>3 DEF Connect, MappedInv, NewInv, NamesInv
    <3> QED
      BY <1>0, <1>2, <2>3, <3>1 DEF Connect, TypeInv, TypeOK
  <2>4. CASE \/ Recv(c) \/ Drop(c) \/ (\E s \in Says[c] : Send(c, s)) \/ Break(c)
             \/ Relay(c) \/ Reject(c) \/ Ignore(c)
    BY <1>2, <2>4 DEF Recv, Drop, Send, Break, Relay, Reject, Ignore
  <2> QED
    BY <1>4, <2>1, <2>2, <2>3, <2>4 DEF ClientStep, Handle
<1>5. NewInv'
  <2> SUFFICES ASSUME NEW d \in Conns, client'[d] = "none"
               PROVE  handler'[d] = "none" /\ names'[d] = <<>>
    BY DEF NewInv
  <2>0. TypeOK /\ (client[d] = "none" => handler[d] = "none" /\ names[d] = <<>>)
    BY DEF MappedInv, NewInv, TypeInv
  <2>1. CASE UNCHANGED vars
    BY <2>0, <2>1 DEF vars
  <2>2. ASSUME NEW c \in Conns, ClientStep(c)
        PROVE  client[d] = "none" /\ handler'[d] = handler[d] /\ names'[d] = names[d]
    BY <2>0, <2>2 DEF ClientStep, Connect, Send, Recv, Drop, TypeOK
  <2>3. ASSUME NEW c \in Conns, Handle(c) \/ Break(c) \/ Lose(c)
        PROVE  client' = client /\ handler[c] = "run"
    BY <2>3 DEF Handle, Register, Relay, Reject, Ignore, Leave, Lose, End, Break, Incoming
  <2>4. ASSUME NEW c \in Conns, Handle(c) \/ Break(c) \/ Lose(c), c # d
        PROVE  handler'[d] = handler[d] /\ names'[d] = names[d]
    BY <2>0, <2>4 DEF Handle, Register, Relay, Reject, Ignore, Leave, Lose, End, Break,
       TypeOK
  <2> QED
    BY <2>0, <2>1, <2>2, <2>3, <2>4 DEF Next
<1> QED
  <2>1. (NamesInv /\ MapInv /\ StaleOnlyAfterRename /\ ReachableUnlessNamesake)'
    BY <1>3, <1>4 DEF Next
  <2> QED
    BY <1>1, <1>5, <2>1 DEF MappedInv

\* What the map says holds from the start.
LEMMA Mapped == Spec => []MappedInv
<1>1. Init => MappedInv
  <2> SUFFICES ASSUME Init PROVE MappedInv
    OBVIOUS
  <2>1. TypeInv
    BY SignalingAssumption DEF Init, TypeInv, TypeOK, Addressed
  <2>2. NewInv /\ NamesInv
    BY DEF Init, NewInv, NamesInv
  <2>3. MapInv /\ StaleOnlyAfterRename /\ ReachableUnlessNamesake
    BY SignalingAssumption
       DEF Init, MapInv, StaleOnlyAfterRename, ReachableUnlessNamesake, SignalingAssumption
  <2> QED
    BY <2>1, <2>2, <2>3 DEF MappedInv
<1>2. MappedInv /\ [Next]_vars => MappedInv'
  BY MappedInvStep
<1> QED
  BY <1>1, <1>2, PTL DEF Spec

\* The map points to a connection that has ended only under an id which that
\* connection has given up for another, however many connections there are.
THEOREM StaleEntries == Spec => []StaleOnlyAfterRename
<1>1. MappedInv => StaleOnlyAfterRename
  BY DEF MappedInv
<1> QED
  BY <1>1, Mapped, PTL

\* A registered connection is in the map unless another one has ever used its id.
THEOREM Reachable == Spec => []ReachableUnlessNamesake
<1>1. MappedInv => ReachableUnlessNamesake
  BY DEF MappedInv
<1> QED
  BY <1>1, Mapped, PTL

-----------------------------------------------------------------------------
(* Relaying.                                                               *)

\* The messages that are delivered or answered.
Numbered == {"signal", "garbage"}

Sent(m, c) == m.no \in DOMAIN sent[c] /\ sent[c][m.no] = [kind |-> m.kind, to |-> m.to]

\* c has asked to be registered under p.
Asked(c, p) ==
    p = PeerOf[c] \/ \E n \in DOMAIN sent[c] : sent[c][n] = [kind |-> "register", to |-> p]

\* What is on its way up was sent by the client, in this order.
UpSent ==
    \A c \in Conns : \A i \in DOMAIN up[c] :
        /\ up[c][i].from = c
        /\ up[c][i].kind \in Numbered => Sent(up[c][i], c)
        /\ up[c][i].kind = "register" => Asked(c, up[c][i].to)

UpSorted ==
    \A c \in Conns : \A i, j \in DOMAIN up[c] :
        i < j /\ up[c][i].kind \in Numbered /\ up[c][j].kind \in Numbered =>
            up[c][i].no < up[c][j].no

\* What comes down is what RelayIsFaithful says of what has arrived.
Sound(d, m) ==
    \/ m.kind = "signal" /\ Sent(m, m.from) /\ Named(d, m.to)
    \/ /\ m.kind = "error" /\ m.from = d /\ m.no \in DOMAIN sent[d]
       /\ \E kind \in Numbered : sent[d][m.no] = [kind |-> kind, to |-> m.to]

AllSound  == \A d \in Conns : \A i \in DOMAIN All(d) : Sound(d, All(d)[i])

AllSorted ==
    \A d \in Conns : \A i, j \in DOMAIN All(d) :
        i < j /\ All(d)[i].from = All(d)[j].from => All(d)[i].no < All(d)[j].no

\* What is still on its way up comes after all that was relayed before.
Behind ==
    \A c, d \in Conns : \A i \in DOMAIN All(d) : \A j \in DOMAIN up[c] :
        All(d)[i].from = c /\ up[c][j].kind \in Numbered => All(d)[i].no < up[c][j].no

Once ==
    \A d, e \in Conns : d # e =>
        \A i \in DOMAIN All(d) : \A j \in DOMAIN All(e) :
            ~(All(d)[i].from = All(e)[j].from /\ All(d)[i].no = All(e)[j].no)

Core == UpSent /\ UpSorted /\ AllSound /\ AllSorted /\ Behind /\ Once

\* One sequence is the beginning of another; or what is left of it without its
\* first element.
Begins(r, q) == \A i \in DOMAIN r : i \in DOMAIN q /\ r[i] = q[i]
IsLeft(r, q) ==
    \E k \in {0, 1} : \A i \in DOMAIN r : i \in Int /\ i + k \in DOMAIN q /\ r[i] = q[i + k]

NamesKept == \A d \in Conns : \A p : Named(d, p) => Named(d, p)'

LEMMA UpSentLess ==
    ASSUME UpSent, sent' = sent, \A c \in Conns : IsLeft(up'[c], up[c])
    PROVE  UpSent'
<1> SUFFICES ASSUME NEW c \in Conns, NEW i \in DOMAIN up'[c]
             PROVE  /\ up'[c][i].from = c
                    /\ up'[c][i].kind \in Numbered => Sent(up[c][i], c)'
                    /\ up'[c][i].kind = "register" => Asked(c, up[c][i].to)'
  BY DEF UpSent
<1>1. PICK k \in {0, 1} : i + k \in DOMAIN up[c] /\ up'[c][i] = up[c][i + k]
  BY DEF IsLeft
<1>2. /\ up'[c][i].from = c
      /\ up'[c][i].kind \in Numbered => Sent(up[c][i + k], c)
      /\ up'[c][i].kind = "register" => Asked(c, up[c][i + k].to)
  BY <1>1 DEF UpSent
<1> QED
  BY <1>1, <1>2 DEF Sent, Asked

\* Nothing new is on its way.
LEMMA CoreLess ==
    ASSUME Core, TypeOK, TypeOK', sent' = sent, NamesKept,
           \A c \in Conns : IsLeft(up'[c], up[c]),
           \A d \in Conns : Begins(All(d)', All(d))
    PROVE  Core'
<1>1. UpSent'
  BY UpSentLess DEF Core
<1>2. UpSorted'
  <2> SUFFICES ASSUME NEW c \in Conns, NEW i \in DOMAIN up'[c], NEW j \in DOMAIN up'[c],
                      i < j, up'[c][i].kind \in Numbered, up'[c][j].kind \in Numbered
               PROVE  up'[c][i].no < up'[c][j].no
    BY DEF UpSorted
  <2>1. PICK k \in {0, 1} :
            \A x \in DOMAIN up'[c] :
                x \in Int /\ x + k \in DOMAIN up[c] /\ up'[c][x] = up[c][x + k]
    BY DEF IsLeft
  <2>2. i + k < j + k
    BY <2>1
  <2> QED
    BY <2>1, <2>2 DEF Core, UpSorted
<1>3. AllSound'
  <2> SUFFICES ASSUME NEW d \in Conns, NEW i \in DOMAIN All(d)'
               PROVE  Sound(d, All(d)[i])'
    BY DEF AllSound
  <2>1. i \in DOMAIN All(d) /\ All(d)'[i] = All(d)[i]
    BY DEF Begins
  <2>2. Sound(d, All(d)[i])
    BY <2>1 DEF Core, AllSound
  <2> QED
    BY <2>1, <2>2 DEF Sound, Sent, NamesKept
<1>4. AllSorted'
  BY DEF Core, AllSorted, Begins
<1>5. Behind'
  <2> SUFFICES ASSUME NEW c \in Conns, NEW d \in Conns, NEW i \in DOMAIN All(d)',
                      NEW j \in DOMAIN up'[c],
                      All(d)'[i].from = c, up'[c][j].kind \in Numbered
               PROVE  All(d)'[i].no < up'[c][j].no
    BY DEF Behind
  <2>1. i \in DOMAIN All(d) /\ All(d)'[i] = All(d)[i]
    BY DEF Begins
  <2>2. PICK k \in {0, 1} : j + k \in DOMAIN up[c] /\ up'[c][j] = up[c][j + k]
    BY DEF IsLeft
  <2> QED
    BY <2>1, <2>2 DEF Core, Behind
<1>6. Once'
  BY DEF Core, Once, Begins
<1> QED
  BY <1>1, <1>2, <1>3, <1>4, <1>5, <1>6 DEF Core

\* Two queues, one behind the other.
LEMMA Joined ==
    ASSUME NEW q \in Seq(Messages), NEW r \in Seq(Messages)
    PROVE  /\ q \o r \in Seq(Messages)
           /\ Len(q) \in Nat /\ Len(r) \in Nat
           /\ DOMAIN q = 1..Len(q) /\ DOMAIN r = 1..Len(r)
           /\ Len(q \o r) = Len(q) + Len(r)
           /\ DOMAIN (q \o r) = 1..(Len(q) + Len(r))
           /\ \A i \in 1..Len(q) : (q \o r)[i] = q[i]
           /\ \A i \in 1..Len(r) : (q \o r)[Len(q) + i] = r[i]
           /\ \A i \in DOMAIN q : i \in DOMAIN (q \o r) /\ (q \o r)[i] = q[i]
<1>1. /\ q \o r \in Seq(Messages)
      /\ Len(q) \in Nat /\ Len(r) \in Nat
      /\ DOMAIN q = 1..Len(q) /\ DOMAIN r = 1..Len(r)
      /\ Len(q \o r) = Len(q) + Len(r)
      /\ DOMAIN (q \o r) = 1..(Len(q) + Len(r))
      /\ \A i \in 1..Len(q) : (q \o r)[i] = q[i]
      /\ \A i \in 1..Len(r) : (q \o r)[Len(q) + i] = r[i]
  OBVIOUS
<1>2. ASSUME NEW i \in DOMAIN q
      PROVE  i \in DOMAIN (q \o r) /\ (q \o r)[i] = q[i]
  OBVIOUS
<1> QED
  BY <1>1, <1>2

LEMMA AllType ==
    ASSUME TypeOK, NEW d \in Conns
    PROVE  /\ All(d) \in Seq(Messages)
           /\ \A i \in DOMAIN All(d) : All(d)[i] \in Messages
           /\ \A i \in DOMAIN got[d] : i \in DOMAIN All(d) /\ All(d)[i] = got[d][i]
<1>1. got[d] \in Seq(Messages) /\ down[d] \in Seq(Messages)
  BY DEF TypeOK
<1>2. /\ All(d) \in Seq(Messages)
      /\ \A i \in DOMAIN got[d] : i \in DOMAIN All(d) /\ All(d)[i] = got[d][i]
  BY <1>1, Joined, Zenon DEF All
<1>3. \A i \in DOMAIN All(d) : All(d)[i] \in Messages
  BY <1>2, ElementOfSeq, LenProperties
<1> QED
  BY <1>2, <1>3

\* What has been relayed has a number that its sender has used.
LEMMA Used ==
    ASSUME Core, TypeOK, NEW d \in Conns, NEW i \in DOMAIN All(d)
    PROVE  /\ All(d)[i].from \in Conns
           /\ All(d)[i].no \in DOMAIN sent[All(d)[i].from]
<1>1. All(d)[i] \in Messages
  BY AllType
<1>2. Sound(d, All(d)[i])
  BY DEF Core, AllSound
<1> QED
  BY <1>1, <1>2 DEF Sound, Sent, Messages

SentKept ==
    \A d \in Conns : \A n \in DOMAIN sent[d] :
        n \in DOMAIN sent'[d] /\ sent'[d][n] = sent[d][n]

\* A client sends one message more.
LEMMA CoreSent ==
    ASSUME Core, TypeOK, TypeOK', SentKept, NamesKept,
           NEW c \in Conns, NEW m \in Messages, m.from = c,
           m.kind \in Numbered => m.no = Len(sent[c]) + 1 /\ Sent(m, c)',
           m.kind = "register" => Asked(c, m.to)',
           \A d \in Conns : \A i \in DOMAIN up'[d] :
               \/ i \in DOMAIN up[d] /\ up'[d][i] = up[d][i]
               \/ d = c /\ i = Len(up[c]) + 1 /\ up'[d][i] = m,
           \A d \in Conns : Begins(All(d)', All(d))
    PROVE  Core'
<1>0. /\ up[c] \in Seq(Messages) /\ sent[c] \in Seq(Contents) /\ Len(sent[c]) \in Nat
      /\ DOMAIN up[c] = 1..Len(up[c]) /\ DOMAIN sent[c] = 1..Len(sent[c])
      /\ Len(up[c]) \in Nat
  BY DEF TypeOK
<1>6. m.no \in Nat
  BY DEF Messages
<1>1. UpSent'
  <2> SUFFICES ASSUME NEW d \in Conns, NEW i \in DOMAIN up'[d]
               PROVE  /\ up'[d][i].from = d
                      /\ up'[d][i].kind \in Numbered => Sent(up[d][i], d)'
                      /\ up'[d][i].kind = "register" => Asked(d, up[d][i].to)'
    BY DEF UpSent
  <2>1. CASE i \in DOMAIN up[d] /\ up'[d][i] = up[d][i]
    <3>1. /\ up[d][i].from = d
          /\ up[d][i].kind \in Numbered => Sent(up[d][i], d)
          /\ up[d][i].kind = "register" => Asked(d, up[d][i].to)
      BY <2>1 DEF Core, UpSent
    <3>2. Sent(up[d][i], d) => Sent(up[d][i], d)'
      BY <2>1 DEF SentKept, Sent
    <3>3. Asked(d, up[d][i].to) => Asked(d, up[d][i].to)'
      BY <2>1 DEF SentKept, Asked
    <3> QED
      BY <2>1, <3>1, <3>2, <3>3
  <2>2. CASE d = c /\ up'[d][i] = m
    BY <2>2 DEF Sent, Asked
  <2> QED
    BY <2>1, <2>2
<1>2. UpSorted'
  <2> SUFFICES ASSUME NEW d \in Conns, NEW i \in DOMAIN up'[d], NEW j \in DOMAIN up'[d],
                      i < j, up'[d][i].kind \in Numbered, up'[d][j].kind \in Numbered
               PROVE  up'[d][i].no < up'[d][j].no
    BY DEF UpSorted
  <2>1. CASE /\ i \in DOMAIN up[d] /\ up'[d][i] = up[d][i]
             /\ j \in DOMAIN up[d] /\ up'[d][j] = up[d][j]
    BY <2>1 DEF Core, UpSorted
  <2>2. CASE /\ i \in DOMAIN up[d] /\ up'[d][i] = up[d][i]
             /\ d = c /\ up'[d][j] = m
    <3>1. up[c][i].no \in DOMAIN sent[c]
      BY <2>2 DEF Core, UpSent, Sent
    <3> QED
      BY <1>0, <2>2, <3>1
  <2>3. CASE d = c /\ i = Len(up[c]) + 1
    <3>1. j \in DOMAIN up[c] \/ j = Len(up[c]) + 1
      BY <2>3
    <3> QED
      BY <1>0, <2>3, <3>1
  <2> QED
    BY <2>1, <2>2, <2>3
<1>3. AllSound'
  <2> SUFFICES ASSUME NEW d \in Conns, NEW i \in DOMAIN All(d)'
               PROVE  Sound(d, All(d)[i])'
    BY DEF AllSound
  <2>1. i \in DOMAIN All(d) /\ All(d)'[i] = All(d)[i]
    BY DEF Begins
  <2>2. PICK x \in Messages : x = All(d)[i] /\ Sound(d, x) /\ x.from \in Conns
    BY <2>1, AllType, Used DEF Core, AllSound
  <2>3. x.kind = "signal" /\ Sent(x, x.from) /\ Named(d, x.to) => Sound(d, x)'
    BY <2>2 DEF Sound, Sent, NamesKept, SentKept
  <2>4. ASSUME x.kind = "error" /\ x.from = d /\ x.no \in DOMAIN sent[d],
               NEW kind \in Numbered, sent[d][x.no] = [kind |-> kind, to |-> x.to]
        PROVE  Sound(d, x)'
    BY <2>4 DEF Sound, SentKept
  <2>5. Sound(d, x)'
    BY <2>2, <2>3, <2>4 DEF Sound
  <2> QED
    BY <2>1, <2>2, <2>5 DEF Sound, Sent
<1>4. AllSorted' /\ Once'
  BY DEF Core, AllSorted, Once, Begins
<1>5. Behind'
  <2> SUFFICES ASSUME NEW e \in Conns, NEW d \in Conns, NEW i \in DOMAIN All(d)',
                      NEW j \in DOMAIN up'[e],
                      All(d)'[i].from = e, up'[e][j].kind \in Numbered
               PROVE  All(d)'[i].no < up'[e][j].no
    BY DEF Behind
  <2>1. i \in DOMAIN All(d) /\ All(d)'[i] = All(d)[i]
    BY DEF Begins
  <2>2. CASE j \in DOMAIN up[e] /\ up'[e][j] = up[e][j]
    BY <2>1, <2>2 DEF Core, Behind
  <2>3. CASE e = c /\ up'[e][j] = m
    <3>1. All(d)[i].no \in DOMAIN sent[c]
      BY <2>1, <2>3, Used
    <3> QED
      BY <1>0, <2>1, <2>3, <3>1
  <2> QED
    BY <2>2, <2>3
<1> QED
  BY <1>1, <1>2, <1>3, <1>4, <1>5 DEF Core

\* The server passes one message on, or answers it.
LEMMA CoreRelayed ==
    ASSUME Core, TypeOK, TypeOK', sent' = sent, NamesKept,
           NEW c \in Conns, up[c] # <<>>, up' = [up EXCEPT ![c] = Tail(@)],
           Head(up[c]).kind \in Numbered,
           NEW t \in Conns, NEW n, n.from = c, n.no = Head(up[c]).no, Sound(t, n),
           \A d \in Conns : \A i \in DOMAIN All(d)' :
               \/ i \in DOMAIN All(d) /\ All(d)'[i] = All(d)[i]
               \/ d = t /\ i = Len(All(t)) + 1 /\ All(d)'[i] = n
    PROVE  Core'
<1>0. /\ up[c] \in Seq(Messages) /\ Head(up[c]) = up[c][1] /\ 1 \in DOMAIN up[c]
      /\ \A i \in DOMAIN Tail(up[c]) :
            i \in Nat \ {0} /\ i + 1 \in DOMAIN up[c] /\ Tail(up[c])[i] = up[c][i + 1]
  <2>1. up[c] \in Seq(Messages)
    BY DEF TypeOK
  <2>2. Tail(up[c]) \in Seq(Messages)
    BY <2>1, TailType
  <2>3. \A i \in DOMAIN Tail(up[c]) : i \in Nat \ {0}
    BY <2>2
  <2> QED
    BY <2>1, <2>3, TailType
<1>1. /\ up' \in [Conns -> Seq(Messages)] /\ up'[c] = Tail(up[c])
      /\ \A d \in Conns \ {c} : up'[d] = up[d]
  BY <1>0 DEF TypeOK
<1>2. \A d \in Conns : IsLeft(up'[d], up[d])
  <2> SUFFICES ASSUME NEW d \in Conns PROVE IsLeft(up'[d], up[d])
    OBVIOUS
  <2>1. CASE d = c
    BY <1>0, <1>1, <2>1 DEF IsLeft
  <2>2. CASE d # c
    <3>1. up[d] \in Seq(Messages)
      BY DEF TypeOK
    <3>2. \A i \in DOMAIN up[d] : i \in Int /\ i + 0 = i
      BY <3>1
    <3> QED
      BY <1>1, <2>2, <3>2 DEF IsLeft
  <2> QED
    BY <2>1, <2>2
<1>3. UpSent' /\ UpSorted'
  <2>1. UpSent'
    BY <1>2, UpSentLess DEF Core
  <2>2. ASSUME NEW e \in Conns, NEW i \in DOMAIN up'[e], NEW j \in DOMAIN up'[e],
               i < j, up'[e][i].kind \in Numbered, up'[e][j].kind \in Numbered
        PROVE  up'[e][i].no < up'[e][j].no
    <3>1. PICK k \in {0, 1} :
              \A x \in DOMAIN up'[e] :
                  x \in Int /\ x + k \in DOMAIN up[e] /\ up'[e][x] = up[e][x + k]
      BY <1>2 DEF IsLeft
    <3>2. i + k < j + k
      BY <2>2, <3>1
    <3> QED
      BY <2>2, <3>1, <3>2 DEF Core, UpSorted
  <2> QED
    BY <2>1, <2>2 DEF UpSorted
<1>4. Len(All(t)) \in Nat /\ DOMAIN All(t) = 1..Len(All(t))
  BY AllType, LenProperties
\* What was relayed of c before has a smaller number.
<1>5. \A d \in Conns : \A i \in DOMAIN All(d) : All(d)[i].from = c => All(d)[i].no < n.no
  BY <1>0 DEF Core, Behind
<1>6. \A d \in Conns : \A i \in DOMAIN All(d) : All(d)[i] \in Messages
  BY AllType
<1>7. n.no \in Nat
  BY <1>0, TailType DEF Messages
<1>8. AllSound'
  <2> SUFFICES ASSUME NEW d \in Conns, NEW i \in DOMAIN All(d)'
               PROVE  Sound(d, All(d)[i])'
    BY DEF AllSound
  <2>1. Sound(d, All(d)'[i])
    BY DEF Core, AllSound
  <2> QED
    BY <2>1 DEF Sound, Sent, NamesKept
<1>9. AllSorted'
  <2> SUFFICES ASSUME NEW d \in Conns, NEW i \in DOMAIN All(d)', NEW j \in DOMAIN All(d)',
                      i < j, All(d)'[i].from = All(d)'[j].from
               PROVE  All(d)'[i].no < All(d)'[j].no
    BY DEF AllSorted
  <2>1. CASE /\ i \in DOMAIN All(d) /\ All(d)'[i] = All(d)[i]
             /\ j \in DOMAIN All(d) /\ All(d)'[j] = All(d)[j]
    BY <2>1 DEF Core, AllSorted
  <2>2. CASE i \in DOMAIN All(d) /\ All(d)'[i] = All(d)[i] /\ All(d)'[j] = n
    BY <1>5, <2>2
  <2>3. CASE d = t /\ i = Len(All(t)) + 1
    <3>1. j \in DOMAIN All(t) \/ j = Len(All(t)) + 1
      BY <2>3
    <3> QED
      BY <1>4, <2>3, <3>1
  <2> QED
    BY <2>1, <2>2, <2>3
<1>10. Behind'
  <2> SUFFICES ASSUME NEW e \in Conns, NEW d \in Conns, NEW i \in DOMAIN All(d)',
                      NEW j \in DOMAIN up'[e],
                      All(d)'[i].from = e, up'[e][j].kind \in Numbered
               PROVE  All(d)'[i].no < up'[e][j].no
    BY DEF Behind
  <2>1. CASE i \in DOMAIN All(d) /\ All(d)'[i] = All(d)[i]
    <3>1. PICK k \in {0, 1} : j + k \in DOMAIN up[e] /\ up'[e][j] = up[e][j + k]
      BY <1>2 DEF IsLeft
    <3> QED
      BY <2>1, <3>1 DEF Core, Behind
  <2>2. CASE All(d)'[i] = n
    <3>1. /\ e = c /\ j \in Nat \ {0} /\ j + 1 \in DOMAIN up[c]
          /\ up'[e][j] = up[c][j + 1] /\ 1 < j + 1
      BY <1>0, <1>1, <2>2
    <3> QED
      BY <1>0, <2>2, <3>1 DEF Core, UpSorted
  <2> QED
    BY <2>1, <2>2
<1>11. Once'
  <2> SUFFICES ASSUME NEW d \in Conns, NEW e \in Conns, d # e,
                      NEW i \in DOMAIN All(d)', NEW j \in DOMAIN All(e)',
                      All(d)'[i].from = All(e)'[j].from, All(d)'[i].no = All(e)'[j].no
               PROVE  FALSE
    BY DEF Once
  <2>1. CASE /\ i \in DOMAIN All(d) /\ All(d)'[i] = All(d)[i]
             /\ j \in DOMAIN All(e) /\ All(e)'[j] = All(e)[j]
    BY <2>1 DEF Core, Once
  <2>2. CASE i \in DOMAIN All(d) /\ All(d)'[i] = All(d)[i] /\ All(e)'[j] = n
    BY <1>5, <1>7, <2>2
  <2>3. CASE j \in DOMAIN All(e) /\ All(e)'[j] = All(e)[j] /\ All(d)'[i] = n
    BY <1>5, <1>7, <2>3
  <2> QED
    BY <2>1, <2>2, <2>3
<1> QED
  BY <1>3, <1>8, <1>9, <1>10, <1>11 DEF Core

\* What arrives and what is on its way, when a message is posted, one is taken,
\* or only the beginning of what is on its way stays.
LEMMA JoinedMore ==
    ASSUME NEW q \in Seq(Messages), NEW r \in Seq(Messages), NEW n \in Messages,
           NEW i \in DOMAIN (q \o Append(r, n))
    PROVE  \/ i \in DOMAIN (q \o r) /\ (q \o Append(r, n))[i] = (q \o r)[i]
           \/ i = Len(q \o r) + 1 /\ (q \o Append(r, n))[i] = n
  OBVIOUS

LEMMA JoinedGrown ==
    ASSUME NEW q \in Seq(Messages), NEW r \in Seq(Messages), NEW n \in Messages
    PROVE  /\ \A i \in DOMAIN (q \o r) :
                 /\ i \in DOMAIN (q \o Append(r, n))
                 /\ (q \o Append(r, n))[i] = (q \o r)[i]
           /\ \E j \in DOMAIN (q \o Append(r, n)) : (q \o Append(r, n))[j] = n
<1>1. PICK a \in Nat, b \in Nat :
          /\ a = Len(q) /\ b = Len(r) /\ DOMAIN (q \o r) = 1..(a + b)
          /\ DOMAIN (q \o Append(r, n)) = 1..(a + b + 1)
          /\ (q \o Append(r, n))[a + b + 1] = n
  OBVIOUS
<1>2. ASSUME NEW i \in DOMAIN (q \o r)
      PROVE  (q \o Append(r, n))[i] = (q \o r)[i]
  OBVIOUS
<1>3. \A i \in 1..(a + b) : i \in 1..(a + b + 1)
  OBVIOUS
<1>4. a + b + 1 \in 1..(a + b + 1)
  OBVIOUS
<1> QED
  BY <1>1, <1>2, <1>3, <1>4, Zenon

LEMMA JoinedTaken ==
    ASSUME NEW q \in Seq(Messages), NEW r \in Seq(Messages), r # <<>>
    PROVE  Append(q, Head(r)) \o Tail(r) = q \o r
  OBVIOUS

LEMMA JoinedBeginning ==
    ASSUME NEW q \in Seq(Messages), NEW r \in Seq(Messages), NEW p \in Seq(Messages),
           Begins(p, r)
    PROVE  Begins(q \o p, q \o r)
<1> SUFFICES ASSUME NEW i \in DOMAIN (q \o p)
             PROVE  i \in DOMAIN (q \o r) /\ (q \o p)[i] = (q \o r)[i]
  BY DEF Begins
<1>1. CASE i \in DOMAIN q
  BY <1>1, Joined
<1>2. CASE i \notin DOMAIN q
  <2>1. i \in 1..(Len(q) + Len(p)) /\ ~(i \in 1..Len(q))
    BY <1>2, Joined
  <2> DEFINE k == i - Len(q)
  <2>2. k \in DOMAIN p /\ i = Len(q) + k
    BY <2>1, Joined
  <2>3. k \in DOMAIN r /\ p[k] = r[k]
    BY <2>2 DEF Begins
  <2> QED
    BY <2>2, <2>3, Joined
<1> QED
  BY <1>1, <1>2

LEMMA Downloaded ==
    ASSUME TypeOK, NEW t \in Conns, NEW n \in Messages, down' = Download(t, n), got' = got,
           NEW d \in Conns, NEW i \in DOMAIN All(d)'
    PROVE  \/ i \in DOMAIN All(d) /\ All(d)'[i] = All(d)[i]
           \/ d = t /\ i = Len(All(t)) + 1 /\ All(d)'[i] = n
<1>1. got[d] \in Seq(Messages) /\ down[d] \in Seq(Messages)
  BY DEF TypeOK
<1>2. down'[d] = down[d] \/ (d = t /\ down'[d] = Append(down[d], n))
  BY DEF TypeOK, Download, Posted
<1>3. CASE down'[d] = down[d]
  BY <1>3 DEF All
<1>4. CASE d = t /\ down'[d] = Append(down[d], n)
  <2>1. All(d)' = got[d] \o Append(down[d], n)
    BY <1>4 DEF All
  <2>2. i \in DOMAIN (got[d] \o Append(down[d], n))
    BY <2>1
  <2>3. \/ /\ i \in DOMAIN (got[d] \o down[d])
           /\ (got[d] \o Append(down[d], n))[i] = (got[d] \o down[d])[i]
        \/ /\ i = Len(got[d] \o down[d]) + 1
           /\ (got[d] \o Append(down[d], n))[i] = n
    BY <1>1, <2>2, JoinedMore
  <2>4. All(d) = got[d] \o down[d]
    BY DEF All
  <2> QED
    BY <1>4, <2>1, <2>3, <2>4, Zenon
<1> QED
  BY <1>2, <1>3, <1>4

LEMMA Same == ASSUME NEW q PROVE Begins(q, q)
  BY DEF Begins

LEMMA SameQueue == ASSUME NEW q \in Seq(Messages) PROVE IsLeft(q, q)
<1>1. \A i \in DOMAIN q : i \in Int /\ i + 0 = i
  OBVIOUS
<1> QED
  BY <1>1 DEF IsLeft

LEMMA LessQueue ==
    ASSUME NEW q \in Seq(Messages), q # <<>>
    PROVE  IsLeft(Tail(q), q) /\ IsLeft(<<>>, q)
<1>1. Tail(q) \in Seq(Messages)
  BY TailType
<1>2. \A i \in DOMAIN Tail(q) : i \in Int
  BY <1>1
<1> QED
  BY <1>2, TailType DEF IsLeft

\* A step that only takes things away.
LEMMA QueuesShrink ==
    ASSUME Core, TypeOK, TypeOK', sent' = sent, NamesKept, got' = got, NEW c \in Conns,
           \A d \in Conns \ {c} : up'[d] = up[d], IsLeft(up'[c], up[c]),
           \A d \in Conns : Begins(down'[d], down[d])
    PROVE  Core'
<1>1. ASSUME NEW d \in Conns PROVE IsLeft(up'[d], up[d])
  BY SameQueue DEF TypeOK
<1>2. ASSUME NEW d \in Conns PROVE Begins(All(d)', All(d))
  <2>1. /\ got[d] \in Seq(Messages) /\ down[d] \in Seq(Messages)
        /\ down'[d] \in Seq(Messages)
    BY DEF TypeOK
  <2> QED
    BY <2>1, JoinedBeginning DEF All
<1> QED
  BY <1>1, <1>2, CoreLess

\* What a client sends, and that it has sent it.
LEMMA CoreUpload ==
    ASSUME Core, TypeOK, TypeOK', SentKept, NamesKept,
           NEW c \in Conns, NEW m \in Messages, m.from = c,
           m.kind \in Numbered => m.no = Len(sent[c]) + 1 /\ Sent(m, c)',
           m.kind = "register" => Asked(c, m.to)',
           Upload(c, m),
           \A d \in Conns : Begins(All(d)', All(d))
    PROVE  Core'
<1>1. ASSUME NEW d \in Conns, NEW i \in DOMAIN up'[d]
      PROVE  \/ i \in DOMAIN up[d] /\ up'[d][i] = up[d][i]
             \/ d = c /\ i = Len(up[c]) + 1 /\ up'[d][i] = m
  <2>1. up'[d] = up[d] \/ (d = c /\ up'[d] = Posted(up[c], m))
    BY DEF Upload, TypeOK
  <2>2. up[c] \in Seq(Messages) /\ Len(up[c]) \in Nat /\ DOMAIN up[c] = 1..Len(up[c])
    BY DEF TypeOK
  <2>3. /\ DOMAIN Posted(up[c], m) = 1..(Len(up[c]) + 1)
        /\ Posted(up[c], m)[Len(up[c]) + 1] = m
        /\ \A j \in 1..Len(up[c]) : Posted(up[c], m)[j] = up[c][j]
    BY <2>2, PostedType
  <2>4. CASE up'[d] = up[d]
    BY <2>4
  <2>5. CASE d = c /\ up'[d] = Posted(up[c], m)
    <3>1. i \in 1..Len(up[c]) \/ i = Len(up[c]) + 1
      BY <2>2, <2>3, <2>5
    <3> QED
      BY <2>2, <2>3, <2>5, <3>1
  <2> QED
    BY <2>1, <2>4, <2>5
<1> QED
  BY <1>1, CoreSent

\* What a handler takes from its connection to pass it on or to answer it.
LEMMA Taken ==
    ASSUME TypeInv, Core, NEW c \in Conns, NEW kind \in Numbered, Incoming(c, kind)
    PROVE  /\ up[c] # <<>> /\ up' = [up EXCEPT ![c] = Tail(@)]
           /\ Head(up[c]) \in Messages /\ Head(up[c]).kind = kind
           /\ Head(up[c]).from = c /\ Sent(Head(up[c]), c)
<1>1. up[c] \in Seq(Messages) /\ up[c] # <<>>
  BY DEF TypeInv, TypeOK, Incoming
<1>2. Head(up[c]) \in Messages /\ Head(up[c]) = up[c][1] /\ 1 \in DOMAIN up[c]
  BY <1>1, TailType
<1> QED
  BY <1>1, <1>2 DEF Incoming, Core, UpSent

\* An error about a message that has just been taken.
LEMMA Answered ==
    ASSUME TypeInv, TypeInv', Core, NEW c \in Conns, NEW kind \in Numbered,
           Incoming(c, kind), sent' = sent, got' = got, NamesKept,
           down' = Download(c, ErrorFor(Head(up[c])))
    PROVE  Core'
<1> DEFINE m == Head(up[c])
           n == ErrorFor(m)
<1>1. /\ up[c] # <<>> /\ up' = [up EXCEPT ![c] = Tail(@)]
      /\ m \in Messages /\ m.kind = kind /\ m.from = c /\ Sent(m, c)
  BY Taken
<1>2. /\ n \in Messages /\ n.from = c /\ n.no = m.no /\ n.to = m.to /\ n.kind = "error"
  BY <1>1, ErrorType DEF ErrorFor, Messages
<1>3. Sound(c, n)
  BY <1>1, <1>2 DEF Sound, Sent
<1>4. \A d \in Conns : \A i \in DOMAIN All(d)' :
         \/ i \in DOMAIN All(d) /\ All(d)'[i] = All(d)[i]
         \/ d = c /\ i = Len(All(c)) + 1 /\ All(d)'[i] = n
  BY <1>2, Downloaded DEF TypeInv
<1> HIDE DEF n
<1> QED
  BY <1>1, <1>2, <1>3, <1>4, CoreRelayed DEF TypeInv

LEMMA CoreRelay ==
    ASSUME MappedInv, TypeInv', Core, NEW c \in Conns, Relay(c)
    PROVE  Core'
<1> DEFINE m == Head(up[c])
<1>0. TypeInv /\ SignalingAssumption /\ Incoming(c, "signal") /\ "signal" \in Numbered
  BY SignalingAssumption DEF MappedInv, Relay, Numbered
<1>1. /\ sent' = sent /\ got' = got /\ NamesKept /\ down' = Relayed(c, m)
  BY DEF Relay, NamesKept, Named
<1>2. CASE peers[m.to] = Nobody
  BY <1>0, <1>1, <1>2, Answered DEF Relayed
<1>3. CASE peers[m.to] # Nobody
  <2> DEFINE t == peers[m.to]
  <2>1. /\ up[c] # <<>> /\ up' = [up EXCEPT ![c] = Tail(@)]
        /\ m \in Messages /\ m.kind = "signal" /\ m.from = c /\ Sent(m, c)
    BY <1>0, Taken
  <2>2. m.to \in Peers
    BY <1>0, IncomingType
  <2>3. t \in Conns
    BY <1>0, <1>3, <2>2 DEF TypeInv, TypeOK
  <2>4. Sound(t, m)
    BY <2>1, <2>2, <2>3 DEF Sound, MappedInv, MapInv
  <2>5. down' = Download(t, m)
    BY <1>1, <1>3 DEF Relayed
  <2> HIDE DEF m, t
  <2>6. \A d \in Conns : \A i \in DOMAIN All(d)' :
           \/ i \in DOMAIN All(d) /\ All(d)'[i] = All(d)[i]
           \/ d = t /\ i = Len(All(t)) + 1 /\ All(d)'[i] = m
    BY <1>0, <1>1, <2>1, <2>3, <2>5, Downloaded DEF TypeInv
  <2>7. m.no = Head(up[c]).no /\ Head(up[c]).kind \in Numbered
    BY <1>0, <2>1 DEF m
  <2>8. Core /\ TypeOK /\ TypeOK' /\ sent' = sent /\ NamesKept
    BY <1>0, <1>1 DEF TypeInv
  <2>9. m.from = c /\ m.no = Head(up[c]).no /\ Head(up[c]).kind \in Numbered
    BY <2>1, <2>7
  <2> QED
    BY <2>1, <2>3, <2>4, <2>6, <2>8, <2>9, CoreRelayed
<1> QED
  BY <1>2, <1>3

\* What a client takes it still has.
LEMMA RecvJoins ==
    ASSUME TypeOK, NEW c \in Conns, Recv(c), NEW d \in Conns
    PROVE  All(d)' = All(d)
<1>1. /\ got' = [got EXCEPT ![c] = Append(@, Head(down[c]))]
      /\ down' = [down EXCEPT ![c] = Tail(@)] /\ down[c] # <<>>
      /\ got[c] \in Seq(Messages) /\ down[c] \in Seq(Messages)
  BY DEF Recv, TypeOK
<1>2. CASE d = c
  <2>1. got'[c] = Append(got[c], Head(down[c])) /\ down'[c] = Tail(down[c])
    BY <1>1 DEF TypeOK
  <2>2. Append(got[c], Head(down[c])) \o Tail(down[c]) = got[c] \o down[c]
    BY <1>1, JoinedTaken
  <2> QED
    BY <1>2, <2>1, <2>2, Zenon DEF All
<1>3. CASE d # c
  BY <1>1, <1>3 DEF All, TypeOK
<1> QED
  BY <1>2, <1>3

LEMMA CoreStep ==
    ASSUME MappedInv, TypeInv', Core, Next
    PROVE  Core'
<1> SUFFICES ASSUME NEW c \in Conns,
                    ClientStep(c) \/ Handle(c) \/ Break(c) \/ Lose(c)
             PROVE  Core'
  BY DEF Next
<1>0. /\ TypeInv /\ TypeOK /\ TypeOK' /\ SignalingAssumption
      /\ up[c] \in Seq(Messages) /\ down[c] \in Seq(Messages)
      /\ got[c] \in Seq(Messages) /\ sent[c] \in Seq(Contents)
  BY SignalingAssumption DEF MappedInv, TypeInv, TypeOK
<1>12. sent' = sent => SentKept
  BY DEF SentKept
<1>13. names' = names => NamesKept
  BY DEF NamesKept, Named
<1>1. CASE Connect(c)
  <2> DEFINE m == Message("register", c, 0, PeerOf[c])
  <2>1. /\ m \in Messages /\ m.from = c /\ m.kind = "register"
        /\ m.to = PeerOf[c] /\ Asked(c, m.to)'
    <3>1. PeerOf[c] \in Peers
      BY <1>0 DEF SignalingAssumption
    <3> QED
      BY <3>1, MessageType DEF Message, Asked
  <2>2. Upload(c, m) /\ sent' = sent /\ names' = names /\ down' = down /\ got' = got
    BY <1>1 DEF Connect
  <2> HIDE DEF m
  <2>3. \A d \in Conns : Begins(All(d)', All(d))
    BY <2>2, Same DEF All
  <2> QED
    BY <1>0, <1>12, <1>13, <2>1, <2>2, <2>3, CoreUpload DEF Numbered
<1>2. ASSUME NEW s \in Says[c], Send(c, s)
      PROVE  Core'
  <2>0. PICK no \in Nat : no = Len(sent[c]) + 1 /\ DOMAIN sent[c] = 1..Len(sent[c])
    BY <1>0
  <2>1. /\ s \in Contents
        /\ s.kind \in {"signal", "register", "untargeted", "garbage"}
        /\ s.to \in Peers \cup {Nobody}
        /\ s = [kind |-> s.kind, to |-> s.to]
    BY <1>0 DEF SignalingAssumption, Contents
  <2>2. sent'[c] = Append(sent[c], s) /\ \A d \in Conns \ {c} : sent'[d] = sent[d]
    BY <1>0, <1>2 DEF Send, TypeOK
  <2>3. /\ no \in DOMAIN sent'[c] /\ sent'[c][no] = s
        /\ \A i \in DOMAIN sent[c] : i \in DOMAIN sent'[c] /\ sent'[c][i] = sent[c][i]
    BY <1>0, <2>0, <2>1, <2>2
  <2>4. SentKept
    BY <2>2, <2>3 DEF SentKept
  <2>5. PICK m \in Messages : m = Message(s.kind, c, no, s.to)
    BY <2>0, <2>1, MessageType
  <2>6. /\ m.from = c /\ m.kind = s.kind /\ m.no = no /\ m.to = s.to
        /\ Upload(c, m) /\ names' = names /\ down' = down /\ got' = got
    BY <1>2, <2>0, <2>5 DEF Message, Send
  <2>7. /\ m.kind \in Numbered => Sent(m, c)'
        /\ m.kind = "register" => Asked(c, m.to)'
    BY <2>1, <2>3, <2>6 DEF Sent, Asked
  <2>8. \A d \in Conns : Begins(All(d)', All(d))
    BY <2>6, Same DEF All
  <2>9. m.no = Len(sent[c]) + 1
    BY <2>0, <2>6
  <2> QED
    BY <1>0, <1>13, <2>4, <2>5, <2>6, <2>7, <2>8, <2>9, CoreUpload
<1>3. CASE Recv(c)
  <2>1. /\ got' = [got EXCEPT ![c] = Append(@, Head(down[c]))]
        /\ down' = [down EXCEPT ![c] = Tail(@)] /\ down[c] # <<>>
        /\ up' = up /\ sent' = sent /\ names' = names
    BY <1>3 DEF Recv
  <2>2. \A d \in Conns : All(d)' = All(d)
    BY <1>0, <1>3, RecvJoins
  <2>3. \A d \in Conns : Begins(All(d)', All(d)) /\ IsLeft(up'[d], up[d])
    BY <1>0, <2>1, <2>2, Same, SameQueue DEF TypeOK
  <2> QED
    BY <1>0, <1>13, <2>1, <2>3, CoreLess
<1>4. CASE Drop(c)
  <2> DEFINE m == Message("close", c, 0, Nobody)
  <2>1. m \in Messages /\ m.from = c /\ m.kind = "close"
    BY MessageType DEF Message
  <2>2. /\ Upload(c, m) /\ sent' = sent /\ names' = names /\ got' = got
        /\ down' = [down EXCEPT ![c] = <<>>]
    BY <1>4 DEF Drop
  <2> HIDE DEF m
  <2>3. ASSUME NEW d \in Conns PROVE Begins(All(d)', All(d))
    <3>1. /\ got[d] \in Seq(Messages) /\ down[d] \in Seq(Messages)
          /\ down'[d] \in Seq(Messages)
      BY <1>0 DEF TypeOK
    <3>2. down'[d] = <<>> \/ down'[d] = down[d]
      BY <1>0, <2>2 DEF TypeOK
    <3>3. Begins(down'[d], down[d])
      BY <3>2 DEF Begins
    <3> QED
      BY <2>2, <3>1, <3>3, JoinedBeginning DEF All
  <2> QED
    BY <1>0, <1>12, <1>13, <2>1, <2>2, <2>3, CoreUpload DEF Numbered
<1>5. CASE Break(c)
  <2>1. PICK q \in Prefixes(up[c]) : up' = [up EXCEPT ![c] = q]
    BY <1>5 DEF Break
  <2>2. PICK r \in Prefixes(down[c]) : down' = [down EXCEPT ![c] = r]
    BY <1>5 DEF Break
  <2>3. /\ q \in Seq(Messages) /\ Begins(q, up[c]) /\ Begins(r, down[c])
    BY <1>0, PrefixType DEF Begins
  <2>4. \A i \in DOMAIN q : i \in Int /\ i + 0 = i
    BY <2>3
  <2>5. up'[c] = q /\ \A d \in Conns \ {c} : up'[d] = up[d]
    BY <1>0, <2>1 DEF TypeOK
  <2>6. IsLeft(up'[c], up[c])
    BY <2>3, <2>4, <2>5 DEF IsLeft, Begins
  <2>7. \A d \in Conns : Begins(down'[d], down[d])
    BY <1>0, <2>2, <2>3, Same DEF TypeOK
  <2>8. sent' = sent /\ names' = names /\ got' = got
    BY <1>5 DEF Break
  <2> QED
    BY <1>0, <1>13, <2>5, <2>6, <2>7, <2>8, QueuesShrink
<1>6. CASE Register(c)
  <2>1. Incoming(c, "register") /\ Head(up[c]).to \in Peers
    BY <1>0, <1>6, IncomingType DEF Register
  <2>2. NamesKept
    BY <1>0, <1>6, <2>1, NamesGrow DEF Register, NamesKept
  <2>3. sent' = sent /\ got' = got /\ \A d \in Conns : Begins(down'[d], down[d])
    BY <1>6, Same DEF Register
  <2>4. IsLeft(up'[c], up[c]) /\ \A d \in Conns \ {c} : up'[d] = up[d]
    BY <1>0, <2>1, LessQueue DEF Incoming, TypeOK
  <2> QED
    BY <1>0, <2>2, <2>3, <2>4, QueuesShrink
<1>7. CASE Relay(c)
  BY <1>7, CoreRelay
<1>8. CASE Reject(c)
  <2>1. /\ Incoming(c, "garbage") /\ "garbage" \in Numbered
        /\ sent' = sent /\ got' = got /\ names' = names
        /\ down' = Download(c, ErrorFor(Head(up[c])))
    BY <1>8 DEF Reject, Numbered
  <2> QED
    BY <1>0, <1>13, <2>1, Answered
<1>9. CASE Ignore(c)
  <2>1. /\ Incoming(c, "untargeted") /\ sent' = sent /\ got' = got /\ names' = names
        /\ \A d \in Conns : Begins(down'[d], down[d])
    BY <1>9, Same DEF Ignore
  <2>2. IsLeft(up'[c], up[c]) /\ \A d \in Conns \ {c} : up'[d] = up[d]
    BY <1>0, <2>1, LessQueue DEF Incoming, TypeOK
  <2> QED
    BY <1>0, <1>13, <2>1, <2>2, QueuesShrink
<1>10. CASE Leave(c)
  <2>1. /\ sent' = sent /\ got' = got /\ names' = names
        /\ up' = [up EXCEPT ![c] = <<>>] /\ up[c] # <<>>
        /\ \A d \in Conns : Begins(down'[d], down[d])
    BY <1>10, Same DEF Leave, End
  <2>2. IsLeft(up'[c], up[c]) /\ \A d \in Conns \ {c} : up'[d] = up[d]
    BY <1>0, <2>1, LessQueue DEF TypeOK
  <2> QED
    BY <1>0, <1>13, <2>1, <2>2, QueuesShrink
<1>11. CASE Lose(c)
  <2>1. /\ sent' = sent /\ got' = got /\ names' = names /\ up' = up
        /\ \A d \in Conns : Begins(down'[d], down[d])
    BY <1>11, Same DEF Lose, End
  <2> QED
    BY <1>0, <1>13, <2>1, SameQueue, QueuesShrink
<1> QED
  BY <1>1, <1>2, <1>3, <1>4, <1>5, <1>6, <1>7, <1>8, <1>9, <1>10, <1>11
     DEF ClientStep, Handle

\* What arrives was sent or answers what was, in order, and nothing twice.
LEMMA Faithful ==
    ASSUME TypeOK, Core
    PROVE  RelayIsFaithful
<1> SUFFICES ASSUME NEW d \in Conns
             PROVE  /\ \A i \in DOMAIN got[d] : Sound(d, got[d][i])
                    /\ \A i, j \in DOMAIN got[d] :
                          i < j /\ got[d][i].from = got[d][j].from =>
                              got[d][i].no < got[d][j].no
                    /\ \A i \in DOMAIN got[d] : \A e \in Conns \ {d} :
                          ~Received(e, "signal", got[d][i].from, got[d][i].no)
  <2>1. \A d \in Conns : \A i \in DOMAIN got[d] : Sound(d, got[d][i]) =>
           LET m == got[d][i] IN
           \/ /\ m.kind = "signal" /\ Named(d, m.to)
              /\ sent[m.from][m.no] = [kind |-> "signal", to |-> m.to]
           \/ m.kind = "error" /\ m.from = d /\ m.no \in DOMAIN sent[d]
    BY DEF Sound, Sent
  <2> QED
    BY <2>1, Zenon DEF RelayIsFaithful
<1>1. \A e \in Conns : \A i \in DOMAIN got[e] : i \in DOMAIN All(e) /\ All(e)[i] = got[e][i]
  BY AllType
<1>2. \A i \in DOMAIN got[d] : Sound(d, got[d][i])
  BY <1>1 DEF Core, AllSound
<1>3. \A i, j \in DOMAIN got[d] :
         i < j /\ got[d][i].from = got[d][j].from => got[d][i].no < got[d][j].no
  BY <1>1 DEF Core, AllSorted
<1>4. \A i \in DOMAIN got[d] : \A e \in Conns \ {d} :
         ~Received(e, "signal", got[d][i].from, got[d][i].no)
  BY <1>1 DEF Core, Once, Received, Among
<1> QED
  BY <1>2, <1>3, <1>4

LEMMA CoreHolds == Spec => [](MappedInv /\ Core)
<1>1. Init => Core
  <2>1. ASSUME Init, NEW d \in Conns PROVE up[d] = <<>> /\ All(d) = <<>>
    BY <2>1 DEF Init, All
  <2> QED
    BY <2>1 DEF Core, UpSent, UpSorted, AllSound, AllSorted, Behind, Once
<1>2. MappedInv /\ MappedInv' /\ Core /\ [Next]_vars => Core'
  <2> SUFFICES ASSUME MappedInv, MappedInv', Core, [Next]_vars PROVE Core'
    OBVIOUS
  <2>1. CASE UNCHANGED vars
    <3>1. /\ sent' = sent /\ up' = up /\ got' = got /\ down' = down /\ names' = names
          /\ TypeOK /\ TypeOK'
      BY <2>1 DEF vars, wires, MappedInv, TypeInv
    <3>2. NamesKept
      BY <3>1 DEF NamesKept, Named
    <3>3. ASSUME NEW d \in Conns
          PROVE  IsLeft(up'[d], up[d]) /\ Begins(All(d)', All(d))
      BY <3>1, Same, SameQueue DEF All, TypeOK
    <3> QED
      BY <3>1, <3>2, <3>3, CoreLess
  <2>2. CASE Next
    BY <2>2, CoreStep DEF MappedInv
  <2> QED
    BY <2>1, <2>2
<1> QED
  BY <1>1, <1>2, Mapped, PTL DEF Spec

\* A client receives only what was sent to an id it registered or answers what
\* it sent; what one connection sends arrives in order, and at one connection.
THEOREM FaithfulRelay == Spec => []RelayIsFaithful
<1>1. MappedInv /\ Core => RelayIsFaithful
  BY Faithful DEF MappedInv, TypeInv
<1> QED
  BY <1>1, CoreHolds, PTL

-----------------------------------------------------------------------------
(* Switchboard.                                                            *)

\* What comes next at a client, and what is known of it.
LEMMA NextMessage ==
    ASSUME TypeOK, Core, NEW d \in Conns, down[d] # <<>>, NEW m, m = Head(down[d])
    PROVE  /\ m \in Messages /\ Sound(d, m)
           /\ Promised!InTurn(m.from, m.no, d)
<1> DEFINE n == Len(got[d]) + 1
<1>1. got[d] \in Seq(Messages) /\ down[d] \in Seq(Messages)
  BY DEF TypeOK
<1>2. m \in Messages /\ m = down[d][1] /\ 1 \in 1..Len(down[d])
  BY <1>1, TailType
<1>3. n \in DOMAIN All(d) /\ All(d)[n] = m
  <2>1. PICK a \in Nat, b \in Nat : a = Len(got[d]) /\ b = Len(down[d])
    BY <1>1
  <2>2. 1 \in 1..b /\ n = a + 1 /\ n \in 1..(a + b)
    <3>1. n = a + 1
      BY <2>1
    <3>2. 1 \in 1..b
      BY <1>2, <2>1, Zenon
    <3> HIDE DEF n
    <3> QED
      BY <3>1, <3>2
  <2>3. /\ DOMAIN (got[d] \o down[d]) = 1..(a + b)
        /\ \A i \in 1..b : (got[d] \o down[d])[a + i] = down[d][i]
    BY <1>1, <2>1, Joined, Zenon
  <2>4. (got[d] \o down[d])[n] = down[d][1]
    BY <2>2, <2>3
  <2> QED
    BY <1>2, <2>2, <2>3, <2>4, Zenon DEF All
<1>4. Sound(d, m)
  BY <1>3 DEF Core, AllSound
<1>5. ASSUME NEW i \in DOMAIN got[d], got[d][i].from = m.from
      PROVE  got[d][i].no < m.no
  <2>1. i \in DOMAIN All(d) /\ All(d)[i] = got[d][i] /\ i < n
    BY <1>1, AllType
  <2> QED
    BY <1>3, <1>5, <2>1 DEF Core, AllSorted
<1>6. ASSUME NEW e \in Conns \ {d}, NEW i \in DOMAIN got[e]
      PROVE  ~(got[e][i].from = m.from /\ got[e][i].no = m.no)
  <2>1. i \in DOMAIN All(e) /\ All(e)[i] = got[e][i]
    BY AllType
  <2> QED
    BY <1>3, <2>1 DEF Core, Once
<1> QED
  BY <1>2, <1>4, <1>5, <1>6 DEF Promised!InTurn

\* Receiving is what Switchboard calls delivering or refusing.
LEMMA RecvIsPromised ==
    ASSUME TypeOK, Core, NEW d \in Conns, Recv(d)
    PROVE  Promised!Next
<1>1. PICK m : m = Head(down[d])
  OBVIOUS
<1>2. /\ m \in Messages /\ Sound(d, m) /\ Promised!InTurn(m.from, m.no, d)
  BY <1>1, NextMessage DEF Recv
<1>3. /\ got' = [got EXCEPT ![d] = Append(@, m)]
      /\ sent' = sent /\ names' = names
  BY <1>1 DEF Recv
<1>4. /\ m.from \in Conns
      /\ m = [kind |-> m.kind, from |-> m.from, no |-> m.no, to |-> m.to]
  BY <1>2 DEF Messages
<1>5. CASE m.kind = "signal" /\ Sent(m, m.from) /\ Named(d, m.to)
  <2>1. /\ m.no \in DOMAIN sent[m.from]
        /\ sent[m.from][m.no].kind = "signal" /\ sent[m.from][m.no].to = m.to
    BY <1>5 DEF Sent
  <2>2. Promised!Receive(d, "signal", m.from, m.no)
    BY <1>2, <1>3, <1>4, <1>5, <2>1 DEF Promised!Receive
  <2>3. Promised!Deliver(m.from, m.no, d)
    BY <1>5, <2>1, <2>2 DEF Promised!Deliver, Promised!GoesUnder, Named
  <2> QED
    BY <1>4, <2>1, <2>3 DEF Promised!Next
<1>6. CASE /\ m.kind = "error" /\ m.from = d /\ m.no \in DOMAIN sent[d]
           /\ \E kind \in Numbered : sent[d][m.no] = [kind |-> kind, to |-> m.to]
  <2>1. sent[d][m.no].kind \in {"signal", "garbage"} /\ sent[d][m.no].to = m.to
    BY <1>6 DEF Numbered
  <2>2. Promised!Receive(d, "error", d, m.no)
    BY <1>2, <1>3, <1>4, <1>6, <2>1 DEF Promised!Receive
  <2>3. Promised!Refuse(d, m.no)
    BY <2>1, <2>2 DEF Promised!Refuse
  <2> QED
    BY <1>6, <2>3 DEF Promised!Next
<1> QED
  BY <1>2, <1>5, <1>6 DEF Sound

LEMMA RegisterIsPromised ==
    ASSUME TypeInv, Core, NEW c \in Conns, Register(c)
    PROVE  Promised!Next
<1> DEFINE m == Head(up[c])
<1>1. /\ up[c] \in Seq(Messages) /\ up[c] # <<>> /\ m.kind = "register" /\ m.to \in Peers
      /\ names' = [names EXCEPT ![c] = Append(@, m.to)] /\ sent' = sent /\ got' = got
  BY IncomingType DEF TypeInv, TypeOK, Register, Incoming
<1>2. 1 \in DOMAIN up[c] /\ m = up[c][1]
  BY <1>1, TailType
<1>3. Asked(c, m.to)
  BY <1>1, <1>2 DEF Core, UpSent
<1> QED
  BY <1>1, <1>3 DEF Promised!Next, Promised!Register, Promised!HasSent, Asked

LEMMA StepIsPromised ==
    ASSUME TypeInv, Core, Next
    PROVE  Promised!Next \/ UNCHANGED Promised!vars
<1> SUFFICES ASSUME NEW c \in Conns,
                    ClientStep(c) \/ Handle(c) \/ Break(c) \/ Lose(c)
             PROVE  Promised!Next \/ UNCHANGED Promised!vars
  BY DEF Next
<1>1. CASE Recv(c)
  BY <1>1, RecvIsPromised DEF TypeInv
<1>2. ASSUME NEW s \in Says[c], Send(c, s)
      PROVE  Promised!Next
  <2>1. s \in Contents
    BY SignalingAssumption DEF SignalingAssumption
  <2> QED
    BY <1>2, <2>1 DEF Send, Promised!Next, Promised!Speak
<1>3. CASE Register(c)
  BY <1>3, RegisterIsPromised
<1>4. CASE Connect(c) \/ Drop(c) \/ Relay(c) \/ Reject(c) \/ Ignore(c) \/ Leave(c)
           \/ Break(c) \/ Lose(c)
  BY <1>4 DEF Connect, Drop, Relay, Reject, Ignore, Leave, Break, Lose, End, Promised!vars
<1> QED
  BY <1>1, <1>2, <1>3, <1>4 DEF ClientStep, Handle

\* However the tasks of the server, the pumps, the registrations and the breaks
\* interleave, with any number of connections and peers, what clients see is what
\* Switchboard allows.
THEOREM ServerKeepsSwitchboard == Spec => KeepsSwitchboard
<1>1. Init => Promised!Init
  BY DEF Init, Promised!Init
<1>2. MappedInv /\ Core /\ [Next]_vars => [Promised!Next]_Promised!vars
  <2> SUFFICES ASSUME MappedInv, Core, [Next]_vars
               PROVE  Promised!Next \/ UNCHANGED Promised!vars
    OBVIOUS
  <2>1. CASE UNCHANGED vars
    BY <2>1 DEF vars, Promised!vars
  <2>2. CASE Next
    BY <2>2, StepIsPromised DEF MappedInv
  <2> QED
    BY <2>1, <2>2
<1> QED
  BY <1>1, <1>2, CoreHolds, PTL DEF Spec, KeepsSwitchboard, Promised!Spec
-----------------------------------------------------------------------------
(* Nothing is lost.                                                        *)

\* A handler ends only when its client has been dropped or cut off.
GoneInv ==
    \A c \in Conns :
        /\ handler[c] = "done" => Gone(c)
        /\ \A i \in DOMAIN up[c] : EndsLoop(up[c][i]) => client[c] = "dropped"

Keeps(r, q) == \A i \in DOMAIN q : \E j \in DOMAIN r : r[j] = q[i]

KeepsSignals(r, q) ==
    \A i \in DOMAIN q : q[i].kind = "signal" => \E j \in DOMAIN r : r[j] = q[i]

GoneKept == \A d \in Conns : Gone(d) => Gone(d)'

LEMMA KeepsItself == ASSUME NEW q PROVE Keeps(q, q) /\ KeepsSignals(q, q)
  BY DEF Keeps, KeepsSignals

LEMMA KeepsPosted ==
    ASSUME NEW q \in Seq(Messages), NEW m \in Messages
    PROVE  Keeps(Posted(q, m), q) /\ KeepsSignals(Posted(q, m), q)
<1>1. PICK n \in Nat : n = Len(q) /\ DOMAIN q = 1..n
  OBVIOUS
<1>2. DOMAIN Posted(q, m) = 1..(n + 1) /\ \A i \in 1..n : Posted(q, m)[i] = q[i]
  BY <1>1, PostedType
<1>3. \A i \in DOMAIN q : i \in DOMAIN Posted(q, m) /\ Posted(q, m)[i] = q[i]
  BY <1>1, <1>2
<1> QED
  BY <1>3 DEF Keeps, KeepsSignals

\* What is left when the first message, which is no signal, is taken.
LEMMA KeepsTail ==
    ASSUME NEW q \in Seq(Messages), q # <<>>, NEW i \in DOMAIN q, i # 1
    PROVE  \E j \in DOMAIN Tail(q) : Tail(q)[j] = q[i]
<1>1. PICK n \in Nat : n = Len(q) /\ DOMAIN q = 1..n
  OBVIOUS
<1>2. i - 1 \in 1..(n - 1)
  BY <1>1
<1>3. DOMAIN Tail(q) = 1..(n - 1) /\ Tail(q)[i - 1] = q[i]
  BY <1>1, <1>2
<1> QED
  BY <1>2, <1>3

LEMMA UploadKeeps ==
    ASSUME TypeOK, NEW c \in Conns, NEW m \in Messages, Upload(c, m), NEW d \in Conns
    PROVE  /\ KeepsSignals(up'[d], up[d])
           /\ broken[c] \/ \E i \in DOMAIN up'[c] : up'[c][i] = m
           /\ \A i \in DOMAIN up'[d] :
                 \/ \E j \in DOMAIN up[d] : up'[d][i] = up[d][j]
                 \/ d = c /\ up'[d][i] = m
<1>1. up[c] \in Seq(Messages) /\ up \in [Conns -> Seq(Messages)]
  BY DEF TypeOK
<1>2. CASE broken[c]
  <2>1. up' = up
    BY <1>2 DEF Upload
  <2> QED
    BY <1>2, <2>1, KeepsItself
<1>3. CASE ~broken[c]
  <2>1. up'[c] = Posted(up[c], m) /\ (d # c => up'[d] = up[d])
    BY <1>1, <1>3 DEF Upload
  <2>2. PICK n \in Nat :
            /\ DOMAIN up[c] = 1..n
            /\ DOMAIN Posted(up[c], m) = 1..(n + 1) /\ Posted(up[c], m)[n + 1] = m
            /\ \A i \in 1..n : Posted(up[c], m)[i] = up[c][i]
    BY <1>1, PostedType
  <2>3. \E i \in DOMAIN up'[c] : up'[c][i] = m
    BY <2>1, <2>2
  <2>4. KeepsSignals(up'[d], up[d])
    BY <1>1, <2>1, KeepsPosted, KeepsItself
  <2>5. ASSUME NEW i \in DOMAIN up'[d]
        PROVE  \/ \E j \in DOMAIN up[d] : up'[d][i] = up[d][j]
               \/ d = c /\ up'[d][i] = m
    <3>1. CASE d # c
      BY <2>1, <3>1
    <3>2. CASE d = c
      <4>1. i \in 1..n \/ i = n + 1
        BY <2>1, <2>2, <3>2
      <4> QED
        BY <2>1, <2>2, <3>2, <4>1
    <3> QED
      BY <3>1, <3>2
  <2> QED
    BY <2>3, <2>4, <2>5
<1> QED
  BY <1>2, <1>3

LEMMA DownloadKeeps ==
    ASSUME TypeOK, NEW t \in Conns, NEW n \in Messages, down' = Download(t, n), got' = got
    PROVE  /\ \A d \in Conns : Keeps(All(d)', All(d))
           /\ \/ broken[t] \/ handler[t] = "done" \/ client[t] = "dropped"
              \/ \E j \in DOMAIN All(t)' : All(t)'[j] = n
<1>1. ASSUME NEW d \in Conns
      PROVE  /\ got[d] \in Seq(Messages) /\ down[d] \in Seq(Messages)
             /\ down'[d] = down[d] \/ (d = t /\ down'[d] = Append(down[d], n))
  BY DEF TypeOK, Download, Posted
<1>2. ASSUME NEW d \in Conns
      PROVE  Keeps(All(d)', All(d))
  <2>1. CASE down'[d] = down[d]
    BY <2>1, KeepsItself DEF All
  <2>2. CASE down'[d] = Append(down[d], n)
    <3>1. \A i \in DOMAIN (got[d] \o down[d]) :
             /\ i \in DOMAIN (got[d] \o Append(down[d], n))
             /\ (got[d] \o Append(down[d], n))[i] = (got[d] \o down[d])[i]
      BY <1>1, JoinedGrown
    <3> QED
      BY <2>2, <3>1, Zenon DEF All, Keeps
  <2> QED
    BY <1>1, <2>1, <2>2
<1>3. CASE ~(broken[t] \/ handler[t] = "done" \/ client[t] = "dropped")
  <2>1. down'[t] = Append(down[t], n)
    BY <1>3 DEF TypeOK, Download, Posted
  <2>2. \E j \in DOMAIN (got[t] \o Append(down[t], n)) : (got[t] \o Append(down[t], n))[j] = n
    BY <1>1, JoinedGrown
  <2> QED
    BY <1>2, <2>1, <2>2, Zenon DEF All
<1> QED
  BY <1>2, <1>3

LEMMA GoneStep ==
    ASSUME TypeInv, TypeOK', GoneInv, Next
    PROVE  GoneInv' /\ GoneKept
<1> SUFFICES ASSUME NEW c \in Conns,
                    ClientStep(c) \/ Handle(c) \/ Break(c) \/ Lose(c)
             PROVE  GoneInv' /\ GoneKept
  BY DEF Next
<1>0. /\ TypeOK /\ SignalingAssumption
      /\ up[c] \in Seq(Messages) /\ sent[c] \in Seq(Contents)
  BY SignalingAssumption DEF TypeInv, TypeOK
\* A step that makes nobody come back, and posts no close for a client that stays.
<1>1. ASSUME \A d \in Conns : client[d] = "dropped" => client'[d] = "dropped",
             \A d \in Conns : broken[d] => broken'[d],
             \A d \in Conns : handler'[d] = "done" => handler[d] = "done" \/ Gone(d)',
             \A d \in Conns : \A i \in DOMAIN up'[d] :
                EndsLoop(up'[d][i]) => client'[d] = "dropped"
                                       \/ \E j \in DOMAIN up[d] : up'[d][i] = up[d][j]
      PROVE  GoneInv' /\ GoneKept
  <2>1. GoneKept
    BY <1>1 DEF GoneKept, Gone
  <2>2. ASSUME NEW d \in Conns, handler'[d] = "done"
        PROVE  Gone(d)'
    BY <1>1, <2>1, <2>2 DEF GoneInv, GoneKept
  <2>3. ASSUME NEW d \in Conns, NEW i \in DOMAIN up'[d], EndsLoop(up'[d][i])
        PROVE  client'[d] = "dropped"
    BY <1>1, <2>3 DEF GoneInv
  <2>4. \A d \in Conns : \A i \in DOMAIN up'[d] : EndsLoop(up[d][i])' <=> EndsLoop(up'[d][i])
    BY DEF EndsLoop
  <2> QED
    BY <2>1, <2>2, <2>3, <2>4 DEF GoneInv
<1>2. ASSUME NEW m \in Messages, Upload(c, m), m.kind # "close" \/ client'[c] = "dropped",
             handler' = handler \/ handler' = [handler EXCEPT ![c] = "run"], broken' = broken,
             \A d \in Conns : client[d] = "dropped" => client'[d] = "dropped"
      PROVE  GoneInv' /\ GoneKept
  <2>1. ASSUME NEW d \in Conns, NEW i \in DOMAIN up'[d], EndsLoop(up'[d][i])
        PROVE  client'[d] = "dropped" \/ \E j \in DOMAIN up[d] : up'[d][i] = up[d][j]
    BY <1>0, <1>2, <2>1, UploadKeeps DEF EndsLoop
  <2>2. \A d \in Conns : handler'[d] = "done" => handler[d] = "done"
    BY <1>0, <1>2 DEF TypeOK
  <2> QED
    BY <1>1, <1>2, <2>1, <2>2
\* A step that posts nothing.
<1>3. ASSUME client' = client, \A d \in Conns : broken[d] => broken'[d],
             \A d \in Conns : handler'[d] = "done" => handler[d] = "done" \/ Gone(d)',
             \A d \in Conns \ {c} : up'[d] = up[d],
             \A i \in DOMAIN up'[c] : \E j \in DOMAIN up[c] : up'[c][i] = up[c][j]
      PROVE  GoneInv' /\ GoneKept
  BY <1>1, <1>3
<1>4. CASE Connect(c)
  <2>1. PeerOf[c] \in Peers
    BY SignalingAssumption DEF SignalingAssumption
  <2>2. PICK m \in Messages : m = Message("register", c, 0, PeerOf[c]) /\ m.kind = "register"
    BY <2>1, MessageType
  <2>3. \A d \in Conns : client[d] = "dropped" => client'[d] = "dropped"
    BY <1>0, <1>4 DEF Connect, TypeOK
  <2> QED
    BY <1>2, <1>4, <2>2, <2>3 DEF Connect
<1>5. ASSUME NEW t \in Says[c], Send(c, t)
      PROVE  GoneInv' /\ GoneKept
  <2>1. PICK no \in Nat : no = Len(sent[c]) + 1
    BY <1>0
  <2>2. t.kind \in {"signal", "register", "untargeted", "garbage"} /\ t.to \in Peers \cup {Nobody}
    BY <1>0 DEF SignalingAssumption, Contents
  <2>3. PICK m \in Messages : m = Message(t.kind, c, no, t.to) /\ m.kind = t.kind
    BY <2>1, <2>2, MessageType
  <2> QED
    BY <1>2, <1>5, <2>1, <2>2, <2>3 DEF Send
<1>6. CASE Drop(c)
  <2>1. PICK m \in Messages : m = Message("close", c, 0, Nobody)
    BY MessageType
  <2>2. client'[c] = "dropped" /\ \A d \in Conns : client[d] = "dropped" => client'[d] = "dropped"
    BY <1>0, <1>6 DEF Drop, TypeOK
  <2> QED
    BY <1>2, <1>6, <2>1, <2>2 DEF Drop
<1>7. CASE Recv(c) \/ Lose(c)
  <2>1. client' = client /\ broken' = broken /\ up' = up
    BY <1>7 DEF Recv, Lose, End
  <2>2. \A d \in Conns : handler'[d] = "done" => handler[d] = "done" \/ Gone(d)'
    BY <1>0, <1>7 DEF Recv, Lose, End, TypeOK, Gone
  <2> QED
    BY <1>3, <2>1, <2>2
<1>8. CASE Break(c)
  <2>1. PICK q \in Prefixes(up[c]) : up' = [up EXCEPT ![c] = q]
    BY <1>8 DEF Break
  <2>2. \A i \in DOMAIN up'[c] : \E j \in DOMAIN up[c] : up'[c][i] = up[c][j]
    BY <1>0, <2>1, PrefixType DEF TypeOK
  <2>3. /\ \A d \in Conns \ {c} : up'[d] = up[d]
        /\ \A d \in Conns : broken[d] => broken'[d]
    BY <1>0, <1>8, <2>1 DEF Break, TypeOK
  <2> QED
    BY <1>3, <1>8, <2>2, <2>3 DEF Break
<1>9. CASE Register(c) \/ Relay(c) \/ Reject(c) \/ Ignore(c)
  <2>1. /\ client' = client /\ broken' = broken /\ handler' = handler
        /\ up[c] # <<>> /\ up' = [up EXCEPT ![c] = Tail(@)]
    BY <1>9 DEF Register, Relay, Reject, Ignore, Incoming
  <2>2. \A i \in DOMAIN up'[c] : \E j \in DOMAIN up[c] : up'[c][i] = up[c][j]
    <3>1. \A i \in DOMAIN Tail(up[c]) : i + 1 \in DOMAIN up[c] /\ Tail(up[c])[i] = up[c][i + 1]
      BY <1>0, <2>1, TailType
    <3>2. up'[c] = Tail(up[c])
      BY <1>0, <2>1 DEF TypeOK
    <3> QED
      BY <3>1, <3>2
  <2>3. \A d \in Conns \ {c} : up'[d] = up[d]
    BY <1>0, <2>1 DEF TypeOK
  <2> QED
    BY <1>3, <2>1, <2>2, <2>3
<1>10. CASE Leave(c)
  <2>1. /\ client' = client /\ broken' = broken /\ handler' = [handler EXCEPT ![c] = "done"]
        /\ up[c] # <<>> /\ EndsLoop(Head(up[c])) /\ up' = [up EXCEPT ![c] = <<>>]
    BY <1>10 DEF Leave, End
  <2>2. client[c] = "dropped"
    <3>1. Head(up[c]) = up[c][1] /\ 1 \in DOMAIN up[c]
      BY <1>0, <2>1, TailType
    <3> QED
      BY <2>1, <3>1 DEF GoneInv
  <2>3. \A d \in Conns : handler'[d] = "done" => handler[d] = "done" \/ Gone(d)'
    BY <1>0, <2>1, <2>2 DEF TypeOK, Gone
  <2>4. up'[c] = <<>> /\ \A d \in Conns \ {c} : up'[d] = up[d]
    BY <1>0, <2>1 DEF TypeOK
  <2> QED
    BY <1>3, <2>1, <2>3, <2>4
<1> QED
  BY <1>4, <1>5, <1>6, <1>7, <1>8, <1>9, <1>10 DEF ClientStep, Handle

\* A signal that is accounted for stays so, if it does as long as it is on its way up.
LEMMA AccountStays ==
    ASSUME TypeOK, Core, SentKept, NamesKept, GoneKept,
           \A d \in Conns : Gone(d)' \/ Keeps(All(d)', All(d)),
           NEW c \in Conns, NEW no \in DOMAIN sent[c], Signalled(c, no), Accounted(c, no),
           Among(up[c], "signal", c, no) => Accounted(c, no)'
    PROVE  Accounted(c, no)'
<1>1. ASSUME NEW d \in Conns, NEW kind, Keeps(All(d)', All(d)), Among(All(d), kind, c, no)
      PROVE  Among(All(d)', kind, c, no)
  BY <1>1 DEF Keeps, Among
<1>2. sent'[c][no] = sent[c][no]
  BY DEF SentKept
<1>3. ASSUME NEW d \in Conns, Among(All(d), "signal", c, no)
      PROVE  Accounted(c, no)'
  <2>1. CASE Keeps(All(d)', All(d))
    <3>1. Among(All(d), "signal", c, no)'
      BY <1>1, <1>3, <2>1 DEF Among
    <3> QED
      BY <3>1 DEF Accounted
  <2>2. CASE Gone(d)'
    <3>1. PICK i \in DOMAIN All(d) :
              All(d)[i].kind = "signal" /\ All(d)[i].from = c /\ All(d)[i].no = no
      BY <1>3 DEF Among
    <3>2. Sound(d, All(d)[i])
      BY DEF Core, AllSound
    <3>3. Named(d, sent[c][no].to)
      BY <3>1, <3>2 DEF Sound, Sent
    <3>4. Named(d, sent[c][no].to)'
      BY <1>2, <3>3 DEF NamesKept, Named
    <3> QED
      BY <2>2, <3>4 DEF Accounted
  <2> QED
    BY <2>1, <2>2
<1>4. ASSUME Among(All(c), "error", c, no)
      PROVE  Accounted(c, no)'
  <2>1. CASE Keeps(All(c)', All(c))
    <3>1. Among(All(c), "error", c, no)'
      BY <1>1, <1>4, <2>1 DEF Among
    <3> QED
      BY <3>1 DEF Accounted
  <2>2. CASE Gone(c)'
    BY <2>2 DEF Accounted
  <2> QED
    BY <2>1, <2>2
<1>5. ASSUME NEW d \in Conns, Named(d, sent[c][no].to), Gone(d)
      PROVE  Accounted(c, no)'
  <2>1. Named(d, sent[c][no].to)' /\ Gone(d)'
    BY <1>2, <1>5 DEF NamesKept, Named, GoneKept
  <2> QED
    BY <2>1 DEF Accounted
<1>6. CASE Gone(c)
  BY <1>6 DEF Accounted, GoneKept
<1> QED
  BY <1>3, <1>4, <1>5, <1>6 DEF Accounted

LEMMA AmongKept ==
    ASSUME NEW q, NEW r, KeepsSignals(r, q), NEW c, NEW no, Among(q, "signal", c, no)
    PROVE  Among(r, "signal", c, no)
  BY DEF KeepsSignals, Among

LEMMA IncomingKeeps ==
    ASSUME TypeOK, NEW c \in Conns, NEW kind, kind # "signal", Incoming(c, kind), NEW d \in Conns
    PROVE  KeepsSignals(up'[d], up[d])
<1>1. /\ up[c] \in Seq(Messages) /\ up[c] # <<>>
      /\ up'[c] = Tail(up[c]) /\ (d # c => up'[d] = up[d])
  BY DEF TypeOK, Incoming
<1>2. up[c][1].kind # "signal"
  BY <1>1, TailType DEF Incoming
<1>3. KeepsSignals(Tail(up[c]), up[c])
  BY <1>1, <1>2, KeepsTail DEF KeepsSignals
<1> QED
  BY <1>1, <1>3, KeepsItself

\* The server takes a signal: it goes on, comes back, or falls to one that has gone.
LEMMA RelayAccounts ==
    ASSUME MappedInv, Core, GoneInv, NEW c \in Conns, Relay(c),
           NEW e \in Conns, NEW no \in DOMAIN sent[e], Among(up[e], "signal", e, no)
    PROVE  Accounted(e, no)'
<1>0. /\ TypeInv /\ TypeOK /\ Incoming(c, "signal") /\ "signal" \in Numbered
      /\ down' = Relayed(c, Head(up[c]))
      /\ got' = got /\ sent' = sent /\ names' = names /\ client' = client /\ broken' = broken
  BY DEF MappedInv, TypeInv, Relay, Numbered
<1>1. PICK m \in Messages :
          /\ m = Head(up[c]) /\ m.kind = "signal" /\ m.from = c /\ Sent(m, c) /\ m.to \in Peers
  BY <1>0, Taken, IncomingType
<1>2. /\ up[c] \in Seq(Messages) /\ up[c] # <<>> /\ up[c][1] = m
      /\ up'[c] = Tail(up[c]) /\ (e # c => up'[e] = up[e])
  BY <1>0, <1>1, TailType DEF TypeOK, Incoming
<1>3. PICK i \in DOMAIN up[e] :
          up[e][i].kind = "signal" /\ up[e][i].from = e /\ up[e][i].no = no
  BY DEF Among
<1>4. CASE e # c
  BY <1>2, <1>3, <1>4 DEF Accounted, Among
<1>5. CASE e = c /\ i # 1
  <2>1. PICK j \in DOMAIN Tail(up[c]) : Tail(up[c])[j] = up[c][i]
    BY <1>2, <1>5, KeepsTail
  <2>2. Among(up[e], "signal", e, no)'
    BY <1>2, <1>3, <1>5, <2>1 DEF Among
  <2> QED
    BY <2>2 DEF Accounted
<1>6. CASE e = c /\ i = 1
  <2>1. m.no = no /\ sent'[e][no].to = m.to
    BY <1>0, <1>1, <1>2, <1>3, <1>6 DEF Sent
  <2>2. handler[c] = "run"
    BY <1>0 DEF Incoming
  <2>3. CASE peers[m.to] = Nobody
    <3>1. PICK n \in Messages : n = ErrorFor(m)
      BY ErrorType
    <3>2. n.kind = "error" /\ n.from = c /\ n.no = no
      BY <1>1, <2>1, <3>1 DEF ErrorFor, Messages
    <3>3. \/ broken[c] \/ handler[c] = "done" \/ client[c] = "dropped"
          \/ \E j \in DOMAIN All(c)' : All(c)'[j] = n
      BY <1>0, <1>1, <2>3, <3>1, DownloadKeeps DEF Relayed
    <3>4. CASE broken[c] \/ client[c] = "dropped"
      BY <1>0, <1>6, <3>4 DEF Accounted, Gone
    <3>5. CASE \E j \in DOMAIN All(c)' : All(c)'[j] = n
      <4>1. Among(All(e), "error", e, no)'
        BY <1>6, <3>2, <3>5 DEF Among
      <4> QED
        BY <4>1 DEF Accounted
    <3> QED
      BY <2>2, <3>3, <3>4, <3>5
  <2>4. CASE peers[m.to] # Nobody
    <3>1. PICK t \in Conns : t = peers[m.to]
      BY <1>0, <1>1, <2>4 DEF TypeOK
    <3>2. Named(t, m.to)
      BY <1>1, <3>1 DEF MappedInv, MapInv
    <3>3. \/ broken[t] \/ handler[t] = "done" \/ client[t] = "dropped"
          \/ \E j \in DOMAIN All(t)' : All(t)'[j] = m
      BY <1>0, <1>1, <2>4, <3>1, DownloadKeeps DEF Relayed
    <3>4. CASE broken[t] \/ handler[t] = "done" \/ client[t] = "dropped"
      <4>1. Gone(t)'
        BY <1>0, <3>4 DEF Gone, GoneInv
      <4>2. Named(t, sent[e][no].to)'
        BY <1>0, <2>1, <3>2 DEF Named
      <4> QED
        BY <4>1, <4>2 DEF Accounted
    <3>5. CASE \E j \in DOMAIN All(t)' : All(t)'[j] = m
      <4>1. Among(All(t), "signal", e, no)'
        BY <1>1, <1>6, <2>1, <3>5 DEF Among
      <4> QED
        BY <4>1 DEF Accounted
    <3> QED
      BY <3>3, <3>4, <3>5
  <2> QED
    BY <2>3, <2>4
<1> QED
  BY <1>4, <1>5, <1>6

LEMMA AccountStep ==
    ASSUME MappedInv, TypeOK', Core, GoneInv, GoneKept, NoSignalIsLost, Next
    PROVE  NoSignalIsLost'
<1> SUFFICES ASSUME NEW c \in Conns,
                    ClientStep(c) \/ Handle(c) \/ Break(c) \/ Lose(c)
             PROVE  NoSignalIsLost'
  BY DEF Next
<1>0. /\ TypeInv /\ TypeOK /\ SignalingAssumption
      /\ up[c] \in Seq(Messages) /\ sent[c] \in Seq(Contents)
  BY SignalingAssumption DEF MappedInv, TypeInv, TypeOK
<1>1. names' = names => NamesKept
  BY DEF NamesKept, Named
<1>2. got' = got /\ down' = down => \A d \in Conns : Keeps(All(d)', All(d))
  BY KeepsItself DEF All
\* A step in which nothing is sent, and what is on its way up stays accounted for.
<1>3. ASSUME sent' = sent, NamesKept,
             \A d \in Conns : Gone(d)' \/ Keeps(All(d)', All(d)),
             \A e \in Conns : \/ Gone(e)' \/ KeepsSignals(up'[e], up[e])
                              \/ \A no \in DOMAIN sent[e] :
                                    Among(up[e], "signal", e, no) => Accounted(e, no)'
      PROVE  NoSignalIsLost'
  <2> SUFFICES ASSUME NEW e \in Conns, NEW no \in DOMAIN sent[e], Signalled(e, no)
               PROVE  Accounted(e, no)'
    BY <1>3 DEF NoSignalIsLost, Signalled
  <2>1. SentKept /\ Accounted(e, no)
    BY <1>3 DEF SentKept, NoSignalIsLost
  <2>2. ASSUME Among(up[e], "signal", e, no)
        PROVE  Accounted(e, no)'
    <3>1. CASE Gone(e)'
      BY <3>1 DEF Accounted
    <3>2. CASE KeepsSignals(up'[e], up[e])
      <4>1. Among(up[e], "signal", e, no)'
        BY <2>2, <3>2, AmongKept DEF Among
      <4> QED
        BY <4>1 DEF Accounted
    <3> QED
      BY <1>3, <2>2, <3>1, <3>2
  <2> QED
    BY <1>0, <1>3, <2>1, <2>2, AccountStays
<1>4. CASE Connect(c)
  <2>1. PICK m \in Messages : m = Message("register", c, 0, PeerOf[c])
    BY <1>0, MessageType DEF SignalingAssumption
  <2>2. \A e \in Conns : KeepsSignals(up'[e], up[e])
    BY <1>0, <1>4, <2>1, UploadKeeps DEF Connect
  <2> QED
    BY <1>1, <1>2, <1>3, <1>4, <2>2 DEF Connect
<1>5. ASSUME NEW s \in Says[c], Send(c, s)
      PROVE  NoSignalIsLost'
  <2>1. PICK last \in Nat : last = Len(sent[c]) + 1 /\ DOMAIN sent[c] = 1..Len(sent[c])
    BY <1>0
  <2>2. /\ s \in Contents /\ s.to \in Peers \cup {Nobody}
        /\ s.kind \in {"signal", "register", "untargeted", "garbage"}
    BY <1>0 DEF SignalingAssumption, Contents
  <2>3. /\ sent'[c] = Append(sent[c], s) /\ \A d \in Conns \ {c} : sent'[d] = sent[d]
        /\ got' = got /\ down' = down /\ names' = names /\ broken' = broken
    BY <1>0, <1>5 DEF Send, TypeOK
  <2>4. /\ DOMAIN sent'[c] = 1..last /\ sent'[c][last] = s
        /\ \A i \in DOMAIN sent[c] : sent'[c][i] = sent[c][i]
        /\ \A i \in 1..last : i \in DOMAIN sent[c] \/ i = last
        /\ DOMAIN sent[c] \subseteq 1..last
    BY <1>0, <2>1, <2>2, <2>3
  <2>5. SentKept
    BY <2>3, <2>4 DEF SentKept
  <2>6. PICK m \in Messages :
            /\ m = Message(s.kind, c, last, s.to)
            /\ m.kind = s.kind /\ m.from = c /\ m.no = last
    <3>1. Message(s.kind, c, last, s.to) \in Messages
      BY <2>1, <2>2, MessageType
    <3>2. LET m == Message(s.kind, c, last, s.to) IN
          m.kind = s.kind /\ m.from = c /\ m.no = last
      BY DEF Message
    <3> QED
      BY <3>1, <3>2
  <2>7. Upload(c, m)
    BY <1>5, <2>1, <2>6 DEF Send
  <2>8. /\ \A e \in Conns : KeepsSignals(up'[e], up[e])
        /\ broken[c] \/ \E i \in DOMAIN up'[c] : up'[c][i] = m
    BY <1>0, <2>7, UploadKeeps
  <2>9. ASSUME NEW e \in Conns, NEW no \in DOMAIN sent[e], Signalled(e, no)
        PROVE  Accounted(e, no)'
    <3>1. Accounted(e, no)
      BY <2>9 DEF NoSignalIsLost
    <3>2. Among(up[e], "signal", e, no) => Accounted(e, no)'
      <4>1. Among(up[e], "signal", e, no) => Among(up[e], "signal", e, no)'
        BY <2>8, AmongKept DEF Among
      <4> QED
        BY <4>1 DEF Accounted
    <3> QED
      BY <1>0, <1>1, <1>2, <2>3, <2>5, <2>9, <3>1, <3>2, AccountStays
  <2>10. ASSUME s.kind = "signal"
         PROVE  Accounted(c, last)'
    <3>1. CASE broken[c]
      BY <2>3, <3>1 DEF Accounted, Gone
    <3>2. CASE \E i \in DOMAIN up'[c] : up'[c][i] = m
      <4>1. Among(up[c], "signal", c, last)'
        BY <2>6, <2>10, <3>2 DEF Among
      <4> QED
        BY <4>1 DEF Accounted
    <3> QED
      BY <2>8, <3>1, <3>2
  <2>11. ASSUME NEW e \in Conns, NEW no \in DOMAIN sent'[e], Signalled(e, no)'
         PROVE  Accounted(e, no)'
    <3>1. CASE no \in DOMAIN sent[e]
      <4>1. Signalled(e, no)
        BY <2>5, <2>11, <3>1 DEF Signalled, SentKept
      <4> QED
        BY <2>9, <3>1, <4>1
    <3>2. CASE no \notin DOMAIN sent[e]
      <4>1. e = c /\ no = last /\ s.kind = "signal"
        BY <2>3, <2>4, <2>11, <3>2 DEF Signalled
      <4> QED
        BY <2>10, <4>1
    <3> QED
      BY <3>1, <3>2
  <2> QED
    BY <2>11 DEF NoSignalIsLost
<1>6. CASE Recv(c)
  <2>1. \A d \in Conns : All(d)' = All(d)
    BY <1>0, <1>6, RecvJoins
  <2>2. \A d \in Conns : Keeps(All(d)', All(d)) /\ KeepsSignals(up'[d], up[d])
    BY <1>6, <2>1, KeepsItself DEF Recv
  <2> QED
    BY <1>1, <1>3, <1>6, <2>2 DEF Recv
<1>7. CASE Drop(c)
  <2>1. PICK m \in Messages : m = Message("close", c, 0, Nobody)
    BY MessageType
  <2>2. \A e \in Conns : KeepsSignals(up'[e], up[e])
    BY <1>0, <1>7, <2>1, UploadKeeps DEF Drop
  <2>3. \A d \in Conns : Gone(d)' \/ Keeps(All(d)', All(d))
    <3>1. Gone(c)'
      BY <1>0, <1>7 DEF Drop, TypeOK, Gone
    <3>2. \A d \in Conns \ {c} : All(d)' = All(d)
      BY <1>0, <1>7 DEF Drop, TypeOK, All
    <3> QED
      BY <3>1, <3>2, KeepsItself
  <2> QED
    BY <1>1, <1>3, <1>7, <2>2, <2>3 DEF Drop
<1>8. CASE Break(c)
  <2>1. Gone(c)'
    BY <1>0, <1>8 DEF Break, TypeOK, Gone
  <2>2. \A d \in Conns \ {c} : All(d)' = All(d) /\ up'[d] = up[d]
    BY <1>0, <1>8 DEF Break, TypeOK, All
  <2>3. \A d \in Conns : /\ Gone(d)' \/ Keeps(All(d)', All(d))
                         /\ Gone(d)' \/ KeepsSignals(up'[d], up[d])
    BY <2>1, <2>2, KeepsItself
  <2> QED
    BY <1>1, <1>3, <1>8, <2>3 DEF Break
<1>9. CASE Register(c)
  <2>1. NamesKept
    <3>1. Head(up[c]).to \in Peers
      BY <1>0, <1>9, IncomingType DEF Register
    <3> QED
      BY <1>0, <1>9, <3>1, NamesGrow DEF Register, NamesKept
  <2>2. \A d \in Conns : KeepsSignals(up'[d], up[d])
    BY <1>0, <1>9, IncomingKeeps DEF Register
  <2> QED
    BY <1>2, <1>3, <1>9, <2>1, <2>2 DEF Register
<1>10. CASE Relay(c)
  <2>1. \A d \in Conns : Keeps(All(d)', All(d))
    <3>1. Head(up[c]) \in Messages /\ Head(up[c]).to \in Peers
      BY <1>0, <1>10, IncomingType DEF Relay
    <3>2. /\ ErrorFor(Head(up[c])) \in Messages
          /\ peers[Head(up[c]).to] \in Conns \cup {Nobody}
      BY <1>0, <3>1, ErrorType DEF TypeOK
    <3> QED
      BY <1>0, <1>10, <3>1, <3>2, DownloadKeeps DEF Relay, Relayed
  <2>2. \A e \in Conns : \A no \in DOMAIN sent[e] :
           Among(up[e], "signal", e, no) => Accounted(e, no)'
    BY <1>10, RelayAccounts
  <2> QED
    BY <1>1, <1>3, <1>10, <2>1, <2>2 DEF Relay
<1>11. CASE Reject(c)
  <2>1. \A d \in Conns : Keeps(All(d)', All(d))
    <3>1. ErrorFor(Head(up[c])) \in Messages
      BY <1>0, <1>11, IncomingType, ErrorType DEF Reject
    <3> QED
      BY <1>0, <1>11, <3>1, DownloadKeeps DEF Reject
  <2>2. \A d \in Conns : KeepsSignals(up'[d], up[d])
    BY <1>0, <1>11, IncomingKeeps DEF Reject
  <2> QED
    BY <1>1, <1>3, <1>11, <2>1, <2>2 DEF Reject
<1>12. CASE Ignore(c)
  <2>1. \A d \in Conns : KeepsSignals(up'[d], up[d])
    BY <1>0, <1>12, IncomingKeeps DEF Ignore
  <2> QED
    BY <1>1, <1>2, <1>3, <1>12, <2>1 DEF Ignore
<1>13. CASE Leave(c)
  <2>1. /\ client' = client /\ up[c] # <<>> /\ EndsLoop(Head(up[c]))
        /\ \A d \in Conns \ {c} : up'[d] = up[d]
    BY <1>0, <1>13 DEF Leave, End, TypeOK
  <2>2. Head(up[c]) = up[c][1] /\ 1 \in DOMAIN up[c]
    BY <1>0, <2>1, TailType
  <2>3. Gone(c)'
    BY <2>1, <2>2 DEF GoneInv, Gone
  <2>4. \A d \in Conns : Gone(d)' \/ KeepsSignals(up'[d], up[d])
    BY <2>1, <2>3, KeepsItself
  <2> QED
    BY <1>1, <1>2, <1>3, <1>13, <2>4 DEF Leave, End
<1>14. CASE Lose(c)
  <2>1. \A d \in Conns : KeepsSignals(up'[d], up[d])
    BY <1>14, KeepsItself DEF Lose
  <2> QED
    BY <1>1, <1>2, <1>3, <1>14, <2>1 DEF Lose, End
<1> QED
  BY <1>4, <1>5, <1>6, <1>7, <1>8, <1>9, <1>10, <1>11, <1>12, <1>13, <1>14
     DEF ClientStep, Handle

\* Whatever registers, closes and breaks, a signal is at every moment on its way, at a
\* client, or an error for its sender, unless one of the two ends has gone: all that
\* SignalIsAnswered asks of the scheduler is to move it.
THEOREM SignalsAreAccountedFor == Spec => []NoSignalIsLost
<1>1. Init => GoneInv /\ NoSignalIsLost
  <2> SUFFICES ASSUME Init PROVE GoneInv /\ NoSignalIsLost
    OBVIOUS
  <2>1. \A c \in Conns : handler[c] = "none" /\ up[c] = <<>> /\ sent[c] = <<>>
    BY DEF Init
  <2>2. \A c \in Conns : DOMAIN up[c] = {} /\ DOMAIN sent[c] = {}
    BY <2>1
  <2> QED
    BY <2>1, <2>2 DEF GoneInv, NoSignalIsLost
<1>2. MappedInv /\ MappedInv' /\ Core /\ (GoneInv /\ NoSignalIsLost) /\ [Next]_vars
        => (GoneInv /\ NoSignalIsLost)'
  <2> SUFFICES ASSUME MappedInv, MappedInv', Core, GoneInv, NoSignalIsLost, [Next]_vars
               PROVE  (GoneInv /\ NoSignalIsLost)'
    OBVIOUS
  <2>1. CASE UNCHANGED vars
    <3>1. /\ client' = client /\ handler' = handler /\ broken' = broken /\ up' = up
          /\ down' = down /\ sent' = sent /\ got' = got /\ names' = names
      BY <2>1 DEF vars, wires
    <3>2. GoneInv'
      BY <3>1 DEF GoneInv, Gone, EndsLoop
    <3>3. \A c \in Conns : \A no : Signalled(c, no)' = Signalled(c, no)
      BY <3>1 DEF Signalled
    <3>4. \A c \in Conns : \A no : Accounted(c, no) => Accounted(c, no)'
      <4>1. /\ \A d \in Conns : Gone(d)' = Gone(d) /\ All(d)' = All(d)
            /\ \A d \in Conns : \A p : Named(d, p)' = Named(d, p)
        BY <3>1 DEF Gone, All, Named
      <4>2. \A c \in Conns : \A no :
               /\ Among(up[c], "signal", c, no)' = Among(up[c], "signal", c, no)
               /\ Among(All(c), "error", c, no)' = Among(All(c), "error", c, no)
               /\ \A d \in Conns :
                     Among(All(d), "signal", c, no)' = Among(All(d), "signal", c, no)
        BY <3>1, <4>1 DEF Among
      <4> QED
        BY <3>1, <4>1, <4>2 DEF Accounted
    <3> QED
      BY <3>1, <3>2, <3>3, <3>4 DEF NoSignalIsLost
  <2>2. CASE Next
    <3>1. TypeInv /\ TypeOK'
      BY DEF MappedInv, TypeInv
    <3> QED
      BY <2>2, <3>1, GoneStep, AccountStep
  <2> QED
    BY <2>1, <2>2
<1> QED
  BY <1>1, <1>2, CoreHolds, PTL DEF Spec
=============================================================================
