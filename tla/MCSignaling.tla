---------------------------- MODULE MCSignaling ----------------------------
(* Instances of Signaling for TLC. *)
EXTENDS Signaling, TLC

CONSTANTS a1, a2, b1, A, B

\* One peer that comes back, and its correspondent.
PeersOf == [c \in Conns |-> IF c = b1 THEN B ELSE A]

\* The correspondent sends twice, so that order shows; the peer may register a
\* second id on its first connection.
Signals(p)   == [kind : {"signal"}, to : {p}]
Registers(p) == [kind : {"register"}, to : {p}]
Odd          == [kind : {"untargeted", "garbage"}, to : {Nobody}]

WhatTheySay == (a1 :> Registers(B) \cup Odd) @@ (a2 :> {}) @@ (b1 :> Signals(A))
FewSends    == (a1 :> 1) @@ (a2 :> 0) @@ (b1 :> 2)
NoSends     == [c \in Conns |-> 0]
=============================================================================
