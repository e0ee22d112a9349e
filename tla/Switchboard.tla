---------------------------- MODULE Switchboard ----------------------------
(***************************************************************************)
(* What the signaling server promises to those on its lines, whatever the  *)
(* queues, tasks and map in between.  A line goes under the ids its client *)
(* asked for.  A signal reaches one line, which goes under its target, or  *)
(* comes back as an error, or is lost; what has no target is answered only *)
(* if it makes no sense.  Nothing overtakes what the same line sent before,*)
(* and what a client has once received it keeps.                           *)
(***************************************************************************)
EXTENDS Integers, Sequences

CONSTANTS
    Line, Id,
    OwnId,    \* the id each client asks for as it connects
    Content   \* what can be sent: records of a kind and a target

VARIABLES sent, names, got

vars == <<sent, names, got>>

Init ==
    /\ sent = [c \in Line |-> <<>>] /\ names = [c \in Line |-> <<>>]
    /\ got = [c \in Line |-> <<>>]

Speak(c) ==
    /\ \E s \in Content : sent' = [sent EXCEPT ![c] = Append(@, s)]
    /\ UNCHANGED <<names, got>>

HasSent(c, kind, to) == \E n \in DOMAIN sent[c] : sent[c][n] = [kind |-> kind, to |-> to]

Register(c) ==
    /\ \E p \in Id :
          /\ p = OwnId[c] \/ HasSent(c, "register", p)
          /\ names' = [names EXCEPT ![c] = Append(@, p)]
    /\ UNCHANGED <<sent, got>>

GoesUnder(d, p) == \E i \in DOMAIN names[d] : names[d][i] = p

\* At d the n-th message of c comes after all that is there of c, and no other line
\* has had it.
InTurn(c, n, d) ==
    /\ \A i \in DOMAIN got[d] : got[d][i].from = c => got[d][i].no < n
    /\ \A e \in Line \ {d} : \A i \in DOMAIN got[e] :
          ~(got[e][i].from = c /\ got[e][i].no = n)

\* d receives the n-th message of c, or an error about it.
Receive(d, kind, c, n) ==
    /\ InTurn(c, n, d)
    /\ got' = [got EXCEPT ![d] =
                  Append(@, [kind |-> kind, from |-> c, no |-> n, to |-> sent[c][n].to])]
    /\ UNCHANGED <<sent, names>>

Deliver(c, n, d) ==
    /\ sent[c][n].kind = "signal" /\ GoesUnder(d, sent[c][n].to)
    /\ Receive(d, "signal", c, n)

Refuse(c, n) ==
    /\ sent[c][n].kind \in {"signal", "garbage"}
    /\ Receive(c, "error", c, n)

Next ==
    \E c \in Line :
        \/ Speak(c) \/ Register(c)
        \/ \E n \in DOMAIN sent[c] : Refuse(c, n) \/ \E d \in Line : Deliver(c, n, d)

Spec == Init /\ [][Next]_vars
=============================================================================
