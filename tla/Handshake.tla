----------------------------- MODULE Handshake -----------------------------
(***************************************************************************)
(* What a sharing session promises about each claim, whatever files it is  *)
(* made of.  Each side answers once and for good; a transfer needs the yes *)
(* of the sender and one it hears, or the sender's trust, and happens once;*)
(* a receiver is told at most once, and the truth, and after that it can   *)
(* only be gone.                                                           *)
(***************************************************************************)
CONSTANTS
    Claim,
    Heard   \* the claims whose receiver's yes the sender takes for a claim's own

VARIABLES sender, receiver,  \* how the two sides answered each claim
          outcome,           \* what came of its transfer
          told               \* what its receiver believes

Answers == {"trusted", "yes", "no"}

vars == <<sender, receiver, outcome, told>>

Init ==
    /\ sender = [c \in Claim |-> "none"] /\ receiver = [c \in Claim |-> "none"]
    /\ outcome = [c \in Claim |-> "none"]
    /\ told = [c \in Claim |-> "nothing"]

SenderAnswers(c) ==
    /\ sender[c] = "none"
    /\ \E a \in Answers : sender' = [sender EXCEPT ![c] = a]
    /\ UNCHANGED <<receiver, outcome, told>>

ReceiverAnswers(c) ==
    /\ receiver[c] = "none"
    /\ \E a \in Answers : receiver' = [receiver EXCEPT ![c] = a]
    /\ UNCHANGED <<sender, outcome, told>>

Agreed(c) ==
    \/ sender[c] = "trusted"
    \/ sender[c] = "yes" /\ \E d \in Heard[c] : receiver[d] = "yes"

Transfer(c) ==
    /\ outcome[c] = "none" /\ Agreed(c)
    /\ \E result \in {"ok", "failed"} : outcome' = [outcome EXCEPT ![c] = result]
    /\ UNCHANGED <<sender, receiver, told>>

TellSuccess(c) ==
    /\ told[c] = "nothing" /\ outcome[c] = "ok" /\ receiver[c] \in {"trusted", "yes"}
    /\ told' = [told EXCEPT ![c] = "success"]
    /\ UNCHANGED <<sender, receiver, outcome>>

TellFailure(c) ==
    /\ told[c] = "nothing" /\ (outcome[c] = "failed" \/ sender[c] = "no")
    /\ told' = [told EXCEPT ![c] = "failure"]
    /\ UNCHANGED <<sender, receiver, outcome>>

\* The receiver ends, or is ended.
Leave(c) ==
    /\ told[c] \in {"nothing", "success"}
    /\ told' = [told EXCEPT ![c] = "gone"]
    /\ UNCHANGED <<sender, receiver, outcome>>

Next == \E c \in Claim :
    \/ SenderAnswers(c) \/ ReceiverAnswers(c) \/ Transfer(c)
    \/ TellSuccess(c) \/ TellFailure(c) \/ Leave(c)

Spec == Init /\ [][Next]_vars
=============================================================================
