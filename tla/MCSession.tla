----------------------------- MODULE MCSession -----------------------------
(* Instances of Session for TLC. *)
EXTENDS Session, TLC

\* All processes of one machine run under the same ~/.sendrs, so they load the
\* same identity.
OneDevice == [p \in Procs |-> "device"]

Trusted   == {"device"}
Untrusted == {}

Undisturbed   == [e \in Events |-> 0]
Disturbed     == [e \in Events |-> 1]
DisturbedMore == [e \in Events |-> 2]

Symmetry == Permutations(Receivers)
=============================================================================
