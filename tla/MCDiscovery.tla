---------------------------- MODULE MCDiscovery ----------------------------
(* An instance of Discovery for TLC. *)
EXTENDS Discovery

CONSTANTS s, f, g

\* A round and a running send, or two rounds.
OfferOrRounds == {{f, s}, {f, g}}

\* Both on the laptop, or g on the desk; otherwise the desk is a stranger.
OnLaptop == {h \in [Finders -> Devices] : h[f] = "laptop"}

\* The laptop has two addresses.
AddressesOf == [laptop |-> {"10.0.0.1", "10.0.0.3"}, desk |-> {"10.0.0.2"}]
=============================================================================
