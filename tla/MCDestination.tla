---------------------------- MODULE MCDestination ----------------------------
(* Two brokers with the same two VPNs, for TLC. *)
EXTENDS Destination, TLC

CONSTANTS b1, b2, v1, v2

TwoBrokers == {b1, b2}
TwoVpns == {v1, v2}

Symmetry == Permutations(TwoBrokers) \cup Permutations(TwoVpns)
=============================================================================
