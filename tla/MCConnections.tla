--------------------------- MODULE MCConnections ----------------------------
(* The instance of Connections for TLC: two VPNs, and sessions enough for a  *)
(* third one to be created while the events of the first two are to come.    *)
EXTENDS Connections

CONSTANTS v1, v2

TwoVpns == {v1, v2}
=============================================================================
