--------------------------- MODULE MCQueuePicker ---------------------------
(* The instance of QueuePicker for TLC: a broker with two VPNs on two pages  *)
(* and one with one VPN; the queues of the first VPN of the former take two  *)
(* pages.  The destination's connection is to the latter.                    *)
EXTENDS QueuePicker

CONSTANTS b1, b2, v1, v2

TwoBrokers == {b1, b2}
TwoVpns == {v1, v2}
PagesOfVpns == [b \in TwoBrokers |-> IF b = b1 THEN <<{v1}, {v2}>> ELSE <<{v1}>>]
PagesOfQueues ==
  [b \in TwoBrokers |-> [v \in TwoVpns |-> CASE b = b1 /\ v = v1 -> 2 [] b = b2 /\ v = v2 -> 0 [] OTHER -> 1]]
TwoContexts == {[baseUrl |-> b1, bound |-> FALSE], [baseUrl |-> b2, bound |-> TRUE]}
=============================================================================
