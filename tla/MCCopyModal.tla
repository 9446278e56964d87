---------------------------- MODULE MCCopyModal -----------------------------
(* The instance of CopyModal for TLC: two queues to confuse.                 *)
EXTENDS CopyModal

CONSTANTS q1, q2

TwoQueues == {q1, q2}
=============================================================================
