---------------------------- MODULE MCForwarding ----------------------------
(* The dialogs of the TLC run of Forwarding.  It takes three clicks for two *)
(* loops to overlap: a second loop, of resends, on its way, and the button  *)
(* enabled again by the failure of the message it has just sent.            *)
EXTENDS Forwarding

CONSTANTS a, b, c

TwoDialogs == << <<a, b>>, <<c>> >>

\* What the steps and the properties depend on: of a call that has settled
\* only that it has, of the broker's acknowledgements the messages they were
\* for, and nothing of its rejections.  (Comparing result as a whole has TLC
\* enumerate it: it cannot write a state with an unevaluated function to disk.)
Phase(s) == IF result[s] \in {"idle", "waiting"} THEN result[s] ELSE "settled"
Nothing == [s \in Sends |-> "idle"]
Phases == IF result = Nothing THEN Nothing ELSE [s \in Sends |-> Phase(s)]
Seen == <<pending, timers, Phases, wire, {s[1] : s \in accepted},
          disposed, dialogVars, status, button>>
=============================================================================
