------------------------------- MODULE CopyJob -------------------------------
(***************************************************************************)
(* What a copy job promises the page that starts it: the interface of      *)
(* runCopyJob (CopyHooks in service-copy.ts, CopyJob in state.ts) without  *)
(* browsers, timers or acknowledgements.  CopyEngine implements it.        *)
(***************************************************************************)
EXTENDS Naturals

CONSTANT Ids          \* the messages that may ever be on the source queue

VARIABLES
  status,             \* job.status, "none" before the job exists
  cancelRequested,    \* job.cancelRequested
  mode,               \* "copy" or "move"
  total,              \* job.total
  copied,             \* job.copied
  delivered,          \* messages the destination holds
  confirmed,          \* the messages job.copied counts
  removed             \* messages taken from the source queue

jobVars == <<status, cancelRequested, mode, total, copied, delivered, confirmed, removed>>

Init ==
  /\ status = "none" /\ cancelRequested = FALSE
  /\ mode \in {"copy", "move"} /\ total \in Nat /\ copied = 0
  /\ delivered = {} /\ confirmed = {} /\ removed = {}

Start ==
  /\ status = "none"
  /\ status' = "running"
  /\ UNCHANGED <<cancelRequested, mode, total, copied, delivered, confirmed, removed>>

(* A message on its way may reach the destination after the job has ended. *)
Deliver(m) ==
  /\ status # "none" /\ m \notin delivered
  /\ delivered' = delivered \cup {m}
  /\ UNCHANGED <<status, cancelRequested, mode, total, copied, confirmed, removed>>

(* Only a delivered message is counted, once, and only a counted message   *)
(* of a move is removed.                                                   *)
Confirm(m) ==
  /\ status = "running" /\ m \in delivered \ confirmed
  /\ confirmed' = confirmed \cup {m}
  /\ copied' = copied + 1
  /\ removed' = removed \/ (mode = "move" /\ removed' = removed \cup {m})
  /\ UNCHANGED <<status, cancelRequested, mode, total, delivered>>

RequestCancel ==
  /\ status = "running" /\ ~cancelRequested
  /\ cancelRequested' = TRUE
  /\ UNCHANGED <<status, mode, total, copied, delivered, confirmed, removed>>

(* The job ends once: cancelled exactly if that was asked for, completed   *)
(* only with the full count.                                               *)
Finish ==
  /\ status = "running"
  /\ status' \in IF cancelRequested THEN {"cancelled"} ELSE {"completed", "error"}
  /\ status' = "completed" => copied = total
  /\ UNCHANGED <<cancelRequested, mode, total, copied, delivered, confirmed, removed>>

Next ==
  \/ Start \/ RequestCancel \/ Finish
  \/ \E m \in Ids : Deliver(m) \/ Confirm(m)

SafeSpec == Init /\ [][Next]_jobVars

Spec == SafeSpec /\ WF_jobVars(Finish)
=============================================================================
