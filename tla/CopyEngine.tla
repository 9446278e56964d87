----------------------------- MODULE CopyEngine -----------------------------
(***************************************************************************)
(* One run of the queue-copy engine: runCopyJob in                         *)
(* src/modules/queue-copy/service-copy.ts, with the publisher it awaits    *)
(* (src/core/services/solace-publisher.ts), the source queue browser and   *)
(* the broker it drives.                                                   *)
(*                                                                         *)
(* The engine runs on one JavaScript thread.  A callback is one action.    *)
(* The part of the MESSAGE handler after "await publisher.send(...)" is an *)
(* action of its own: a microtask that is queued when the publish settles. *)
(* Timers and clicks are tasks, so they wait until no microtask is queued; *)
(* events of the messaging SDK may share one network frame, so several can *)
(* fire before the microtasks they queue.                                  *)
(*                                                                         *)
(* A message is its spool id: the broker numbers messages upwards and a    *)
(* browser is given them in that order.                                    *)
(***************************************************************************)
EXTENDS Integers, FiniteSets

CONSTANTS
  SnapshotSize,  \* messages on the source queue when it was verified
  MaxId,         \* bound: the largest spool id of the model
  High,          \* PUBLISH_CONCURRENCY_HIGH: in-flight publishes that pause the browser
  Low,           \* PUBLISH_CONCURRENCY_LOW: in-flight publishes that resume it
  Burst,         \* messages the SDK may still deliver after browser.stop()
  Runs,          \* the run parameters to consider, a subset of RunParams
  RemoveMayFail  \* whether removeMessageFromQueue may throw

Ids  == 1 .. MaxId
NoId == 0          \* a message id that the verification could not determine
Off  == -1         \* a timer that is not armed

(* What the engine reads once and never again: the verified snapshot, the  *)
(* mode, whether a publisher exists, whether the destination is the source *)
(* queue itself, and whether its name is one the SDK refuses to build a    *)
(* destination from (cloneMessage then throws).                            *)
RunParams ==
  [mode : {"copy", "move"}, oldest : Ids \cup {NoId}, newest : Ids \cup {NoId},
   total : Nat, hasPublisher : BOOLEAN, sameQueue : BOOLEAN, badDest : BOOLEAN]

ASSUME SizesAssumption ==
  /\ SnapshotSize \in Nat /\ MaxId \in Nat /\ SnapshotSize <= MaxId
  /\ Burst \in Nat

(* constants.ts: HIGH is above LOW, and LOW may be zero. *)
ASSUME WaterMarksAssumption == Low \in Nat /\ High \in Nat /\ Low < High

ASSUME RunsAssumption == Runs \subseteq RunParams

ASSUME RemoveAssumption == RemoveMayFail \in BOOLEAN

VARIABLES
  run,                 \* the parameters of this run
  \* state.job
  status, copied, cancelRequested, lastError,
  \* locals of runCopyJob
  stopReason, firstMessageSeen, seenMaxMsgId, inFlight, idleTimer,
  cancelRejectIssued, browserDisconnected, browserPaused,
  drain,               \* where drainAndFinish is
  completions,         \* history: calls of hooks.onComplete
  \* the publisher
  stage,               \* what became of each message's publish
  disposed,
  \* the source queue and its browser
  flow, source, cursor, top,
  removed,             \* history: messages the engine removed from the source
  \* the destination broker
  broker

jobVars     == <<status, copied, cancelRequested, lastError>>
stopVars    == <<stopReason, browserDisconnected, cancelRejectIssued, drain>>
messageVars == <<firstMessageSeen, seenMaxMsgId>>
flowVars    == <<flow, source, cursor, top, removed>>
vars == <<run, jobVars, stopVars, messageVars, inFlight, idleTimer,
          browserPaused, completions, stage, disposed, flowVars, broker>>

StopReasons == {"cancel", "source-drift", "max-consumed", "reached-max",
                "idle", "publish-error", "browser-error"}
Final  == {"completed", "cancelled", "error"}
Errors == {"none", "no-publisher", "publish", "connect", "browser",
           "drift", "max-consumed", "count-mismatch"}

(* The life of one publish.  unsent: never handed to the publisher.        *)
(* pending: in the publisher's map, its acknowledgement timer armed.       *)
(* resolved, rejected: its promise has settled and the rest of the handler *)
(* is queued.  confirmed, failed: that rest has run.  threw: the call to   *)
(* publisher.send threw instead of returning a promise.                    *)
Stages == {"unsent", "pending", "resolved", "rejected",
           "confirmed", "failed", "threw"}

(* What the broker knows of a publish.  accepted: the destination holds    *)
(* the message and the acknowledgement travels; refused: so does a         *)
(* rejection; acked and nacked: the answer reached the client.             *)
BrokerStates == {"none", "sent", "accepted", "refused", "acked", "nacked"}

TypeOK ==
  /\ run \in RunParams
  /\ status \in {"none", "running"} \cup Final
  /\ copied \in Nat
  /\ cancelRequested \in BOOLEAN
  /\ lastError \in Errors
  /\ stopReason \in StopReasons \cup {"none"}
  /\ firstMessageSeen \in BOOLEAN
  /\ seenMaxMsgId \in BOOLEAN
  /\ inFlight \in Nat
  /\ idleTimer \in {Off} \cup 0 .. MaxId
  /\ cancelRejectIssued \in BOOLEAN
  /\ browserDisconnected \in BOOLEAN
  /\ browserPaused \in BOOLEAN
  /\ drain \in {"none", "queued", "polling", "done"}
  /\ completions \in Nat
  /\ stage \in [Ids -> Stages]
  /\ disposed \in BOOLEAN
  /\ flow \in {"none", "connecting", "up", "dead"}
  /\ source \subseteq Ids
  /\ cursor \in 0 .. MaxId
  /\ top \in 0 .. MaxId
  /\ removed \subseteq Ids
  /\ broker \in [Ids -> BrokerStates]

-----------------------------------------------------------------------------
(* Derived sets. *)
Awaiting  == {m \in Ids : stage[m] \in {"pending", "resolved", "rejected"}}
Pending   == {m \in Ids : stage[m] = "pending"}
Confirmed == {m \in Ids : stage[m] = "confirmed"}
Published == {m \in Ids : stage[m] # "unsent"}
Delivered == {m \in Ids : broker[m] \in {"accepted", "acked"}}
Snapshot  == 1 .. SnapshotSize

(* No microtask is queued: a timer or a click may run. *)
Quiet == drain # "queued"
         /\ \A m \in Ids : stage[m] \notin {"resolved", "rejected"}

(* The page has verified the source queue and Start is not clicked yet. *)
Init ==
  /\ run \in Runs
  /\ status = "none" /\ copied = 0 /\ cancelRequested = FALSE /\ lastError = "none"
  /\ stopReason = "none" /\ browserDisconnected = FALSE
  /\ cancelRejectIssued = FALSE /\ drain = "none"
  /\ firstMessageSeen = FALSE /\ seenMaxMsgId = FALSE
  /\ inFlight = 0 /\ idleTimer = Off /\ browserPaused = FALSE
  /\ completions = 0
  /\ stage = [m \in Ids |-> "unsent"] /\ disposed = FALSE
  /\ flow = "none" /\ source = Snapshot /\ cursor = 0 /\ top = SnapshotSize
  /\ removed = {}
  /\ broker = [m \in Ids |-> "none"]

-----------------------------------------------------------------------------
(* Stopping. *)

(* rejectAllPending and dispose: every pending publish settles with !ok. *)
RejectAllPending(st) ==
  [m \in Ids |-> IF st[m] = "pending" THEN "rejected" ELSE st[m]]

(* Phase 1.  The first reason wins; the browser is disconnected, the idle  *)
(* timer cleared, the drain queued, and a cancel settles what is pending.  *)
(* st is the stage of every publish as the calling handler leaves it.      *)
TriggerStop(reason, st) ==
  IF stopReason # "none"
  THEN stage' = st /\ UNCHANGED <<stopVars, idleTimer>>
  ELSE /\ stopReason' = reason
       /\ idleTimer' = Off
       /\ browserDisconnected' = TRUE
       /\ drain' = "queued"
       /\ IF reason = "cancel" /\ ~cancelRejectIssued
          THEN cancelRejectIssued' = TRUE /\ stage' = RejectAllPending(st)
          ELSE cancelRejectIssued' = cancelRejectIssued /\ stage' = st

(* Mutant: a cancel after the stop does not matter. *)
BugEffectiveReason == stopReason

(* Cancel upgrades whatever reason stopped the run. *)
EffectiveReason == IF cancelRequested THEN "cancel" ELSE stopReason

Outcome ==
  CASE EffectiveReason = "cancel"       -> <<"cancelled", "none">>
    [] EffectiveReason = "source-drift" -> <<"error", "drift">>
    [] EffectiveReason = "max-consumed" -> <<"error", "max-consumed">>
    [] EffectiveReason \in {"reached-max", "idle"} ->
         IF copied = run.total THEN <<"completed", "none">>
                               ELSE <<"error", "count-mismatch">>
    [] OTHER -> <<"error", lastError>>   \* publish-error, browser-error

(* Phase 2: classify, disconnect, report. *)
EvaluateAndFinish ==
  /\ status' = Outcome[1]
  /\ lastError' = Outcome[2]
  /\ browserDisconnected' = TRUE
  /\ drain' = "done"
  /\ completions' = completions + 1
  /\ UNCHANGED <<copied, cancelRequested, stopReason>>

Drained == inFlight = 0

(* The queued drain: finish at once, or wait for the publishes in flight. *)
DrainAndFinish ==
  /\ drain = "queued"
  /\ IF Drained
     THEN EvaluateAndFinish
     ELSE /\ drain' = "polling"
          /\ UNCHANGED <<jobVars, stopReason, browserDisconnected, completions>>
  /\ UNCHANGED <<run, messageVars, inFlight, idleTimer, browserPaused,
                 cancelRejectIssued, stage, disposed, flowVars, broker>>

(* One turn of the 20 ms loop: a late cancel settles what is pending, and  *)
(* the loop ends once nothing is in flight.                                *)
DrainPoll ==
  /\ drain = "polling" /\ Quiet
  /\ Drained \/ (cancelRequested /\ ~cancelRejectIssued)
  /\ IF cancelRequested /\ ~cancelRejectIssued
     THEN cancelRejectIssued' = TRUE /\ stage' = RejectAllPending(stage)
     ELSE UNCHANGED <<cancelRejectIssued, stage>>
  /\ IF Drained
     THEN EvaluateAndFinish
     ELSE UNCHANGED <<jobVars, stopReason, browserDisconnected, drain, completions>>
  /\ UNCHANGED <<run, messageVars, inFlight, idleTimer, browserPaused,
                 disposed, flowVars, broker>>

-----------------------------------------------------------------------------
(* Starting. *)

(* state.job is created, then one of: no publisher, an empty snapshot, a   *)
(* browser that connects, a browser whose connect() throws.                *)
RunCopyJob ==
  /\ status = "none"
  /\ status' = "running"
  /\ \/ /\ ~run.hasPublisher
        /\ stopReason' = "publish-error" /\ lastError' = "no-publisher"
        /\ drain' = "queued"
        /\ UNCHANGED <<flow, idleTimer, stage, browserDisconnected, cancelRejectIssued>>
     \/ /\ run.hasPublisher /\ run.total = 0
        /\ stopReason' = "idle" /\ drain' = "queued"
        /\ UNCHANGED <<flow, idleTimer, stage, lastError, browserDisconnected,
                       cancelRejectIssued>>
     \/ /\ run.hasPublisher /\ run.total > 0
        /\ flow' = "connecting" /\ idleTimer' = cursor
        /\ UNCHANGED <<lastError, stage, stopVars>>
     \/ /\ run.hasPublisher /\ run.total > 0
        /\ flow' = "dead" /\ lastError' = "connect"
        /\ TriggerStop("browser-error", stage)
  /\ UNCHANGED <<run, copied, cancelRequested, messageVars, inFlight,
                 browserPaused, completions, disposed, source, cursor, top,
                 removed, broker>>

-----------------------------------------------------------------------------
(* Browser events other than MESSAGE. *)

BrowserUp ==
  /\ flow = "connecting"
  /\ flow' = "up"
  /\ idleTimer' = cursor
  /\ UNCHANGED <<run, jobVars, stopVars, messageVars, inFlight, browserPaused,
                 completions, stage, disposed, source, cursor, top, removed, broker>>

(* CONNECT_FAILED_ERROR and DOWN_ERROR: the handlers record the error      *)
(* before they find out whether the run is stopping already.               *)
BrowserError ==
  /\ flow \in {"connecting", "up"}
  /\ flow' = "dead"
  /\ lastError' = "browser"
  /\ TriggerStop("browser-error", stage)
  /\ UNCHANGED <<run, status, copied, cancelRequested, messageVars, inFlight,
                 browserPaused, completions, disposed, source, cursor, top,
                 removed, broker>>

-----------------------------------------------------------------------------
(* The MESSAGE handler, up to its await. *)

(* The browser hands over m: the oldest message on the queue that it has   *)
(* not handed over yet.  After browser.stop() the SDK delivers at most the *)
(* few messages that are on their way already.                             *)
Arrives(m) ==
  /\ flow = "up"
  /\ m \in source /\ cursor < m
  /\ \A k \in source : cursor < k => m <= k
  /\ browserPaused => inFlight < High + Burst
  /\ cursor' = m
  /\ UNCHANGED <<run, flow, source, top, removed, disposed, status, copied,
                 cancelRequested, completions>>

Stopping  == stopReason # "none"

(* Mutant: there is no stop boundary.                                      *)
BugPastNewest(m) == FALSE

Drifts(m) == ~firstMessageSeen /\ run.oldest # NoId /\ m # run.oldest
PastNewest(m) == run.newest # NoId /\ m > run.newest

(* The run is stopping: the message is ignored. *)
IgnoreMessage(m) ==
  /\ Stopping
  /\ Arrives(m)
  /\ UNCHANGED <<lastError, stopVars, messageVars, inFlight, idleTimer,
                 browserPaused, stage, broker>>

(* The flag the Cancel button set is seen. *)
MessageSeesCancel(m) ==
  /\ ~Stopping /\ cancelRequested
  /\ Arrives(m)
  /\ TriggerStop("cancel", stage)
  /\ UNCHANGED <<lastError, messageVars, inFlight, browserPaused, broker>>

(* The first message is not the recorded oldest. *)
MessageDrifts(m) ==
  /\ ~Stopping /\ ~cancelRequested /\ Drifts(m)
  /\ Arrives(m)
  /\ firstMessageSeen' = TRUE
  /\ TriggerStop("source-drift", stage)
  /\ UNCHANGED <<lastError, seenMaxMsgId, inFlight, browserPaused, broker>>

(* Past the recorded newest: one of our own clones, dropped, or proof that *)
(* the newest was consumed by somebody else.                               *)
MessagePastNewest(m) ==
  /\ ~Stopping /\ ~cancelRequested /\ ~Drifts(m) /\ PastNewest(m)
  /\ Arrives(m)
  /\ firstMessageSeen' = TRUE
  /\ IF seenMaxMsgId
     THEN UNCHANGED <<stopVars, idleTimer, stage>>
     ELSE TriggerStop("max-consumed", stage)
  /\ UNCHANGED <<lastError, seenMaxMsgId, inFlight, browserPaused, broker>>

(* Mutants: both marks are off by one. *)
BugPauses == ~browserPaused /\ inFlight + 1 > High
BugStaysPaused(n, paused) == paused /\ n >= Low

(* Backpressure. *)
Pauses == ~browserPaused /\ inFlight + 1 >= High
StaysPaused(n, paused) == paused /\ n > Low

(* Mutant: the newest has been seen only once it is acknowledged.          *)
BugSeesNewest(m) == run.newest # NoId /\ stage[run.newest] = "confirmed"

SeesNewest(m) == m = run.newest

(* Common to every message that reaches publisher.send.  The idle timer is *)
(* armed before the publisher arms the acknowledgement timer of m.         *)
TakeMessage(m) ==
  /\ ~Stopping /\ ~cancelRequested /\ ~Drifts(m) /\ ~PastNewest(m)
  /\ Arrives(m)
  /\ firstMessageSeen' = TRUE
  /\ seenMaxMsgId' = (seenMaxMsgId \/ SeesNewest(m))
  /\ UNCHANGED <<lastError, stopVars>>

(* publisher.send: the message is on its way, or the promise has settled   *)
(* already (publisher disposed, session.send threw).                       *)
PublishMessage(m) ==
  /\ disposed \/ ~run.badDest
  /\ TakeMessage(m)
  /\ inFlight' = inFlight + 1
  /\ browserPaused' = (browserPaused \/ Pauses)
  /\ idleTimer' = IF Pauses THEN Off ELSE m - 1
  /\ \/ /\ ~disposed
        /\ stage' = [stage EXCEPT ![m] = "pending"]
        /\ broker' = [broker EXCEPT ![m] = "sent"]
     \/ /\ stage' = [stage EXCEPT ![m] = "rejected"]
        /\ UNCHANGED broker

(* cloneMessage throws, so publisher.send does; only the finally block of  *)
(* the handler runs.                                                       *)
PublishThrows(m) ==
  /\ ~disposed /\ run.badDest
  /\ TakeMessage(m)
  /\ stage' = [stage EXCEPT ![m] = "threw"]
  /\ browserPaused' = StaysPaused(inFlight, browserPaused \/ Pauses)
  /\ idleTimer' = IF ~browserPaused' THEN m ELSE IF Pauses THEN Off ELSE m - 1
  /\ UNCHANGED <<inFlight, broker>>

-----------------------------------------------------------------------------
(* The MESSAGE handler after its await. *)

(* Mutant: the idle timer is not armed again. *)
BugResumeDelivery(st) ==
  /\ browserPaused' = StaysPaused(inFlight - 1, browserPaused)
  /\ idleTimer' = Off
  /\ stage' = st
  /\ UNCHANGED stopVars

(* The finally block, on a run that is not stopping and not cancelled. *)
ResumeDelivery(st) ==
  /\ browserPaused' = StaysPaused(inFlight - 1, browserPaused)
  /\ idleTimer' = IF browserPaused' THEN idleTimer ELSE cursor
  /\ stage' = st
  /\ UNCHANGED stopVars

(* The publish failed: the first failure stops the run. *)
PublishFailed(m) ==
  /\ stage[m] = "rejected"
  /\ inFlight' = inFlight - 1
  /\ lastError' = IF Stopping THEN lastError ELSE "publish"
  /\ TriggerStop("publish-error", [stage EXCEPT ![m] = "failed"])
  /\ UNCHANGED <<run, status, copied, cancelRequested, messageVars,
                 browserPaused, completions, disposed, flowVars, broker>>

(* In move mode the source copy goes once the publish is acknowledged,     *)
(* unless the browser is disconnected already; a throw is swallowed.       *)
RemoveFromSource(m) ==
  \/ /\ run.mode = "move" /\ ~browserDisconnected
     /\ source' = source \ {m}
     /\ removed' = removed \cup {m}
  \/ /\ run.mode = "copy" \/ browserDisconnected \/ RemoveMayFail
     /\ UNCHANGED <<source, removed>>

(* The publish is acknowledged: remove, count, and check the stop boundary. *)
PublishConfirmed(m) ==
  LET st == [stage EXCEPT ![m] = "confirmed"] IN
  /\ stage[m] = "resolved"
  /\ RemoveFromSource(m)
  /\ copied' = copied + 1
  /\ inFlight' = inFlight - 1
  /\ CASE Stopping         -> /\ stage' = st
                              /\ UNCHANGED <<stopVars, idleTimer, browserPaused>>
       [] ~Stopping /\ m = run.newest ->
            TriggerStop("reached-max", st) /\ UNCHANGED browserPaused
       [] ~Stopping /\ m # run.newest /\ cancelRequested ->
            TriggerStop("cancel", st) /\ UNCHANGED browserPaused
       [] OTHER -> ResumeDelivery(st)
  /\ UNCHANGED <<run, status, cancelRequested, lastError, messageVars,
                 completions, disposed, flow, cursor, top, broker>>

-----------------------------------------------------------------------------
(* Timers and the user. *)

(* The idle and the acknowledgement timeouts are both 30 s, so timers fire *)
(* in the order they were armed: idleTimer is the last message whose       *)
(* acknowledgement timer is older.                                         *)
IdleDue == idleTimer # Off /\ Quiet /\ \A k \in Pending : k > idleTimer

IdleTimeout ==
  /\ IdleDue
  /\ IF Stopping
     THEN idleTimer' = Off /\ UNCHANGED <<stopVars, stage>>
     ELSE TriggerStop("idle", stage)
  /\ UNCHANGED <<run, jobVars, messageVars, inFlight, browserPaused,
                 completions, disposed, flowVars, broker>>

(* The modal's Cancel button. *)
Cancel ==
  /\ status = "running" /\ ~cancelRequested /\ Quiet
  /\ cancelRequested' = TRUE
  /\ UNCHANGED <<run, status, copied, lastError, stopVars, messageVars, inFlight,
                 idleTimer, browserPaused, completions, stage, disposed,
                 flowVars, broker>>

-----------------------------------------------------------------------------
(* The publisher. *)

(* Mutant: the outcome is not looked at. *)
BugSettleOk(m, outcome) ==
  stage' = IF stage[m] = "pending" THEN [stage EXCEPT ![m] = "resolved"] ELSE stage
Settle(m, outcome) ==
  stage' = IF stage[m] = "pending" THEN [stage EXCEPT ![m] = outcome] ELSE stage

OnlyPublisherMoves ==
  UNCHANGED <<run, jobVars, stopVars, messageVars, inFlight, idleTimer,
              browserPaused, completions, flowVars>>

AckTimeout(m) ==
  /\ stage[m] = "pending" /\ Quiet
  /\ \A k \in Pending : m <= k
  /\ idleTimer = Off \/ m <= idleTimer
  /\ Settle(m, "rejected")
  /\ OnlyPublisherMoves /\ UNCHANGED <<disposed, broker>>

(* ackListener and rejectListener: an answer to a publish that is not      *)
(* pending any more is ignored.                                            *)
AckArrives(m) ==
  /\ broker[m] = "accepted"
  /\ broker' = [broker EXCEPT ![m] = "acked"]
  /\ Settle(m, "resolved")
  /\ OnlyPublisherMoves /\ UNCHANGED disposed

RejectArrives(m) ==
  /\ broker[m] = "refused"
  /\ broker' = [broker EXCEPT ![m] = "nacked"]
  /\ Settle(m, "rejected")
  /\ OnlyPublisherMoves /\ UNCHANGED disposed

(* The destination session goes down and its owner disposes the publisher. *)
Dispose ==
  /\ ~disposed /\ run.hasPublisher /\ status = "running"
  /\ disposed' = TRUE
  /\ stage' = RejectAllPending(stage)
  /\ OnlyPublisherMoves /\ UNCHANGED broker

-----------------------------------------------------------------------------
(* The brokers and the other clients of the source queue. *)

OnlyBrokerMoves ==
  UNCHANGED <<run, jobVars, stopVars, messageVars, inFlight, idleTimer,
              browserPaused, completions, stage, disposed, flow, cursor, removed>>

(* The destination takes the message; when it is the source queue itself,  *)
(* the clone becomes its newest message.                                   *)
BrokerAccepts(m) ==
  /\ broker[m] = "sent"
  /\ broker' = [broker EXCEPT ![m] = "accepted"]
  /\ IF run.sameQueue
     THEN top < MaxId /\ top' = top + 1 /\ source' = source \cup {top + 1}
     ELSE UNCHANGED <<top, source>>
  /\ OnlyBrokerMoves

BrokerRefuses(m) ==
  /\ broker[m] = "sent"
  /\ broker' = [broker EXCEPT ![m] = "refused"]
  /\ OnlyBrokerMoves /\ UNCHANGED <<top, source>>

(* Somebody else consumes a message of the source queue. *)
OtherConsumes(m) ==
  /\ m \in source
  /\ source' = source \ {m}
  /\ OnlyBrokerMoves /\ UNCHANGED <<top, broker>>

(* Somebody else publishes to the source queue. *)
OtherPublishes ==
  /\ top < MaxId
  /\ top' = top + 1
  /\ source' = source \cup {top + 1}
  /\ OnlyBrokerMoves /\ UNCHANGED broker

-----------------------------------------------------------------------------
Message(m) ==
  \/ IgnoreMessage(m) \/ MessageSeesCancel(m) \/ MessageDrifts(m)
  \/ MessagePastNewest(m) \/ PublishMessage(m) \/ PublishThrows(m)

Continuation(m) == PublishFailed(m) \/ PublishConfirmed(m)

Environment ==
  \/ OtherPublishes
  \/ \E m \in Ids : BrokerAccepts(m) \/ BrokerRefuses(m) \/ OtherConsumes(m)

Next ==
  \/ RunCopyJob \/ BrowserUp \/ BrowserError
  \/ IdleTimeout \/ Cancel \/ DrainAndFinish \/ DrainPoll \/ Dispose
  \/ \E m \in Ids : \/ Message(m) \/ Continuation(m) \/ AckTimeout(m)
                    \/ AckArrives(m) \/ RejectArrives(m)
  \/ Environment

Spec == Init /\ [][Next]_vars

(* Only the JavaScript runtime is fair: it runs queued microtasks and due  *)
(* timers.  Nothing is assumed of the brokers, the SDK or the user.        *)
Fairness ==
  /\ WF_vars(DrainAndFinish) /\ WF_vars(DrainPoll) /\ WF_vars(IdleTimeout)
  /\ \A m \in Ids : WF_vars(Continuation(m)) /\ WF_vars(AckTimeout(m))

FairSpec == Spec /\ Fairness

-----------------------------------------------------------------------------
(* Properties. *)

(* A message leaves the source by our hand only in move mode and only when *)
(* the destination holds it: no order of acknowledgements, timeouts,       *)
(* cancels and disconnects loses a message (service-copy.ts 475-493).      *)
MoveNeverLoses ==
  /\ removed \subseteq Delivered
  /\ run.mode = "copy" => removed = {}

(* A run that ends because the recorded newest is gone says so of somebody *)
(* else: it has not published that message itself, and its own clones that *)
(* come back before the acknowledgement do not make it believe so; and the *)
(* message is not on the queue, now or later (385-420).                    *)
MaxConsumedIsTrue ==
  stopReason = "max-consumed" => run.newest \notin Published \cup source

(* If the head of the queue is not the verified one nothing is published:  *)
(* the first publish is the recorded oldest (373-383).                     *)
OldestGoesFirst ==
  Published # {} /\ run.oldest # NoId =>
    run.oldest \in Published /\ \A m \in Published : run.oldest <= m

(* The two counters agree with what became of each publish, through        *)
(* failures, late answers and stops: what drain waits for is really what   *)
(* is outstanding, and what is reported as copied really arrived.          *)
CountersAgree ==
  /\ inFlight = Cardinality(Awaiting)
  /\ copied = Cardinality(Confirmed)
  /\ Confirmed \subseteq Delivered

(* A run that goes on can always be woken: the idle timer is armed, or the *)
(* browser is paused above the low-water mark, so publishes with their own *)
(* timers are outstanding and one of them will resume it (438-447,         *)
(* 529-542).                                                               *)
NeverStuck ==
  status = "running" /\ ~Stopping =>
    idleTimer # Off \/ (browserPaused /\ inFlight > Low)

(* Backpressure: the window of unacknowledged publishes never exceeds the  *)
(* high-water mark by more than the SDK's burst, and the pause is lifted   *)
(* as soon as the low-water mark is reached.                               *)
Backpressure ==
  /\ inFlight <= High + Burst
  /\ ~Stopping => /\ inFlight >= High => browserPaused
                  /\ browserPaused => inFlight > Low

(* A completed run delivered every message of the snapshot, when the       *)
(* verification gave consistent figures: counting is enough although       *)
(* other clients consume and publish meanwhile (196-205).                  *)
CompletedDeliversSnapshot ==
  status = "completed" /\ run.newest = SnapshotSize /\ run.total = SnapshotSize
    => Snapshot \subseteq Delivered

(* onComplete is called once, and only for a final status. *)
CompletesOnce == completions = IF status \in Final THEN 1 ELSE 0

(* After a stop or a cancel no message is published any more (355-363). *)
NoPublishAfterStop ==
  [][Stopping \/ cancelRequested => Published' = Published]_vars

(* What onComplete reported stays true: no late answer changes the count   *)
(* or the status of a finished run, and nothing is removed from the source *)
(* after it.                                                               *)
ReportIsFinal ==
  [][(status \in Final) =>
       status' = status /\ copied' = copied /\ removed' = removed]_vars

(* The first stop reason decides. *)
FirstStopWins == [][Stopping => stopReason' = stopReason]_vars

(* A finished run that is an error says why, and one that is not does not. *)
ErrorsExplained ==
  [][status' # status /\ status' \in Final =>
       (status' = "error" <=> lastError' # "none")]_vars

(* The engine implements the job it promises. *)
Job == INSTANCE CopyJob WITH
         mode <- run.mode, total <- run.total,
         delivered <- Delivered, confirmed <- Confirmed

(* Each step of a run is a step of the abstract job or none at all, and    *)
(* the job ends: what the page sees of a run is only a job that is started *)
(* and cancelled by it, counts delivered messages once, and ends once.     *)
ImplementsJob == Job!Spec

(* Every run ends, whatever the brokers do or fail to do. *)
RunEnds == status = "running" ~> status \in Final

(* A cancel that is clicked in time is honoured. *)
CancelIsHonoured ==
  (status = "running" /\ cancelRequested) ~> status = "cancelled"
=============================================================================
