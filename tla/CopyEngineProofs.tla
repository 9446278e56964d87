-------------------------- MODULE CopyEngineProofs --------------------------
(***************************************************************************)
(* Proofs about CopyEngine, for every size of the snapshot, every pair of  *)
(* water marks and every set of run parameters.                            *)
(*                                                                         *)
(* First the accounting of a run (IInv: types, the cursor, what a publish  *)
(* that resolved means, the counters).  From it, what a run never does:    *)
(* losing a message, publishing outside the verified range, standing       *)
(* still, overrunning its window, or changing a report.  Last, that every  *)
(* step of the engine is one of the job it promises its page (CopyJob),    *)
(* fairness apart.                                                         *)
(***************************************************************************)
EXTENDS CopyEngine, FiniteSetTheorems, TLAPS

(* Messages are handed over upwards: above the cursor nothing has been     *)
(* published yet.                                                          *)
Fresh ==
  \A m \in Ids : stage[m] # "unsent" \/ broker[m] # "none" => m <= cursor

(* A publish that counts as successful was acknowledged by the broker. *)
Answered ==
  \A m \in Ids : stage[m] \in {"resolved", "confirmed"} => broker[m] = "acked"

(* The counters are the sizes of the sets they stand for. *)
Counted ==
  /\ inFlight = Cardinality(Awaiting)
  /\ copied = Cardinality(Confirmed)

IInv == TypeOK /\ Fresh /\ Answered /\ Counted

(* Which publishes an assignment of stages leaves awaited and confirmed. *)
AwaitingIn(st)  == {m \in Ids : st[m] \in {"pending", "resolved", "rejected"}}
ConfirmedIn(st) == {m \in Ids : st[m] = "confirmed"}

-----------------------------------------------------------------------------
(* Sets of messages are finite, so counting them is arithmetic. *)
LEMMA MessageSets ==
  ASSUME NEW S, S \subseteq Ids
  PROVE  IsFiniteSet(S) /\ Cardinality(S) \in Nat
<1>1. IsFiniteSet(Ids)
  BY SizesAssumption, FS_Interval DEF Ids
<1>2. IsFiniteSet(S)
  BY <1>1, FS_Subset
<1> QED BY <1>2, FS_CardinalityType

LEMMA OneMore ==
  ASSUME NEW S, S \subseteq Ids, NEW m \in Ids, m \notin S
  PROVE  Cardinality(S \cup {m}) = Cardinality(S) + 1
BY MessageSets, FS_AddElement

LEMMA OneLess ==
  ASSUME NEW S, S \subseteq Ids, NEW m \in S
  PROVE  Cardinality(S \ {m}) = Cardinality(S) - 1 /\ Cardinality(S) > 0
<1>1. IsFiniteSet(S) /\ Cardinality(S) \in Nat
  BY MessageSets
<1>2. Cardinality(S \ {m}) = Cardinality(S) - 1
  BY <1>1, FS_RemoveElement
<1>3. Cardinality(S \ {m}) \in Nat
  BY MessageSets
<1> QED BY <1>1, <1>2, <1>3

(* A publish that is awaited is counted. *)
LEMMA AwaitedIsCounted ==
  ASSUME Counted, NEW m \in Awaiting
  PROVE  inFlight > 0
BY OneLess DEF Counted, Awaiting

LEMMA InitInv == Init => IInv
<1> SUFFICES ASSUME Init PROVE IInv
  OBVIOUS
<1>1. run \in RunParams
  BY RunsAssumption DEF Init
<1>2. TypeOK
  <2>1. source \subseteq Ids /\ top \in 0 .. MaxId /\ cursor \in 0 .. MaxId
    BY SizesAssumption DEF Init, Snapshot, Ids
  <2>2. stage \in [Ids -> Stages] /\ broker \in [Ids -> BrokerStates]
    BY DEF Init, Stages, BrokerStates
  <2> QED BY <1>1, <2>1, <2>2 DEF Init, TypeOK, Off, Errors
<1>3. Fresh /\ Answered
  BY DEF Init, Fresh, Answered
<1>4. Awaiting = {} /\ Confirmed = {}
  BY DEF Init, Awaiting, Confirmed
<1>5. Counted
  BY <1>4, FS_EmptySet DEF Init, Counted
<1> QED BY <1>2, <1>3, <1>5 DEF IInv

-----------------------------------------------------------------------------
(* What a stop does to the publishes and to the types. *)
LEMMA RejectKeepsSets ==
  ASSUME NEW st \in [Ids -> Stages]
  PROVE  /\ RejectAllPending(st) \in [Ids -> Stages]
         /\ AwaitingIn(RejectAllPending(st)) = AwaitingIn(st)
         /\ ConfirmedIn(RejectAllPending(st)) = ConfirmedIn(st)
BY DEF RejectAllPending, AwaitingIn, ConfirmedIn, Stages

LEMMA TriggerStopEffect ==
  ASSUME TypeOK, NEW reason \in StopReasons, NEW st \in [Ids -> Stages],
         TriggerStop(reason, st)
  PROVE  /\ stopReason' \in StopReasons
         /\ browserDisconnected' \in BOOLEAN
         /\ cancelRejectIssued' \in BOOLEAN
         /\ drain' \in {"none", "queued", "polling", "done"}
         /\ idleTimer' \in {Off} \cup 0 .. MaxId
         /\ stage' \in {st, RejectAllPending(st)}
         /\ stage' \in [Ids -> Stages]
BY RejectKeepsSets DEF TypeOK, TriggerStop, stopVars

(* Phase 2 produces a final status and a known error. *)
LEMMA FinishEffect ==
  ASSUME TypeOK, EvaluateAndFinish
  PROVE  /\ status' \in Final /\ lastError' \in Errors
         /\ browserDisconnected' \in BOOLEAN
         /\ drain' = "done" /\ completions' = completions + 1
<1>1. Outcome[1] \in Final
  BY Zenon DEF Outcome, Final
<1>2. Outcome[2] \in Errors
  BY Zenon DEF Outcome, Errors, TypeOK
<1> QED BY <1>1, <1>2 DEF EvaluateAndFinish

-----------------------------------------------------------------------------
(* A step that publishes nothing and settles nothing but by rejection. *)
LEMMA KeepsPublishes ==
  ASSUME IInv, stage' \in {stage, RejectAllPending(stage)}, broker' = broker,
         UNCHANGED <<inFlight, copied>>, cursor' \in Nat, cursor <= cursor'
  PROVE  Fresh' /\ Answered' /\ Counted'
<1>1. stage \in [Ids -> Stages] /\ cursor \in Nat
  BY DEF IInv, TypeOK
<1>2. Awaiting' = Awaiting /\ Confirmed' = Confirmed
  BY <1>1, RejectKeepsSets DEF Awaiting, Confirmed, AwaitingIn, ConfirmedIn
<1>3. Counted'
  BY <1>2 DEF IInv, Counted
<1>4. Fresh'
  <2>1. \A m \in Ids : stage'[m] # "unsent" <=> stage[m] # "unsent"
    BY <1>1 DEF RejectAllPending
  <2> QED BY <1>1, <2>1 DEF IInv, Fresh, Ids
<1>5. Answered'
  BY <1>1 DEF IInv, Answered, RejectAllPending
<1> QED BY <1>3, <1>4, <1>5

-----------------------------------------------------------------------------
(* The steps that publish, settle or finish one publish. *)

LEMMA PublishStep ==
  ASSUME IInv, NEW m \in Ids, PublishMessage(m)
  PROVE  IInv'
<1>1. /\ stage[m] = "unsent" /\ broker[m] = "none"
      /\ cursor' = m /\ cursor < m /\ cursor \in Nat
  BY DEF IInv, TypeOK, Fresh, PublishMessage, TakeMessage, Arrives, Ids
<1>2. PICK a \in {"pending", "rejected"} : stage' = [stage EXCEPT ![m] = a]
  BY DEF PublishMessage
<1>3. broker' \in {broker, [broker EXCEPT ![m] = "sent"]}
  BY DEF PublishMessage
<1>4. stage \in [Ids -> Stages] /\ broker \in [Ids -> BrokerStates]
  BY DEF IInv, TypeOK
<1>5. Awaiting' = Awaiting \cup {m} /\ m \notin Awaiting /\ Confirmed' = Confirmed
  BY <1>1, <1>2, <1>4 DEF Awaiting, Confirmed
<1>6. Counted'
  <2>1. inFlight' = inFlight + 1 /\ copied' = copied
    BY DEF PublishMessage, TakeMessage, Arrives
  <2>2. Cardinality(Awaiting \cup {m}) = Cardinality(Awaiting) + 1
    BY <1>5, OneMore DEF Awaiting
  <2> QED BY <1>5, <2>1, <2>2 DEF IInv, Counted
<1>7. Fresh'
  <2>1. ASSUME NEW k \in Ids, k # m
        PROVE  stage'[k] = stage[k] /\ broker'[k] = broker[k]
    BY <1>2, <1>3, <1>4, <2>1
  <2> QED BY <1>1, <2>1 DEF IInv, Fresh, Ids
<1>8. Answered'
  BY <1>1, <1>2, <1>3, <1>4 DEF IInv, Answered
<1>9. TypeOK'
  <2>1. stage' \in [Ids -> Stages] /\ broker' \in [Ids -> BrokerStates]
    BY <1>2, <1>3, <1>4 DEF Stages, BrokerStates
  <2>2. idleTimer' \in {Off} \cup 0 .. MaxId /\ cursor' \in 0 .. MaxId
        /\ inFlight' \in Nat
    BY <1>1, SizesAssumption DEF PublishMessage, IInv, TypeOK, Ids
  <2> QED
    BY <2>1, <2>2
    DEF IInv, TypeOK, PublishMessage, TakeMessage, Arrives, stopVars
<1> QED BY <1>6, <1>7, <1>8, <1>9 DEF IInv

LEMMA ThrowStep ==
  ASSUME IInv, NEW m \in Ids, PublishThrows(m)
  PROVE  IInv'
<1>1. /\ stage[m] = "unsent" /\ broker[m] = "none"
      /\ cursor' = m /\ cursor < m /\ cursor \in Nat
  BY DEF IInv, TypeOK, Fresh, PublishThrows, TakeMessage, Arrives, Ids
<1>2. stage' = [stage EXCEPT ![m] = "threw"] /\ broker' = broker
  BY DEF PublishThrows
<1>3. stage \in [Ids -> Stages]
  BY DEF IInv, TypeOK
<1>4. Awaiting' = Awaiting /\ Confirmed' = Confirmed
  BY <1>1, <1>2, <1>3 DEF Awaiting, Confirmed
<1>5. Counted'
  BY <1>4 DEF IInv, Counted, PublishThrows, TakeMessage, Arrives
<1>6. Fresh' /\ Answered'
  BY <1>1, <1>2, <1>3 DEF IInv, Fresh, Answered, Ids
<1>7. TypeOK'
  <2>1. stage' \in [Ids -> Stages]
    BY <1>2, <1>3 DEF Stages
  <2>2. idleTimer' \in {Off} \cup 0 .. MaxId /\ cursor' \in 0 .. MaxId
    BY <1>1, SizesAssumption DEF PublishThrows, IInv, TypeOK, Ids
  <2>3. browserPaused' \in BOOLEAN
    BY DEF PublishThrows, StaysPaused
  <2> QED
    BY <1>2, <2>1, <2>2, <2>3
    DEF IInv, TypeOK, PublishThrows, TakeMessage, Arrives, stopVars
<1> QED BY <1>5, <1>6, <1>7 DEF IInv

LEMMA FailedStep ==
  ASSUME IInv, NEW m \in Ids, PublishFailed(m)
  PROVE  IInv'
<1> DEFINE st == [stage EXCEPT ![m] = "failed"]
<1>1. stage \in [Ids -> Stages] /\ stage[m] = "rejected" /\ broker' = broker
  BY DEF IInv, TypeOK, PublishFailed
<1>2. st \in [Ids -> Stages]
  BY <1>1 DEF Stages
<1>3. TriggerStop("publish-error", st) /\ "publish-error" \in StopReasons
  BY DEF PublishFailed, StopReasons
<1>4. /\ stopReason' \in StopReasons /\ browserDisconnected' \in BOOLEAN
      /\ cancelRejectIssued' \in BOOLEAN
      /\ drain' \in {"none", "queued", "polling", "done"}
      /\ idleTimer' \in {Off} \cup 0 .. MaxId
      /\ stage' \in {st, RejectAllPending(st)} /\ stage' \in [Ids -> Stages]
  BY <1>2, <1>3, TriggerStopEffect DEF IInv
<1>5. AwaitingIn(stage') = AwaitingIn(st) /\ ConfirmedIn(stage') = ConfirmedIn(st)
  BY <1>2, <1>4, RejectKeepsSets
<1>6. /\ AwaitingIn(st) = Awaiting \ {m} /\ m \in Awaiting
      /\ ConfirmedIn(st) = Confirmed
  BY <1>1 DEF AwaitingIn, ConfirmedIn, Awaiting, Confirmed
<1>7. Awaiting' = Awaiting \ {m} /\ Confirmed' = Confirmed
  BY <1>5, <1>6 DEF AwaitingIn, ConfirmedIn, Awaiting, Confirmed
<1>8. inFlight' = inFlight - 1 /\ copied' = copied
  BY DEF PublishFailed
<1>9. Counted'
  <2>1. Cardinality(Awaiting \ {m}) = Cardinality(Awaiting) - 1
    BY <1>6, OneLess DEF Awaiting
  <2> QED BY <1>7, <1>8, <2>1 DEF IInv, Counted
<1>10. Fresh'
  BY <1>1, <1>4 DEF IInv, Fresh, PublishFailed, flowVars, RejectAllPending
<1>11. Answered'
  BY <1>1, <1>4 DEF IInv, Answered, RejectAllPending
<1>12. TypeOK'
  <2>1. inFlight' \in Nat
    BY <1>6, <1>8, AwaitedIsCounted DEF IInv, TypeOK
  <2>2. lastError' \in Errors
    BY DEF PublishFailed, IInv, TypeOK, Errors
  <2> QED
    BY <1>4, <2>1, <2>2 DEF IInv, TypeOK, PublishFailed, messageVars, flowVars
<1> QED BY <1>9, <1>10, <1>11, <1>12 DEF IInv

LEMMA ConfirmedStep ==
  ASSUME IInv, NEW m \in Ids, PublishConfirmed(m)
  PROVE  IInv'
<1> DEFINE st == [stage EXCEPT ![m] = "confirmed"]
<1>1. stage \in [Ids -> Stages] /\ stage[m] = "resolved" /\ broker' = broker
  BY DEF IInv, TypeOK, PublishConfirmed
<1>2. st \in [Ids -> Stages]
  BY <1>1 DEF Stages
<1>3. /\ stopReason' \in StopReasons \cup {"none"}
      /\ browserDisconnected' \in BOOLEAN
      /\ cancelRejectIssued' \in BOOLEAN /\ browserPaused' \in BOOLEAN
      /\ drain' \in {"none", "queued", "polling", "done"}
      /\ idleTimer' \in {Off} \cup 0 .. MaxId
      /\ stage' \in {st, RejectAllPending(st)} /\ stage' \in [Ids -> Stages]
  <2>1. CASE Stopping
    BY <1>2, <2>1 DEF PublishConfirmed, stopVars, IInv, TypeOK
  <2>2. CASE ~Stopping /\ m = run.newest
    <3>1. TriggerStop("reached-max", st) /\ browserPaused' = browserPaused
      BY <2>2 DEF PublishConfirmed
    <3> QED
      BY <1>2, <3>1, TriggerStopEffect DEF IInv, TypeOK, StopReasons
  <2>3. CASE ~Stopping /\ m # run.newest /\ cancelRequested
    <3>1. TriggerStop("cancel", st) /\ browserPaused' = browserPaused
      BY <2>3 DEF PublishConfirmed
    <3> QED
      BY <1>2, <3>1, TriggerStopEffect DEF IInv, TypeOK, StopReasons
  <2>4. CASE ~Stopping /\ m # run.newest /\ ~cancelRequested
    <3>1. ResumeDelivery(st)
      BY <2>4 DEF PublishConfirmed
    <3> QED
      BY <1>2, <3>1 DEF ResumeDelivery, StaysPaused, IInv, TypeOK, stopVars
  <2> QED BY <2>1, <2>2, <2>3, <2>4 DEF IInv, TypeOK
<1>4. AwaitingIn(stage') = AwaitingIn(st) /\ ConfirmedIn(stage') = ConfirmedIn(st)
  BY <1>2, <1>3, RejectKeepsSets
<1>5. /\ AwaitingIn(st) = Awaiting \ {m} /\ m \in Awaiting
      /\ ConfirmedIn(st) = Confirmed \cup {m} /\ m \notin Confirmed
  BY <1>1 DEF AwaitingIn, ConfirmedIn, Awaiting, Confirmed
<1>6. Awaiting' = Awaiting \ {m} /\ Confirmed' = Confirmed \cup {m}
  BY <1>4, <1>5 DEF AwaitingIn, ConfirmedIn, Awaiting, Confirmed
<1>7. inFlight' = inFlight - 1 /\ copied' = copied + 1
  BY DEF PublishConfirmed
<1>8. Counted'
  <2>1. Cardinality(Awaiting \ {m}) = Cardinality(Awaiting) - 1
    BY <1>5, OneLess DEF Awaiting
  <2>2. Cardinality(Confirmed \cup {m}) = Cardinality(Confirmed) + 1
    BY <1>5, OneMore DEF Confirmed
  <2> QED BY <1>6, <1>7, <2>1, <2>2 DEF IInv, Counted
<1>9. Fresh'
  <2>1. \A k \in Ids : stage'[k] # "unsent" <=> stage[k] # "unsent"
    BY <1>1, <1>2, <1>3 DEF RejectAllPending
  <2> QED BY <1>1, <2>1 DEF IInv, Fresh, PublishConfirmed
<1>10. Answered'
  <2>1. \A k \in Ids : stage'[k] \in {"resolved", "confirmed"} =>
                         stage[k] \in {"resolved", "confirmed"}
    BY <1>1, <1>2, <1>3 DEF RejectAllPending
  <2> QED BY <1>1, <2>1 DEF IInv, Answered
<1>11. TypeOK'
  <2>1. inFlight' \in Nat /\ copied' \in Nat
    BY <1>5, <1>7, AwaitedIsCounted DEF IInv, TypeOK
  <2>2. source' \subseteq Ids /\ removed' \subseteq Ids
    BY DEF PublishConfirmed, RemoveFromSource, IInv, TypeOK
  <2> QED
    BY <1>3, <2>1, <2>2 DEF IInv, TypeOK, PublishConfirmed, messageVars
<1> QED BY <1>8, <1>9, <1>10, <1>11 DEF IInv

(* An answer, or the timeout, settles a pending publish or is ignored. *)
LEMMA SettleStep ==
  ASSUME IInv, NEW m \in Ids, AckTimeout(m) \/ AckArrives(m) \/ RejectArrives(m)
  PROVE  IInv'
<1>1. /\ stage \in [Ids -> Stages] /\ broker \in [Ids -> BrokerStates]
      /\ OnlyPublisherMoves /\ UNCHANGED disposed
  BY DEF IInv, TypeOK, AckTimeout, AckArrives, RejectArrives
<1>2. PICK b \in BrokerStates :
        /\ broker' = [broker EXCEPT ![m] = b]
        /\ broker[m] # "none" \/ b = broker[m]
        /\ broker[m] = "acked" => b = "acked"
        /\ \/ Settle(m, "rejected")
           \/ Settle(m, "resolved") /\ b = "acked"
  <2>1. CASE AckTimeout(m)
    BY <1>1, <2>1 DEF AckTimeout
  <2>2. CASE AckArrives(m)
    BY <1>1, <2>2 DEF AckArrives, BrokerStates
  <2>3. CASE RejectArrives(m)
    BY <1>1, <2>3 DEF RejectArrives, BrokerStates
  <2> QED BY <2>1, <2>2, <2>3
<1>3. PICK a \in {"rejected", "resolved"} :
        /\ stage' = IF stage[m] = "pending" THEN [stage EXCEPT ![m] = a] ELSE stage
        /\ a = "resolved" => broker'[m] = "acked"
  BY <1>1, <1>2 DEF Settle
<1>4. stage' \in [Ids -> Stages] /\ broker' \in [Ids -> BrokerStates]
  BY <1>1, <1>2, <1>3 DEF Stages
<1>5. Awaiting' = Awaiting /\ Confirmed' = Confirmed
  BY <1>1, <1>3 DEF Awaiting, Confirmed
<1>6. UNCHANGED <<inFlight, copied, cursor>>
  BY <1>1 DEF OnlyPublisherMoves, jobVars, flowVars
<1>7. Counted'
  BY <1>5, <1>6 DEF IInv, Counted
<1>8. Fresh'
  <2>1. \A k \in Ids : /\ stage'[k] # "unsent" => stage[k] # "unsent"
                       /\ broker'[k] # "none" => broker[k] # "none"
    BY <1>1, <1>2, <1>3
  <2> QED BY <1>6, <2>1 DEF IInv, Fresh
<1>9. Answered'
  <2> SUFFICES ASSUME NEW k \in Ids, stage'[k] \in {"resolved", "confirmed"}
               PROVE  broker'[k] = "acked"
    BY DEF Answered
  <2>1. stage[k] \in {"resolved", "confirmed"} => broker[k] = "acked"
    BY DEF IInv, Answered
  <2>2. CASE k = m
    BY <1>1, <1>2, <1>3, <2>1, <2>2
  <2>3. CASE k # m
    BY <1>1, <1>2, <1>3, <2>1, <2>3
  <2> QED BY <2>2, <2>3
<1>10. TypeOK'
  BY <1>1, <1>4
  DEF IInv, TypeOK, OnlyPublisherMoves, jobVars, stopVars, messageVars, flowVars
<1> QED BY <1>7, <1>8, <1>9, <1>10 DEF IInv

-----------------------------------------------------------------------------
(* The steps that take no message further than the handler's gates. *)

(* Every way to leave the MESSAGE handler before publisher.send. *)
LEMMA GateStep ==
  ASSUME IInv, NEW m \in Ids,
         \/ IgnoreMessage(m) \/ MessageSeesCancel(m)
         \/ MessageDrifts(m) \/ MessagePastNewest(m)
  PROVE  IInv'
<1>1. Arrives(m) /\ broker' = broker /\ inFlight' = inFlight
      /\ browserPaused' = browserPaused /\ lastError' = lastError
      /\ seenMaxMsgId' = seenMaxMsgId /\ firstMessageSeen' \in BOOLEAN
  BY DEF IgnoreMessage, MessageSeesCancel, MessageDrifts, MessagePastNewest,
         IInv, TypeOK, messageVars
<1>2. \/ UNCHANGED <<stopVars, idleTimer, stage>>
      \/ \E reason \in StopReasons : TriggerStop(reason, stage)
  <2>1. {"cancel", "source-drift", "max-consumed"} \subseteq StopReasons
    BY DEF StopReasons
  <2> QED
    BY <2>1 DEF IgnoreMessage, MessageSeesCancel, MessageDrifts, MessagePastNewest
<1>3. stage \in [Ids -> Stages] /\ cursor \in 0 .. MaxId
  BY DEF IInv, TypeOK
<1>4. /\ stopReason' \in StopReasons \cup {"none"}
      /\ browserDisconnected' \in BOOLEAN /\ cancelRejectIssued' \in BOOLEAN
      /\ drain' \in {"none", "queued", "polling", "done"}
      /\ idleTimer' \in {Off} \cup 0 .. MaxId
      /\ stage' \in {stage, RejectAllPending(stage)} /\ stage' \in [Ids -> Stages]
  <2>1. CASE UNCHANGED <<stopVars, idleTimer, stage>>
    BY <2>1 DEF IInv, TypeOK, stopVars
  <2>2. CASE \E reason \in StopReasons : TriggerStop(reason, stage)
    BY <1>3, <2>2, TriggerStopEffect DEF IInv
  <2> QED BY <1>2, <2>1, <2>2
<1>5. /\ cursor' \in 0 .. MaxId /\ cursor <= cursor' /\ cursor' \in Nat
      /\ UNCHANGED <<run, flow, source, top, removed, disposed, status, copied,
                     cancelRequested, completions>>
  BY <1>1, <1>3, SizesAssumption DEF Arrives, Ids
<1>6. TypeOK'
  BY <1>1, <1>4, <1>5 DEF IInv, TypeOK
<1>7. Fresh' /\ Answered' /\ Counted'
  BY <1>1, <1>4, <1>5, KeepsPublishes
<1> QED BY <1>6, <1>7 DEF IInv

(* Starting, stopping and finishing. *)
LEMMA ControlStep ==
  ASSUME IInv,
         \/ RunCopyJob \/ BrowserUp \/ BrowserError \/ IdleTimeout \/ Cancel
         \/ DrainAndFinish \/ DrainPoll
  PROVE  IInv'
<1>1. stage \in [Ids -> Stages] /\ cursor \in 0 .. MaxId /\ cursor \in Nat
  BY DEF IInv, TypeOK
<1>2. /\ UNCHANGED <<run, copied, inFlight, browserPaused, messageVars, disposed,
                     source, cursor, top, removed, broker>>
  <2>1. UNCHANGED copied
    BY DEF RunCopyJob, BrowserUp, BrowserError, IdleTimeout, Cancel, DrainAndFinish,
           DrainPoll, EvaluateAndFinish, jobVars
  <2> QED
    BY <2>1 DEF RunCopyJob, BrowserUp, BrowserError, IdleTimeout, Cancel,
                DrainAndFinish, DrainPoll, flowVars
<1>3. /\ stopReason' \in StopReasons \cup {"none"}
      /\ browserDisconnected' \in BOOLEAN /\ cancelRejectIssued' \in BOOLEAN
      /\ drain' \in {"none", "queued", "polling", "done"}
      /\ idleTimer' \in {Off} \cup 0 .. MaxId
      /\ stage' \in {stage, RejectAllPending(stage)} /\ stage' \in [Ids -> Stages]
      /\ status' \in {"none", "running"} \cup Final /\ lastError' \in Errors
      /\ cancelRequested' \in BOOLEAN /\ completions' \in Nat
      /\ flow' \in {"none", "connecting", "up", "dead"}
  <2> USE <1>1
  <2>1. CASE BrowserUp \/ Cancel
    BY <2>1 DEF BrowserUp, Cancel, IInv, TypeOK, jobVars, stopVars, flowVars
  <2>2. CASE IdleTimeout
    <3>1. \/ idleTimer' = Off /\ UNCHANGED <<stopVars, stage>>
          \/ TriggerStop("idle", stage) /\ "idle" \in StopReasons
      BY <2>2 DEF IdleTimeout, StopReasons
    <3>2. UNCHANGED <<jobVars, completions, flow>>
      BY <2>2 DEF IdleTimeout, flowVars
    <3> QED
      BY <3>1, <3>2, TriggerStopEffect DEF IInv, TypeOK, jobVars, stopVars
  <2>3. CASE BrowserError
    <3>1. TriggerStop("browser-error", stage) /\ "browser-error" \in StopReasons
      BY <2>3 DEF BrowserError, StopReasons
    <3> QED
      BY <2>3, <3>1, TriggerStopEffect DEF BrowserError, IInv, TypeOK, Errors
  <2>4. CASE RunCopyJob
    <3>1. /\ status' = "running" /\ UNCHANGED <<cancelRequested, completions>>
          /\ lastError' \in Errors /\ flow' \in {"none", "connecting", "up", "dead"}
      BY <2>4 DEF RunCopyJob, IInv, TypeOK, Errors
    <3>2. \/ /\ stopReason' \in StopReasons /\ drain' = "queued"
             /\ UNCHANGED <<idleTimer, stage, browserDisconnected, cancelRejectIssued>>
          \/ idleTimer' = cursor /\ UNCHANGED <<stage, stopVars>>
          \/ TriggerStop("browser-error", stage) /\ "browser-error" \in StopReasons
      BY <2>4 DEF RunCopyJob, StopReasons
    <3> QED BY <3>1, <3>2, TriggerStopEffect DEF IInv, TypeOK, stopVars
  <2>5. CASE DrainAndFinish \/ DrainPoll
    <3>1. UNCHANGED <<stopReason, idleTimer, flow, cancelRequested>>
      BY <2>5 DEF DrainAndFinish, DrainPoll, EvaluateAndFinish, jobVars, flowVars
    <3>2. /\ cancelRejectIssued' \in BOOLEAN
          /\ stage' \in {stage, RejectAllPending(stage)}
      BY <2>5 DEF DrainAndFinish, DrainPoll, IInv, TypeOK
    <3>3. \/ EvaluateAndFinish
          \/ /\ drain' \in {drain, "polling"}
             /\ UNCHANGED <<jobVars, browserDisconnected, completions>>
      BY <2>5 DEF DrainAndFinish, DrainPoll
    <3>4. stage' \in [Ids -> Stages]
      BY <3>2, RejectKeepsSets
    <3>5. /\ drain' \in {"none", "queued", "polling", "done"}
          /\ status' \in {"none", "running"} \cup Final /\ lastError' \in Errors
          /\ browserDisconnected' \in BOOLEAN /\ completions' \in Nat
      BY <3>3, FinishEffect DEF IInv, TypeOK, jobVars
    <3> QED BY <3>1, <3>2, <3>4, <3>5 DEF IInv, TypeOK
  <2> QED BY <2>1, <2>2, <2>3, <2>4, <2>5
<1>4. TypeOK'
  BY <1>2, <1>3 DEF IInv, TypeOK, messageVars
<1>5. Fresh' /\ Answered' /\ Counted'
  BY <1>1, <1>2, <1>3, KeepsPublishes
<1> QED BY <1>4, <1>5 DEF IInv

LEMMA DisposeStep ==
  ASSUME IInv, Dispose
  PROVE  IInv'
<1>1. stage \in [Ids -> Stages] /\ stage' = RejectAllPending(stage) /\ cursor \in Nat
  BY DEF IInv, TypeOK, Dispose
<1>2. stage' \in [Ids -> Stages]
  BY <1>1, RejectKeepsSets
<1>3. /\ UNCHANGED <<run, jobVars, stopVars, messageVars, inFlight, idleTimer,
                     browserPaused, completions, flowVars, broker>>
      /\ disposed' = TRUE
  BY DEF Dispose, OnlyPublisherMoves
<1>4. TypeOK'
  BY <1>2, <1>3
  DEF IInv, TypeOK, jobVars, stopVars, messageVars, flowVars
<1>5. UNCHANGED <<inFlight, copied, cursor, broker>>
  BY <1>3 DEF jobVars, flowVars
<1>6. Fresh' /\ Answered' /\ Counted'
  BY <1>1, <1>5, KeepsPublishes
<1> QED BY <1>4, <1>6 DEF IInv

(* The brokers and the other clients. *)
LEMMA EnvironmentStep ==
  ASSUME IInv, Environment
  PROVE  IInv'
<1>1. OnlyBrokerMoves
  BY DEF Environment, OtherPublishes, BrokerAccepts, BrokerRefuses, OtherConsumes
<1>2. UNCHANGED <<inFlight, copied, cursor, stage>>
  BY <1>1 DEF OnlyBrokerMoves, jobVars
<1>3. source' \subseteq Ids /\ top' \in 0 .. MaxId
  <2>1. source \subseteq Ids /\ top \in 0 .. MaxId /\ MaxId \in Nat
    BY SizesAssumption DEF IInv, TypeOK
  <2>2. \/ top < MaxId /\ top' = top + 1 /\ source' = source \cup {top + 1}
        \/ top' = top /\ source' \subseteq source
    BY DEF Environment, OtherPublishes, BrokerAccepts, BrokerRefuses, OtherConsumes
  <2>3. top < MaxId => top + 1 \in Ids
    BY <2>1 DEF Ids
  <2>4. top < MaxId => top + 1 \in 0 .. MaxId
    BY <2>1
  <2>5. source' \subseteq Ids
    BY <2>1, <2>2, <2>3
  <2>6. top' \in 0 .. MaxId
    BY <2>1, <2>2, <2>4
  <2> QED BY <2>5, <2>6
<1>4. \/ broker' = broker
      \/ \E m \in Ids, b \in {"accepted", "refused"} :
           broker' = [broker EXCEPT ![m] = b] /\ broker[m] = "sent"
  BY DEF Environment, OtherPublishes, BrokerAccepts, BrokerRefuses, OtherConsumes
<1>5. broker \in [Ids -> BrokerStates] /\ broker' \in [Ids -> BrokerStates]
  BY <1>4 DEF IInv, TypeOK, BrokerStates
<1>6. \A k \in Ids : /\ broker'[k] # "none" => broker[k] # "none"
                     /\ broker[k] = "acked" => broker'[k] = "acked"
  BY <1>4, <1>5
<1>7. Fresh' /\ Answered'
  BY <1>2, <1>6 DEF IInv, Fresh, Answered
<1>8. Counted'
  BY <1>2 DEF IInv, Counted, Awaiting, Confirmed
<1>9. TypeOK'
  BY <1>1, <1>3, <1>5
  DEF IInv, TypeOK, OnlyBrokerMoves, jobVars, stopVars, messageVars
<1> QED BY <1>7, <1>8, <1>9 DEF IInv

LEMMA StutterStep ==
  ASSUME IInv, UNCHANGED vars
  PROVE  IInv'
BY DEF vars, jobVars, stopVars, messageVars, flowVars, IInv, TypeOK, Fresh,
       Answered, Counted, Awaiting, Confirmed

LEMMA StepInv == IInv /\ [Next]_vars => IInv'
<1> SUFFICES ASSUME IInv, [Next]_vars PROVE IInv'
  OBVIOUS
<1>1. CASE RunCopyJob \/ BrowserUp \/ BrowserError \/ IdleTimeout \/ Cancel
           \/ DrainAndFinish \/ DrainPoll
  BY <1>1, ControlStep
<1>2. CASE Dispose
  BY <1>2, DisposeStep
<1>3. ASSUME NEW m \in Ids, Message(m)
      PROVE  IInv'
  BY <1>3, GateStep, PublishStep, ThrowStep DEF Message
<1>4. ASSUME NEW m \in Ids, Continuation(m)
      PROVE  IInv'
  BY <1>4, FailedStep, ConfirmedStep DEF Continuation
<1>5. ASSUME NEW m \in Ids, AckTimeout(m) \/ AckArrives(m) \/ RejectArrives(m)
      PROVE  IInv'
  BY <1>5, SettleStep
<1>6. CASE Environment
  BY <1>6, EnvironmentStep
<1>7. CASE UNCHANGED vars
  BY <1>7, StutterStep
<1> QED BY <1>1, <1>2, <1>3, <1>4, <1>5, <1>6, <1>7 DEF Next

-----------------------------------------------------------------------------
(* Every reachable state satisfies the inductive invariant. *)
THEOREM Invariant == Spec => []IInv
<1>1. Init => IInv
  BY InitInv
<1>2. IInv /\ [Next]_vars => IInv'
  BY StepInv
<1> QED BY <1>1, <1>2, PTL DEF Spec

(* Every variable keeps its type, for any snapshot and any water marks: in *)
(* particular neither counter of runCopyJob ever goes below zero.          *)
THEOREM TypeCorrect == Spec => []TypeOK
<1>1. IInv => TypeOK
  BY DEF IInv
<1> QED BY <1>1, Invariant, PTL

(* The drain waits for exactly what is outstanding, and what is reported   *)
(* as copied has arrived, for any number of messages (service-copy.ts      *)
(* 303-316 and 475-510).                                                   *)
THEOREM CountersCorrect == Spec => []CountersAgree
<1>1. IInv => CountersAgree
  BY DEF IInv, Answered, Counted, CountersAgree, Confirmed, Delivered
<1> QED BY <1>1, Invariant, PTL

-----------------------------------------------------------------------------
(* What a run never does.                                                  *)

(* A message is removed only after its publish was confirmed. *)
Removal ==
  /\ removed \subseteq Confirmed
  /\ run.mode = "copy" => removed = {}

-----------------------------------------------------------------------------
(* No step takes back what became of a publish. *)
LEMMA RejectGrows ==
  ASSUME NEW st \in [Ids -> Stages], NEW k \in Ids
  PROVE  /\ st[k] = "confirmed" <=> RejectAllPending(st)[k] = "confirmed"
         /\ st[k] # "unsent" <=> RejectAllPending(st)[k] # "unsent"
BY DEF RejectAllPending

LEMMA PublishEffect ==
  ASSUME IInv, NEW m \in Ids, PublishMessage(m) \/ PublishThrows(m)
  PROVE  /\ run' = run /\ removed' = removed
         /\ Confirmed' = Confirmed /\ Published' = Published \cup {m}
<1>1. UNCHANGED <<run, removed>>
  BY DEF PublishMessage, PublishThrows, TakeMessage, Arrives
<1>2. PICK a \in {"pending", "rejected", "threw"} : stage' = [stage EXCEPT ![m] = a]
  BY DEF PublishMessage, PublishThrows
<1>3. stage \in [Ids -> Stages] /\ stage[m] = "unsent"
  BY DEF PublishMessage, PublishThrows, TakeMessage, Arrives, IInv, TypeOK, Fresh, Ids
<1> QED BY <1>1, <1>2, <1>3 DEF Confirmed, Published

LEMMA StagesGrow ==
  ASSUME IInv, [Next]_vars
  PROVE  /\ run' = run
         /\ \/ Published' = Published
            \/ \E m \in Ids : /\ PublishMessage(m) \/ PublishThrows(m)
                              /\ Published' = Published \cup {m}
         /\ \/ Confirmed' = Confirmed /\ removed' = removed
            \/ \E m \in Ids : /\ PublishConfirmed(m)
                              /\ Confirmed' = Confirmed \cup {m}
                              /\ \/ removed' = removed
                                 \/ run.mode = "move" /\ removed' = removed \cup {m}
<1>1. stage \in [Ids -> Stages]
  BY DEF IInv, TypeOK
<1>2. ASSUME stage' \in {stage, RejectAllPending(stage)},
             UNCHANGED <<run, removed>>
      PROVE  /\ run' = run /\ Confirmed' = Confirmed
             /\ Published' = Published /\ removed' = removed
  BY <1>1, <1>2, RejectGrows DEF Confirmed, Published
<1>3. CASE RunCopyJob \/ BrowserUp \/ BrowserError \/ IdleTimeout \/ Cancel
           \/ DrainAndFinish \/ DrainPoll \/ Dispose
  <2>1. stage' \in {stage, RejectAllPending(stage)}
    BY <1>3 DEF RunCopyJob, BrowserUp, BrowserError, IdleTimeout, Cancel,
                DrainAndFinish, DrainPoll, Dispose, TriggerStop
  <2>2. UNCHANGED <<run, removed>>
    BY <1>3 DEF RunCopyJob, BrowserUp, BrowserError, IdleTimeout, Cancel,
                DrainAndFinish, DrainPoll, Dispose, OnlyPublisherMoves, flowVars
  <2> QED BY <1>2, <2>1, <2>2
<1>4. ASSUME NEW m \in Ids,
             \/ IgnoreMessage(m) \/ MessageSeesCancel(m)
             \/ MessageDrifts(m) \/ MessagePastNewest(m)
      PROVE  stage' \in {stage, RejectAllPending(stage)} /\ UNCHANGED <<run, removed>>
  BY <1>4 DEF IgnoreMessage, MessageSeesCancel, MessageDrifts, MessagePastNewest,
              TriggerStop, Arrives
<1>5. ASSUME NEW m \in Ids, PublishMessage(m) \/ PublishThrows(m)
      PROVE  /\ run' = run /\ Confirmed' = Confirmed
             /\ Published' = Published \cup {m} /\ removed' = removed
  BY <1>5, PublishEffect
<1>6. ASSUME NEW m \in Ids, PublishFailed(m)
      PROVE  /\ run' = run /\ Confirmed' = Confirmed
             /\ Published' = Published /\ removed' = removed
  <2> DEFINE st == [stage EXCEPT ![m] = "failed"]
  <2>1. st \in [Ids -> Stages] /\ stage' \in {st, RejectAllPending(st)}
    BY <1>1, <1>6 DEF PublishFailed, TriggerStop, Stages
  <2>2. \A k \in Ids : /\ stage[k] = "confirmed" <=> st[k] = "confirmed"
                       /\ stage[k] # "unsent" <=> st[k] # "unsent"
    BY <1>1, <1>6 DEF PublishFailed
  <2>3. \A k \in Ids : /\ stage[k] = "confirmed" <=> stage'[k] = "confirmed"
                       /\ stage[k] # "unsent" <=> stage'[k] # "unsent"
    <3>1. CASE stage' = st
      BY <2>2, <3>1
    <3>2. CASE stage' = RejectAllPending(st)
      BY <2>1, <2>2, <3>2, RejectGrows
    <3> QED BY <2>1, <3>1, <3>2
  <2> QED BY <1>6, <2>3 DEF PublishFailed, flowVars, Confirmed, Published
<1>7. ASSUME NEW m \in Ids, PublishConfirmed(m)
      PROVE  /\ run' = run /\ Confirmed' = Confirmed \cup {m}
             /\ Published' = Published
             /\ \/ removed' = removed
                \/ run.mode = "move" /\ removed' = removed \cup {m}
  <2> DEFINE st == [stage EXCEPT ![m] = "confirmed"]
  <2>1. st \in [Ids -> Stages] /\ stage' \in {st, RejectAllPending(st)}
    BY <1>1, <1>7 DEF PublishConfirmed, TriggerStop, ResumeDelivery, Stages
  <2>2. \A k \in Ids : /\ k = m \/ stage[k] = "confirmed" <=> st[k] = "confirmed"
                       /\ stage[k] # "unsent" <=> st[k] # "unsent"
    BY <1>1, <1>7 DEF PublishConfirmed
  <2>3. \A k \in Ids : /\ k = m \/ stage[k] = "confirmed" <=> stage'[k] = "confirmed"
                       /\ stage[k] # "unsent" <=> stage'[k] # "unsent"
    <3>1. CASE stage' = st
      BY <2>2, <3>1
    <3>2. CASE stage' = RejectAllPending(st)
      BY <2>1, <2>2, <3>2, RejectGrows
    <3> QED BY <2>1, <3>1, <3>2
  <2>4. run' = run /\ RemoveFromSource(m)
    BY <1>7 DEF PublishConfirmed
  <2>5. \/ removed' = removed
        \/ run.mode = "move" /\ removed' = removed \cup {m}
    BY <2>4 DEF RemoveFromSource
  <2> QED BY <2>3, <2>4, <2>5 DEF Confirmed, Published
<1>8. ASSUME NEW m \in Ids, AckTimeout(m) \/ AckArrives(m) \/ RejectArrives(m)
      PROVE  /\ run' = run /\ Confirmed' = Confirmed
             /\ Published' = Published /\ removed' = removed
  <2>1. UNCHANGED <<run, removed>>
    BY <1>8 DEF AckTimeout, AckArrives, RejectArrives, OnlyPublisherMoves, flowVars
  <2>2. PICK a \in {"rejected", "resolved"} : Settle(m, a)
    BY <1>8 DEF AckTimeout, AckArrives, RejectArrives
  <2> QED BY <1>1, <2>1, <2>2 DEF Settle, Confirmed, Published
<1>9. CASE Environment \/ UNCHANGED vars
  BY <1>9
  DEF Environment, OtherPublishes, BrokerAccepts, BrokerRefuses, OtherConsumes,
      OnlyBrokerMoves, vars, flowVars, Confirmed, Published
<1> QED
  BY <1>2, <1>3, <1>4, <1>5, <1>6, <1>7, <1>8, <1>9 DEF Next, Message, Continuation

-----------------------------------------------------------------------------
(* No message of a move is lost: it leaves the source by our hand only     *)
(* when the destination holds it (service-copy.ts 475-493), for every      *)
(* snapshot and every order of answers, timeouts, cancels and disconnects. *)
THEOREM NothingLost == Spec => []MoveNeverLoses
<1>1. Init => Removal
  BY DEF Init, Removal
<1>2. IInv /\ Removal /\ [Next]_vars => Removal'
  BY StagesGrow DEF Removal
<1>3. IInv /\ Removal => MoveNeverLoses
  BY DEF IInv, Answered, Removal, MoveNeverLoses, Confirmed, Delivered
<1> QED BY <1>1, <1>2, <1>3, Invariant, PTL DEF Spec

-----------------------------------------------------------------------------
(* The gates of the MESSAGE handler. *)

Publishes == \E m \in Ids : PublishMessage(m) \/ PublishThrows(m)

(* What firstMessageSeen and seenMaxMsgId stand for: nothing is published  *)
(* before the first message, and the first message of a run that goes on   *)
(* was the recorded oldest and was published.                              *)
Heads ==
  /\ seenMaxMsgId => firstMessageSeen
  /\ ~firstMessageSeen => Published = {}
  /\ firstMessageSeen /\ ~Stopping /\ run.oldest # NoId => run.oldest \in Published
  /\ OldestGoesFirst

LEMMA StopsForGood ==
  ASSUME NEW reason \in StopReasons, NEW st, TriggerStop(reason, st)
  PROVE  Stopping'
BY DEF TriggerStop, StopReasons, Stopping, stopVars

(* Only the MESSAGE handler moves its two flags. *)
LEMMA FlagsStep ==
  ASSUME IInv, [Next]_vars, ~Publishes
  PROVE  \/ UNCHANGED messageVars /\ (Stopping' \/ stopReason' = stopReason)
         \/ /\ firstMessageSeen' = TRUE /\ seenMaxMsgId' = seenMaxMsgId
            /\ Stopping' \/ (seenMaxMsgId /\ stopReason' = stopReason)
<1> USE DEF StopReasons
<1>1. CASE RunCopyJob \/ BrowserUp \/ BrowserError \/ IdleTimeout
           \/ \E m \in Ids : IgnoreMessage(m) \/ MessageSeesCancel(m)
  <2>1. UNCHANGED messageVars
    BY <1>1 DEF RunCopyJob, BrowserUp, BrowserError, IdleTimeout, IgnoreMessage,
                MessageSeesCancel
  <2>2. Stopping' \/ stopReason' = stopReason
    BY <1>1, StopsForGood
    DEF RunCopyJob, BrowserUp, BrowserError, IdleTimeout, IgnoreMessage,
        MessageSeesCancel, stopVars, Stopping
  <2> QED BY <2>1, <2>2
<1>2. CASE Cancel \/ DrainAndFinish \/ DrainPoll \/ Dispose
           \/ \E m \in Ids : AckTimeout(m) \/ AckArrives(m) \/ RejectArrives(m)
  <2>1. UNCHANGED <<messageVars, stopReason>>
    BY <1>2 DEF Cancel, DrainAndFinish, DrainPoll, Dispose, AckTimeout, AckArrives,
                RejectArrives, OnlyPublisherMoves, EvaluateAndFinish, stopVars
  <2> QED BY <2>1
<1>3. ASSUME NEW m \in Ids, MessageDrifts(m)
      PROVE  firstMessageSeen' = TRUE /\ seenMaxMsgId' = seenMaxMsgId /\ Stopping'
  BY <1>3, StopsForGood DEF MessageDrifts
<1>4. ASSUME NEW m \in Ids, MessagePastNewest(m)
      PROVE  /\ firstMessageSeen' = TRUE /\ seenMaxMsgId' = seenMaxMsgId
             /\ Stopping' \/ (seenMaxMsgId /\ stopReason' = stopReason)
  BY <1>4, StopsForGood DEF MessagePastNewest, stopVars
<1>5. ASSUME NEW m \in Ids, Continuation(m)
      PROVE  UNCHANGED messageVars /\ (Stopping' \/ stopReason' = stopReason)
  <2>1. UNCHANGED messageVars
    BY <1>5 DEF Continuation, PublishFailed, PublishConfirmed
  <2>2. Stopping' \/ stopReason' = stopReason
    BY <1>5, StopsForGood
    DEF Continuation, PublishFailed, PublishConfirmed, ResumeDelivery, stopVars
  <2> QED BY <2>1, <2>2
<1>6. CASE Environment \/ UNCHANGED vars
  BY <1>6
  DEF Environment, OtherPublishes, BrokerAccepts, BrokerRefuses, OtherConsumes,
      OnlyBrokerMoves, vars, stopVars
<1> QED
  BY <1>1, <1>2, <1>3, <1>4, <1>5, <1>6 DEF Next, Message, Publishes

(* What the gates know of a message they let through. *)
LEMMA PublishedMessage ==
  ASSUME IInv, NEW m \in Ids, PublishMessage(m) \/ PublishThrows(m)
  PROVE  /\ ~Stopping /\ ~Drifts(m) /\ ~PastNewest(m)
         /\ firstMessageSeen' = TRUE
         /\ \A k \in Published : k < m
<1>1. TakeMessage(m)
  BY DEF PublishMessage, PublishThrows
<1>2. cursor < m /\ cursor \in Nat /\ \A k \in Published : k <= cursor
  BY <1>1 DEF TakeMessage, Arrives, IInv, TypeOK, Fresh, Published
<1> QED BY <1>1, <1>2 DEF TakeMessage, Ids, Published

LEMMA HeadsStep ==
  ASSUME IInv, Heads, [Next]_vars
  PROVE  Heads'
<1>1. CASE ~Publishes
  <2>1. run' = run /\ Published' = Published
    BY <1>1, StagesGrow DEF Publishes
  <2>2. OldestGoesFirst'
    BY <2>1 DEF Heads, OldestGoesFirst
  <2>3. Stopping' \/ stopReason' = stopReason
    BY <1>1, FlagsStep
  <2>4. CASE UNCHANGED messageVars
    BY <2>1, <2>2, <2>3, <2>4 DEF Heads, messageVars, Stopping
  <2>5. CASE /\ firstMessageSeen' = TRUE /\ seenMaxMsgId' = seenMaxMsgId
             /\ Stopping' \/ (seenMaxMsgId /\ stopReason' = stopReason)
    <3>1. Stopping' \/ (firstMessageSeen /\ ~Stopping)
      BY <2>5 DEF Heads, Stopping
    <3> QED BY <2>1, <2>2, <2>5, <3>1 DEF Heads
  <2> QED BY <1>1, <2>4, <2>5, FlagsStep
<1>2. ASSUME NEW m \in Ids, PublishMessage(m) \/ PublishThrows(m)
      PROVE  Heads'
  <2>1. run' = run /\ Published' = Published \cup {m}
    BY <1>2, PublishEffect
  <2>2. /\ ~Stopping /\ firstMessageSeen' = TRUE
        /\ firstMessageSeen \/ run.oldest = NoId \/ m = run.oldest
        /\ \A k \in Published : k < m
    BY <1>2, PublishedMessage DEF Drifts
  <2>3. Published \subseteq Ids /\ m \in Nat
    BY DEF Published, Ids
  <2>4. OldestGoesFirst'
    <3> SUFFICES ASSUME run.oldest # NoId
                 PROVE  /\ run.oldest \in Published'
                        /\ \A k \in Published' : run.oldest <= k
      BY <2>1 DEF OldestGoesFirst
    <3>1. CASE firstMessageSeen
      <4>1. run.oldest \in Published /\ \A k \in Published : run.oldest <= k
        BY <2>2, <3>1 DEF Heads, OldestGoesFirst
      <4>2. run.oldest <= m
        <5>1. run.oldest < m
          BY <2>2, <4>1, Zenon
        <5>2. run.oldest \in Ids
          BY <2>3, <4>1
        <5> QED BY <5>1, <5>2 DEF Ids
      <4> QED BY <2>1, <4>1, <4>2
    <3>2. CASE ~firstMessageSeen
      <4>1. Published = {} /\ m = run.oldest
        BY <2>2, <3>2 DEF Heads
      <4> QED BY <2>1, <2>3, <4>1
    <3> QED BY <3>1, <3>2
  <2> QED BY <2>1, <2>2, <2>4 DEF Heads, OldestGoesFirst
<1> QED BY <1>1, <1>2 DEF Publishes

(* Nothing is published unless the queue still starts where it was         *)
(* verified to start: the first publish is the recorded oldest and no      *)
(* older message follows (service-copy.ts 373-383).                        *)
THEOREM HeadGate == Spec => []OldestGoesFirst
<1>1. Init => Heads
  BY DEF Init, Heads, OldestGoesFirst, Published
<1>2. IInv /\ Heads /\ [Next]_vars => Heads'
  BY HeadsStep
<1>3. Heads => OldestGoesFirst
  BY DEF Heads
<1> QED BY <1>1, <1>2, <1>3, Invariant, PTL DEF Spec

(* The recorded newest is the stop boundary for any arrivals and any       *)
(* number of clones that return to the source (service-copy.ts 397-411).   *)
WithinRange == run.newest # NoId => \A m \in Published : m <= run.newest

LEMMA WithinRangeAlways == Spec => []WithinRange
<1>1. Init => WithinRange
  BY DEF Init, WithinRange, Published
<1>2. ASSUME IInv, WithinRange, [Next]_vars
      PROVE  WithinRange'
  <2>1. CASE ~Publishes
    BY <1>2, <2>1, StagesGrow DEF Publishes, WithinRange
  <2>2. ASSUME NEW m \in Ids, PublishMessage(m) \/ PublishThrows(m)
        PROVE  WithinRange'
    <3>1. run' = run /\ Published' = Published \cup {m}
      BY <1>2, <2>2, PublishEffect
    <3>2. run.newest = NoId \/ m <= run.newest
      <4>1. run.newest \in Ids \cup {NoId}
        BY <1>2 DEF IInv, TypeOK, RunParams
      <4>2. ~PastNewest(m)
        BY <1>2, <2>2, PublishedMessage
      <4> QED BY <4>1, <4>2 DEF PastNewest, Ids, NoId
    <3> QED BY <1>2, <3>1, <3>2 DEF WithinRange
  <2> QED BY <2>1, <2>2 DEF Publishes
<1> QED BY <1>1, <1>2, Invariant, PTL DEF Spec

(* Where the reader of the queue stands to the recorded newest: as long as *)
(* the run goes on and has not seen it, before it; and once the run has    *)
(* given it up, past it, so it is not on the queue and cannot come back,   *)
(* for the broker numbers upwards.                                         *)
Passed ==
  /\ source \subseteq 1 .. top /\ cursor <= top
  /\ seenMaxMsgId \/ run.newest \notin Published
  /\ seenMaxMsgId \/ Stopping \/ run.newest = NoId \/ cursor < run.newest
  /\ stopReason = "max-consumed" =>
       run.newest < cursor /\ run.newest \notin Published \cup source

(* Outside the MESSAGE handler the reader does not move and nobody gives   *)
(* the newest up.                                                          *)
LEMMA BesidesMessages ==
  ASSUME IInv, [Next]_vars, \A m \in Ids : ~Message(m)
  PROVE  /\ cursor' = cursor /\ seenMaxMsgId' = seenMaxMsgId
         /\ stopReason' = stopReason \/ stopReason' \notin {"none", "max-consumed"}
         /\ \/ top' = top /\ source' \subseteq source
            \/ top' = top + 1 /\ source' = source \cup {top + 1}
<1>1. CASE RunCopyJob \/ BrowserUp \/ BrowserError \/ IdleTimeout
  <2>1. UNCHANGED <<cursor, source, top, messageVars>>
    BY <1>1 DEF RunCopyJob, BrowserUp, BrowserError, IdleTimeout, flowVars
  <2>2. stopReason' = stopReason \/ stopReason' \notin {"none", "max-consumed"}
    BY <1>1 DEF RunCopyJob, BrowserUp, BrowserError, IdleTimeout, TriggerStop, stopVars,
                Stopping, IInv, TypeOK
  <2> QED BY <2>1, <2>2 DEF messageVars
<1>2. CASE Cancel \/ DrainAndFinish \/ DrainPoll \/ Dispose
           \/ \E m \in Ids : AckTimeout(m) \/ AckArrives(m) \/ RejectArrives(m)
  BY <1>2 DEF Cancel, DrainAndFinish, DrainPoll, Dispose, AckTimeout, AckArrives,
              RejectArrives, OnlyPublisherMoves, EvaluateAndFinish, stopVars, flowVars,
              messageVars
<1>3. ASSUME NEW m \in Ids, PublishFailed(m)
      PROVE  /\ UNCHANGED <<cursor, source, top, messageVars>>
             /\ stopReason' = stopReason \/ stopReason' \notin {"none", "max-consumed"}
  BY <1>3 DEF PublishFailed, TriggerStop, stopVars, flowVars, Stopping
<1>4. ASSUME NEW m \in Ids, PublishConfirmed(m)
      PROVE  /\ UNCHANGED <<cursor, top, messageVars>> /\ source' \subseteq source
             /\ stopReason' = stopReason \/ stopReason' \notin {"none", "max-consumed"}
  <2>1. UNCHANGED <<cursor, top, messageVars>> /\ source' \subseteq source
    BY <1>4 DEF PublishConfirmed, RemoveFromSource
  <2>2. stopReason' = stopReason \/ stopReason' \notin {"none", "max-consumed"}
    BY <1>4 DEF PublishConfirmed, TriggerStop, ResumeDelivery, stopVars, Stopping
  <2> QED BY <2>1, <2>2
<1>5. CASE Environment
  BY <1>5 DEF Environment, OtherPublishes, BrokerAccepts, BrokerRefuses, OtherConsumes,
              OnlyBrokerMoves, stopVars, messageVars
<1>6. CASE UNCHANGED vars
  BY <1>6 DEF vars, flowVars, stopVars, messageVars
<1> QED
  BY <1>1, <1>2, <1>3, <1>4, <1>5, <1>6 DEF Next, Continuation, messageVars

LEMMA PassedStep ==
  ASSUME IInv, Passed, [Next]_vars
  PROVE  Passed'
<1>0. /\ cursor \in Nat /\ top \in Nat /\ source \subseteq Ids /\ run.newest \in Nat
      /\ Published \subseteq Ids
  <2>1. run.newest \in Ids \cup {NoId}
    BY DEF IInv, TypeOK, RunParams
  <2> QED BY <2>1 DEF IInv, TypeOK, Ids, NoId, Published
<1>1. CASE \A m \in Ids : ~Message(m)
  <2>1. run' = run /\ Published' = Published
    <3>1. ~Publishes
      BY <1>1 DEF Publishes, Message
    <3> QED BY <3>1, StagesGrow DEF Publishes
  <2>2. /\ cursor' = cursor /\ seenMaxMsgId' = seenMaxMsgId
        /\ stopReason' = stopReason \/ stopReason' \notin {"none", "max-consumed"}
        /\ \/ top' = top /\ source' \subseteq source
           \/ top' = top + 1 /\ source' = source \cup {top + 1}
    BY <1>1, BesidesMessages
  <2>3. Stopping => Stopping'
    BY <2>2 DEF Stopping
  <2>4. source' \subseteq 1 .. top' /\ cursor' <= top'
    <3>1. source \subseteq 1 .. top /\ cursor <= top
      BY DEF Passed
    <3>2. CASE top' = top /\ source' \subseteq source
      BY <2>2, <3>1, <3>2
    <3>3. CASE top' = top + 1 /\ source' = source \cup {top + 1}
      <4>1. 1 .. top \subseteq 1 .. (top + 1) /\ top + 1 \in 1 .. (top + 1)
        BY <1>0
      <4>2. source' \subseteq 1 .. (top + 1)
        BY <3>1, <3>3, <4>1
      <4> QED BY <1>0, <2>2, <3>1, <3>3, <4>2
    <3> QED BY <2>2, <3>2, <3>3
  <2>5. stopReason' = "max-consumed" =>
          run'.newest < cursor' /\ run'.newest \notin Published' \cup source'
    <3> SUFFICES ASSUME stopReason = "max-consumed"
                 PROVE  run.newest < cursor /\ run.newest \notin Published \cup source'
      BY <2>1, <2>2
    <3>1. /\ run.newest < cursor /\ cursor <= top
          /\ run.newest \notin Published \cup source
      BY DEF Passed
    <3>2. run.newest # top + 1
      BY <1>0, <3>1
    <3> QED BY <2>2, <3>1, <3>2
  <2> QED BY <2>1, <2>2, <2>3, <2>4, <2>5 DEF Passed
<1>2. ASSUME NEW m \in Ids, Message(m)
      PROVE  Passed'
  <2>1. /\ m \in source /\ cursor < m /\ \A k \in source : cursor < k => m <= k
        /\ cursor' = m /\ UNCHANGED <<run, source, top>>
    BY <1>2 DEF Message, IgnoreMessage, MessageSeesCancel, MessageDrifts,
                MessagePastNewest, PublishMessage, PublishThrows, TakeMessage, Arrives
  <2>2. m \in Nat /\ m <= top
    BY <1>0, <2>1 DEF Passed, Ids
  <2>3. source' \subseteq 1 .. top' /\ cursor' <= top'
    BY <2>1, <2>2 DEF Passed
  <2>4. CASE IgnoreMessage(m) \/ MessageSeesCancel(m) \/ MessageDrifts(m)
    <3>1. UNCHANGED seenMaxMsgId /\ Published' = Published
      <4>1. UNCHANGED seenMaxMsgId /\ stage' \in {stage, RejectAllPending(stage)}
        BY <2>4 DEF IgnoreMessage, MessageSeesCancel, MessageDrifts, TriggerStop, messageVars
      <4> QED BY <4>1 DEF Published, RejectAllPending, IInv, TypeOK
    <3>2. Stopping' /\ (stopReason' = "max-consumed" => stopReason = "max-consumed")
      BY <2>4 DEF IgnoreMessage, MessageSeesCancel, MessageDrifts, TriggerStop, Stopping,
                  stopVars
    <3> QED BY <1>0, <2>1, <2>2, <2>3, <3>1, <3>2 DEF Passed
  <2>5. CASE MessagePastNewest(m)
    <3>1. /\ ~Stopping /\ run.newest # NoId /\ run.newest < m /\ UNCHANGED seenMaxMsgId
          /\ seenMaxMsgId => stopReason' = stopReason
          /\ ~seenMaxMsgId => stopReason' = "max-consumed"
      BY <2>5, <1>0, <2>2 DEF MessagePastNewest, PastNewest, TriggerStop, Stopping, stopVars
    <3>2. Published' = Published
      <4>1. stage' \in {stage, RejectAllPending(stage)}
        BY <2>5 DEF MessagePastNewest, TriggerStop
      <4> QED BY <4>1 DEF Published, RejectAllPending, IInv, TypeOK
    <3>3. CASE seenMaxMsgId
      BY <2>1, <2>3, <3>1, <3>2, <3>3 DEF Passed, Stopping
    <3>4. CASE ~seenMaxMsgId
      <4>1. cursor < run.newest /\ run.newest \notin Published
        BY <3>1, <3>4 DEF Passed
      <4>2. run.newest \notin source
        BY <1>0, <2>1, <2>2, <3>1, <4>1
      <4> QED BY <2>1, <2>3, <3>1, <3>2, <3>4, <4>1, <4>2 DEF Passed, Stopping
    <3> QED BY <3>3, <3>4
  <2>6. CASE PublishMessage(m) \/ PublishThrows(m)
    <3>1. /\ ~Stopping /\ stopReason' = stopReason /\ ~PastNewest(m)
          /\ seenMaxMsgId' = (seenMaxMsgId \/ m = run.newest)
      BY <2>6 DEF PublishMessage, PublishThrows, TakeMessage, SeesNewest, stopVars
    <3>2. Published' = Published \cup {m}
      BY <2>6, PublishEffect
    <3>3. run.newest = NoId \/ m <= run.newest
      BY <3>1, <1>0, <2>2 DEF PastNewest
    <3>4. stopReason' # "max-consumed"
      BY <3>1 DEF Stopping
    <3>5. seenMaxMsgId' \/ run.newest \notin Published'
      BY <2>1, <3>1, <3>2, Zenon DEF Passed
    <3>6. (~seenMaxMsgId') => m # run.newest
      BY <3>1
    <3>7. seenMaxMsgId' \/ run.newest = NoId \/ m < run.newest
      BY <1>0, <2>2, <3>3, <3>6
    <3> QED BY <2>1, <2>3, <3>4, <3>5, <3>7, Zenon DEF Passed
  <2> QED BY <1>2, <2>4, <2>5, <2>6 DEF Message
<1> QED BY <1>1, <1>2

(* A run never blames somebody else for a message it published itself or   *)
(* that is still there, however its own clones come back                   *)
(* (service-copy.ts 385-420).                                              *)
THEOREM BlameIsTrue == Spec => []MaxConsumedIsTrue
<1>1. Init => Passed
  <2> SUFFICES ASSUME Init PROVE Passed
    OBVIOUS
  <2>1. run.newest \in Ids \cup {NoId}
    BY RunsAssumption DEF Init, RunParams
  <2>2. Published = {} /\ cursor = 0 /\ stopReason = "none" /\ source = 1 .. top /\ top \in Nat
    BY SizesAssumption DEF Init, Published, Snapshot
  <2> QED BY <2>1, <2>2 DEF Passed, Ids, NoId
<1>2. IInv /\ Passed /\ [Next]_vars => Passed'
  BY PassedStep
<1>3. Passed => MaxConsumedIsTrue
  BY DEF Passed, MaxConsumedIsTrue
<1> QED BY <1>1, <1>2, <1>3, Invariant, PTL DEF Spec

-----------------------------------------------------------------------------
(* Backpressure and the timers that keep a run awake. *)

Awake == NeverStuck /\ Backpressure

(* A step that leaves the run stopping, or leaves its window alone. *)
LEMMA WindowKept ==
  ASSUME TypeOK, Awake, inFlight' \in Nat, inFlight' <= inFlight,
         \/ Stopping'
         \/ /\ UNCHANGED <<stopReason, status, inFlight, browserPaused>>
            /\ idleTimer' = idleTimer \/ idleTimer' # Off
  PROVE  Awake'
BY WaterMarksAssumption, SizesAssumption
DEF Awake, NeverStuck, Backpressure, Stopping, TypeOK

LEMMA PublishKeepsWindow ==
  ASSUME TypeOK, Awake, NEW m \in Ids, PublishMessage(m) \/ PublishThrows(m)
  PROVE  Awake'
<1>1. /\ ~Stopping /\ UNCHANGED <<stopReason, status>>
      /\ browserPaused => inFlight < High + Burst
      /\ m \in Nat \ {0}
  BY DEF PublishMessage, PublishThrows, TakeMessage, Arrives, stopVars, Ids
<1>2. /\ inFlight \in Nat /\ browserPaused \in BOOLEAN
      /\ Low \in Nat /\ High \in Nat /\ Low < High /\ Burst \in Nat
  BY WaterMarksAssumption, SizesAssumption DEF TypeOK
<1>3. /\ inFlight >= High => browserPaused
      /\ browserPaused => inFlight > Low
  BY <1>1 DEF Awake, Backpressure
<1>4. CASE PublishMessage(m)
  <2>1. /\ inFlight' = inFlight + 1
        /\ browserPaused' = (browserPaused \/ inFlight + 1 >= High)
        /\ idleTimer' = IF Pauses THEN Off ELSE m - 1
    BY <1>2, <1>4 DEF PublishMessage, Pauses
  <2>2. inFlight + 1 <= High + Burst
    BY <1>1, <1>2, <1>3
  <2>3. browserPaused' => inFlight' > Low
    BY <1>2, <1>3, <2>1
  <2>4. idleTimer' # Off \/ browserPaused'
    <3>1. CASE Pauses
      BY <1>2, <2>1, <3>1 DEF Pauses
    <3>2. CASE ~Pauses
      BY <1>1, <2>1, <3>2 DEF Off
    <3> QED BY <3>1, <3>2
  <2>5. inFlight' <= High + Burst /\ (inFlight' >= High => browserPaused')
    BY <2>1, <2>2
  <2> QED BY <2>3, <2>4, <2>5 DEF Awake, NeverStuck, Backpressure
<1>5. CASE PublishThrows(m)
  <2>1. /\ inFlight' = inFlight
        /\ browserPaused' = ((browserPaused \/ Pauses) /\ inFlight > Low)
        /\ idleTimer' = IF ~browserPaused' THEN m ELSE IF Pauses THEN Off ELSE m - 1
    BY <1>5 DEF PublishThrows, StaysPaused
  <2>2. inFlight <= High + Burst
    BY DEF Awake, Backpressure
  <2>3. browserPaused' => inFlight' > Low
    BY <2>1
  <2>4. inFlight' >= High => browserPaused'
    BY <1>2, <1>3, <2>1
  <2>5. idleTimer' # Off \/ browserPaused'
    BY <1>1, <2>1 DEF Off
  <2> QED BY <2>1, <2>2, <2>3, <2>4, <2>5 DEF Awake, NeverStuck, Backpressure
<1> QED BY <1>4, <1>5

LEMMA ConfirmKeepsWindow ==
  ASSUME IInv, Awake, NEW m \in Ids, PublishConfirmed(m)
  PROVE  Awake'
<1>1. inFlight' = inFlight - 1 /\ inFlight \in Nat /\ inFlight > 0
  <2>1. m \in Awaiting
    BY DEF PublishConfirmed, Awaiting
  <2> QED BY <2>1, AwaitedIsCounted DEF IInv, TypeOK, PublishConfirmed
<1>2. Stopping' \/ (~Stopping /\ ResumeDelivery([stage EXCEPT ![m] = "confirmed"]))
  BY StopsForGood DEF PublishConfirmed, StopReasons, stopVars, Stopping
<1>3. CASE Stopping'
  <2>1. inFlight' \in Nat /\ inFlight' <= inFlight
    BY <1>1
  <2> QED BY <1>3, <2>1, WindowKept DEF IInv
<1>4. CASE ~Stopping /\ ResumeDelivery([stage EXCEPT ![m] = "confirmed"])
  <2>1. /\ browserPaused' = (browserPaused /\ inFlight' > Low)
        /\ idleTimer' = IF browserPaused' THEN idleTimer ELSE cursor
    BY <1>1, <1>4 DEF ResumeDelivery, StaysPaused
  <2>2. cursor # Off
    BY DEF IInv, TypeOK, Off
  <2>3. /\ inFlight <= High + Burst
        /\ inFlight >= High => browserPaused
    BY <1>4 DEF Awake, Backpressure
  <2>4. inFlight' <= High + Burst
    BY <1>1, <2>3, WaterMarksAssumption, SizesAssumption
  <2>5. ASSUME inFlight' >= High
        PROVE  browserPaused'
    <3>1. inFlight >= High /\ inFlight' > Low
      BY <1>1, <2>5, WaterMarksAssumption
    <3> QED BY <2>1, <2>3, <3>1
  <2>6. idleTimer' # Off \/ (browserPaused' /\ inFlight' > Low)
    BY <2>1, <2>2
  <2> QED BY <2>1, <2>4, <2>5, <2>6 DEF Awake, NeverStuck, Backpressure
<1> QED BY <1>2, <1>3, <1>4

LEMMA AwakeStep ==
  ASSUME IInv, Awake, [Next]_vars
  PROVE  Awake'
<1> USE DEF StopReasons
<1>1. inFlight \in Nat /\ inFlight <= inFlight /\ TypeOK /\ cursor # Off
  BY DEF IInv, TypeOK, Off
<1>2. CASE RunCopyJob \/ BrowserUp \/ BrowserError \/ IdleTimeout
  <2>1. inFlight' = inFlight
    BY <1>2 DEF RunCopyJob, BrowserUp, BrowserError, IdleTimeout
  <2>2. \/ Stopping'
        \/ RunCopyJob /\ idleTimer' # Off /\ UNCHANGED <<stopReason, browserPaused>>
        \/ /\ UNCHANGED <<stopReason, status, browserPaused>>
           /\ idleTimer' # Off
    BY <1>1, <1>2, StopsForGood
    DEF RunCopyJob, BrowserUp, BrowserError, IdleTimeout, stopVars, jobVars, Stopping
  <2>3. CASE RunCopyJob /\ idleTimer' # Off /\ UNCHANGED <<stopReason, browserPaused>>
    BY <2>1, <2>3 DEF Awake, NeverStuck, Backpressure, Stopping
  <2> QED BY <1>1, <2>1, <2>2, <2>3, WindowKept
<1>3. CASE DrainAndFinish \/ DrainPoll
  <2>1. UNCHANGED <<inFlight, stopReason, browserPaused, idleTimer>>
    BY <1>3 DEF DrainAndFinish, DrainPoll, EvaluateAndFinish
  <2>2. status' = status \/ status' # "running"
    BY <1>3, <1>1, FinishEffect DEF DrainAndFinish, DrainPoll, jobVars, Final
  <2> QED BY <2>1, <2>2 DEF Awake, NeverStuck, Backpressure, Stopping
<1>4. CASE \/ Cancel \/ Dispose
           \/ \E m \in Ids : AckTimeout(m) \/ AckArrives(m) \/ RejectArrives(m)
           \/ Environment \/ UNCHANGED vars
  <2>1. UNCHANGED <<inFlight, stopReason, browserPaused, idleTimer, status>>
    BY <1>4
    DEF Cancel, Dispose, AckTimeout, AckArrives, RejectArrives, OnlyPublisherMoves,
        Environment, OtherPublishes, BrokerAccepts, BrokerRefuses, OtherConsumes,
        OnlyBrokerMoves, vars, jobVars, stopVars
  <2> QED BY <1>1, <2>1, WindowKept
<1>5. ASSUME NEW m \in Ids,
             \/ IgnoreMessage(m) \/ MessageSeesCancel(m)
             \/ MessageDrifts(m) \/ MessagePastNewest(m)
      PROVE  Awake'
  <2>1. UNCHANGED <<inFlight, browserPaused, status>>
    BY <1>5 DEF IgnoreMessage, MessageSeesCancel, MessageDrifts, MessagePastNewest,
                Arrives
  <2>2. Stopping' \/ UNCHANGED <<stopReason, idleTimer>>
    BY <1>5, StopsForGood
    DEF IgnoreMessage, MessageSeesCancel, MessageDrifts, MessagePastNewest, stopVars
  <2> QED BY <1>1, <2>1, <2>2, WindowKept
<1>6. ASSUME NEW m \in Ids, PublishFailed(m)
      PROVE  Awake'
  <2>1. m \in Awaiting /\ inFlight' = inFlight - 1 /\ Stopping'
    BY <1>6, StopsForGood DEF PublishFailed, Awaiting
  <2>2. inFlight' \in Nat /\ inFlight' <= inFlight
    BY <1>1, <2>1, AwaitedIsCounted DEF IInv
  <2> QED BY <1>1, <2>1, <2>2, WindowKept
<1> QED
  BY <1>1, <1>2, <1>3, <1>4, <1>5, <1>6, PublishKeepsWindow, ConfirmKeepsWindow
  DEF Next, Message, Continuation

LEMMA AwakeAlways == Spec => []Awake
<1>1. Init => Awake
  BY WaterMarksAssumption, SizesAssumption
  DEF Init, Awake, NeverStuck, Backpressure, Stopping
<1>2. IInv /\ Awake /\ [Next]_vars => Awake'
  BY AwakeStep
<1> QED BY <1>1, <1>2, Invariant, PTL DEF Spec

(* A run that goes on always has something left that will wake it: a       *)
(* paused browser without an idle timer has publishes in flight, for every *)
(* pair of water marks, LOW = 0 included (service-copy.ts 438-447,         *)
(* 529-542).                                                               *)
THEOREM AlwaysWoken == Spec => []NeverStuck
<1>1. Awake => NeverStuck
  BY DEF Awake
<1> QED BY <1>1, AwakeAlways, PTL

(* The window of unacknowledged publishes is bounded by HIGH and the SDK's *)
(* burst (constants.ts 19-35, service-copy.ts 438-447).                    *)
THEOREM WindowBounded == Spec => []Backpressure
<1>1. Awake => Backpressure
  BY DEF Awake
<1> QED BY <1>1, AwakeAlways, PTL

-----------------------------------------------------------------------------
(* The beginning and the end of a run. *)

(* Before Start nothing is under way. *)
Unstarted ==
  status = "none" =>
    /\ flow = "none" /\ idleTimer = Off /\ drain = "none" /\ completions = 0
    /\ \A m \in Ids : stage[m] = "unsent" /\ broker[m] = "none"

(* Where the drain is says whether the run stops, and its end is the end   *)
(* of the run: nothing is in flight then.                                  *)
Ending ==
  /\ drain = "none" <=> ~Stopping
  /\ drain = "done" <=> status \in Final
  /\ drain = "done" => inFlight = 0
  /\ completions = IF drain = "done" THEN 1 ELSE 0

LEMMA NothingUnderWay ==
  ASSUME IInv, Unstarted, status = "none", [Next]_vars, ~RunCopyJob
  PROVE  UNCHANGED <<jobVars, stopVars, inFlight, idleTimer, completions, stage,
                     flow, removed, broker>>
<1>1. /\ flow = "none" /\ idleTimer = Off /\ drain = "none"
      /\ \A m \in Ids : stage[m] = "unsent" /\ broker[m] = "none"
  BY DEF Unstarted
<1>2. /\ ~BrowserUp /\ ~BrowserError /\ ~IdleTimeout /\ ~Cancel
      /\ ~DrainAndFinish /\ ~DrainPoll /\ ~Dispose
  BY <1>1 DEF BrowserUp, BrowserError, IdleTimeout, IdleDue, Cancel, DrainAndFinish,
              DrainPoll, Dispose
<1>3. ASSUME NEW m \in Ids
      PROVE  ~Message(m) /\ ~Continuation(m)
  BY <1>1
  DEF Message, IgnoreMessage, MessageSeesCancel, MessageDrifts, MessagePastNewest,
      PublishMessage, PublishThrows, TakeMessage, Arrives, Continuation,
      PublishFailed, PublishConfirmed
<1>4. ASSUME NEW m \in Ids
      PROVE  ~AckTimeout(m) /\ ~AckArrives(m) /\ ~RejectArrives(m)
             /\ ~BrokerAccepts(m) /\ ~BrokerRefuses(m)
  BY <1>1 DEF AckTimeout, AckArrives, RejectArrives, BrokerAccepts, BrokerRefuses
<1>5. CASE OtherPublishes \/ \E m \in Ids : OtherConsumes(m)
  BY <1>5 DEF OtherPublishes, OtherConsumes, OnlyBrokerMoves
<1>6. CASE UNCHANGED vars
  BY <1>6 DEF vars, flowVars
<1> QED BY <1>2, <1>3, <1>4, <1>5, <1>6 DEF Next, Environment

LEMMA StatusStep ==
  ASSUME IInv, [Next]_vars
  PROVE  \/ status' = status
         \/ RunCopyJob /\ status = "none" /\ status' = "running"
         \/ (DrainAndFinish \/ DrainPoll) /\ EvaluateAndFinish
<1>1. CASE DrainAndFinish \/ DrainPoll
  BY <1>1 DEF DrainAndFinish, DrainPoll, jobVars
<1>2. CASE RunCopyJob
  BY <1>2 DEF RunCopyJob
<1>3. CASE BrowserUp \/ BrowserError \/ IdleTimeout \/ Cancel \/ Dispose
           \/ \E m \in Ids : AckTimeout(m) \/ AckArrives(m) \/ RejectArrives(m)
  BY <1>3 DEF BrowserUp, BrowserError, IdleTimeout, Cancel, Dispose, AckTimeout,
              AckArrives, RejectArrives, OnlyPublisherMoves, jobVars
<1>4. CASE \E m \in Ids : Message(m) \/ Continuation(m)
  BY <1>4
  DEF Message, IgnoreMessage, MessageSeesCancel, MessageDrifts, MessagePastNewest,
      PublishMessage, PublishThrows, TakeMessage, Arrives, Continuation,
      PublishFailed, PublishConfirmed
<1>5. CASE Environment \/ UNCHANGED vars
  BY <1>5 DEF Environment, OtherPublishes, BrokerAccepts, BrokerRefuses,
              OtherConsumes, OnlyBrokerMoves, vars, jobVars
<1> QED BY <1>1, <1>2, <1>3, <1>4, <1>5 DEF Next

LEMMA UnstartedStep ==
  ASSUME IInv, Unstarted, [Next]_vars
  PROVE  Unstarted'
<1>1. CASE status' # "none"
  BY <1>1 DEF Unstarted
<1>2. CASE status' = "none"
  <2>1. status = "none" /\ ~RunCopyJob
    BY <1>2, StatusStep, FinishEffect DEF Final, RunCopyJob, IInv
  <2> QED BY <2>1, NothingUnderWay DEF Unstarted, stopVars
<1> QED BY <1>1, <1>2

LEMMA FirstReason ==
  ASSUME NEW reason \in StopReasons, NEW st, TriggerStop(reason, st)
  PROVE  /\ Stopping => UNCHANGED stopVars
         /\ ~Stopping => drain' = "queued" /\ stopReason' \in StopReasons
BY DEF TriggerStop, Stopping

(* Apart from starting and draining, a step may begin a stop and may not   *)
(* touch one; only what is awaited changes the count of a stopping run.    *)
LEMMA StopStep ==
  ASSUME IInv, [Next]_vars, ~RunCopyJob, ~DrainAndFinish, ~DrainPoll
  PROVE  /\ completions' = completions
         /\ \/ UNCHANGED <<stopReason, drain>>
            \/ ~Stopping /\ drain' = "queued" /\ stopReason' \in StopReasons
         /\ inFlight' = inFlight \/ ~Stopping \/ Awaiting # {}
<1> USE DEF StopReasons
<1>1. CASE BrowserUp \/ BrowserError \/ IdleTimeout
  <2>1. UNCHANGED <<completions, inFlight>>
    BY <1>1 DEF BrowserUp, BrowserError, IdleTimeout
  <2>2. \/ UNCHANGED <<stopReason, drain>>
        \/ ~Stopping /\ drain' = "queued" /\ stopReason' \in StopReasons
    BY <1>1, FirstReason DEF BrowserUp, BrowserError, IdleTimeout, stopVars
  <2> QED BY <2>1, <2>2
<1>2. CASE Cancel \/ Dispose
           \/ \E m \in Ids : AckTimeout(m) \/ AckArrives(m) \/ RejectArrives(m)
  BY <1>2 DEF Cancel, Dispose, AckTimeout, AckArrives, RejectArrives,
              OnlyPublisherMoves, stopVars
<1>3. ASSUME NEW m \in Ids, Message(m)
      PROVE  /\ completions' = completions
             /\ \/ UNCHANGED <<stopReason, drain>>
                \/ ~Stopping /\ drain' = "queued" /\ stopReason' \in StopReasons
             /\ inFlight' = inFlight \/ ~Stopping
  <2>1. Arrives(m) /\ (inFlight' = inFlight \/ ~Stopping)
    BY <1>3 DEF Message, IgnoreMessage, MessageSeesCancel, MessageDrifts,
                MessagePastNewest, PublishMessage, PublishThrows, TakeMessage
  <2>2. \/ UNCHANGED <<stopReason, drain>>
        \/ ~Stopping /\ drain' = "queued" /\ stopReason' \in StopReasons
    BY <1>3, FirstReason
    DEF Message, IgnoreMessage, MessageSeesCancel, MessageDrifts, MessagePastNewest,
        PublishMessage, PublishThrows, TakeMessage, stopVars
  <2> QED BY <2>1, <2>2 DEF Arrives
<1>4. ASSUME NEW m \in Ids, Continuation(m)
      PROVE  /\ completions' = completions /\ Awaiting # {}
             /\ \/ UNCHANGED <<stopReason, drain>>
                \/ ~Stopping /\ drain' = "queued" /\ stopReason' \in StopReasons
  <2>1. m \in Awaiting /\ completions' = completions
    BY <1>4 DEF Continuation, PublishFailed, PublishConfirmed, Awaiting
  <2>2. \/ UNCHANGED <<stopReason, drain>>
        \/ ~Stopping /\ drain' = "queued" /\ stopReason' \in StopReasons
    BY <1>4, FirstReason
    DEF Continuation, PublishFailed, PublishConfirmed, ResumeDelivery, stopVars
  <2> QED BY <2>1, <2>2
<1>5. CASE Environment \/ UNCHANGED vars
  BY <1>5 DEF Environment, OtherPublishes, BrokerAccepts, BrokerRefuses,
              OtherConsumes, OnlyBrokerMoves, vars, stopVars
<1> QED BY <1>1, <1>2, <1>3, <1>4, <1>5 DEF Next

LEMMA StartStep ==
  ASSUME IInv, Unstarted, Ending, RunCopyJob
  PROVE  Ending'
<1>1. /\ status = "none" /\ status' = "running" /\ drain = "none" /\ ~Stopping
      /\ completions' = 0
  BY DEF RunCopyJob, Unstarted, Ending
<1>2. \/ UNCHANGED <<stopReason, drain>>
      \/ drain' = "queued" /\ stopReason' \in StopReasons
  BY <1>1, FirstReason DEF RunCopyJob, StopReasons, stopVars
<1> QED BY <1>1, <1>2 DEF Ending, Stopping, StopReasons, Final

LEMMA DrainStep ==
  ASSUME IInv, Ending, DrainAndFinish \/ DrainPoll
  PROVE  Ending'
<1>1. /\ drain \in {"queued", "polling"} /\ Stopping /\ status \notin Final
      /\ completions = 0 /\ stopReason' = stopReason /\ inFlight' = inFlight
  BY DEF Ending, DrainAndFinish, DrainPoll, EvaluateAndFinish
<1>2. CASE EvaluateAndFinish /\ Drained
  BY <1>1, <1>2, FinishEffect DEF IInv, Drained, Ending, Stopping
<1>3. CASE drain' \in {drain, "polling"} /\ UNCHANGED <<status, completions>>
  BY <1>1, <1>3 DEF Ending, Stopping
<1> QED BY <1>2, <1>3 DEF DrainAndFinish, DrainPoll, jobVars

LEMMA EndingStep ==
  ASSUME IInv, Unstarted, Ending, [Next]_vars
  PROVE  Ending'
<1>1. CASE RunCopyJob
  BY <1>1, StartStep
<1>2. CASE DrainAndFinish \/ DrainPoll
  BY <1>2, DrainStep
<1>3. CASE ~RunCopyJob /\ ~DrainAndFinish /\ ~DrainPoll
  <2>1. status' = status /\ completions' = completions
    BY <1>3, StatusStep, StopStep
  <2>2. drain = "done" => Stopping /\ Awaiting = {}
    <3>1. drain = "done" => inFlight = 0 /\ Stopping
      BY DEF Ending
    <3> QED BY <3>1, AwaitedIsCounted DEF IInv
  <2>3. CASE UNCHANGED <<stopReason, drain>>
    <3>1. drain = "done" => inFlight' = inFlight
      BY <1>3, <2>2, StopStep
    <3> QED BY <2>1, <2>3, <3>1 DEF Ending, Stopping
  <2>4. CASE ~Stopping /\ drain' = "queued" /\ stopReason' \in StopReasons
    BY <2>1, <2>4 DEF Ending, Stopping, StopReasons
  <2> QED BY <1>3, <2>3, <2>4, StopStep
<1> QED BY <1>1, <1>2, <1>3

Whole == Unstarted /\ Ending

LEMMA WholeAlways == Spec => []Whole
<1>1. Init => Whole
  BY DEF Init, Whole, Unstarted, Ending, Stopping, Final
<1>2. IInv /\ Whole /\ [Next]_vars => Whole'
  BY UnstartedStep, EndingStep DEF Whole
<1> QED BY <1>1, <1>2, Invariant, PTL DEF Spec

(* onComplete is called exactly once in a run that ends, whatever calls    *)
(* triggerStop meanwhile (service-copy.ts 163-219, 258-316).               *)
THEOREM ReportedOnce == Spec => []CompletesOnce
<1>1. Whole => CompletesOnce
  BY DEF Whole, Ending, CompletesOnce
<1> QED BY <1>1, WholeAlways, PTL

(* The first stop reason stays: triggerStop is a no-op from then on        *)
(* (service-copy.ts 258-295).                                              *)
THEOREM ReasonStays == Spec => FirstStopWins
<1>1. ASSUME IInv, Whole, [Next]_vars, Stopping
      PROVE  stopReason' = stopReason
  <2>1. CASE RunCopyJob
    BY <1>1, <2>1 DEF Whole, Ending, Unstarted, RunCopyJob
  <2>2. CASE DrainAndFinish \/ DrainPoll
    BY <2>2 DEF DrainAndFinish, DrainPoll, EvaluateAndFinish
  <2> QED BY <1>1, <2>1, <2>2, StopStep
<1>2. IInv /\ Whole /\ [Next]_vars => (Stopping => stopReason' = stopReason)
  BY <1>1
<1> QED BY <1>2, Invariant, WholeAlways, PTL DEF FirstStopWins, Spec

(* A run that stops for an error has recorded one. *)
ErrorKnown ==
  status = "running" /\ stopReason \in {"publish-error", "browser-error"} =>
    lastError # "none"

LEMMA ErrorKnownStep ==
  ASSUME IInv, Whole, ErrorKnown, [Next]_vars
  PROVE  ErrorKnown'
<1>1. CASE RunCopyJob
  <2>1. stopReason = "none"
    BY <1>1 DEF RunCopyJob, Whole, Unstarted, Ending, Stopping
  <2> QED BY <1>1, <2>1 DEF RunCopyJob, ErrorKnown, TriggerStop, stopVars
<1>2. CASE BrowserError \/ \E m \in Ids : PublishFailed(m)
  <2>1. CASE BrowserError
    BY <2>1 DEF BrowserError, ErrorKnown
  <2>2. CASE \E m \in Ids : PublishFailed(m)
    BY <2>2 DEF PublishFailed, ErrorKnown, TriggerStop, stopVars, Stopping
  <2> QED BY <1>2, <2>1, <2>2
<1>3. CASE DrainAndFinish \/ DrainPoll
  <2>1. stopReason' = stopReason
    BY <1>3 DEF DrainAndFinish, DrainPoll, EvaluateAndFinish
  <2>2. status' # "running" \/ UNCHANGED <<status, lastError>>
    BY <1>3, FinishEffect DEF DrainAndFinish, DrainPoll, jobVars, Final, IInv
  <2> QED BY <2>1, <2>2 DEF ErrorKnown
<1>4. ASSUME UNCHANGED <<status, lastError>>,
             stopReason' \in {stopReason, "cancel", "source-drift", "max-consumed",
                              "reached-max", "idle"}
      PROVE  ErrorKnown'
  BY <1>4 DEF ErrorKnown
<1>5. CASE BrowserUp \/ IdleTimeout \/ Cancel \/ Dispose
           \/ \E m \in Ids : AckTimeout(m) \/ AckArrives(m) \/ RejectArrives(m)
  <2>1. /\ UNCHANGED <<status, lastError>>
        /\ stopReason' \in {stopReason, "idle"}
    BY <1>5
    DEF BrowserUp, IdleTimeout, Cancel, Dispose, AckTimeout, AckArrives, RejectArrives,
        OnlyPublisherMoves, TriggerStop, stopVars, jobVars
  <2> QED BY <1>4, <2>1
<1>6. ASSUME NEW m \in Ids, Message(m) \/ PublishConfirmed(m)
      PROVE  ErrorKnown'
  <2>1. UNCHANGED <<status, lastError>>
    BY <1>6
    DEF Message, IgnoreMessage, MessageSeesCancel, MessageDrifts, MessagePastNewest,
        PublishMessage, PublishThrows, TakeMessage, Arrives, PublishConfirmed
  <2>2. stopReason' \in {stopReason, "cancel", "source-drift", "max-consumed",
                         "reached-max"}
    BY <1>6
    DEF Message, IgnoreMessage, MessageSeesCancel, MessageDrifts, MessagePastNewest,
        PublishMessage, PublishThrows, TakeMessage, PublishConfirmed, TriggerStop,
        ResumeDelivery, stopVars
  <2> QED BY <1>4, <2>1, <2>2
<1>7. CASE Environment \/ UNCHANGED vars
  <2>1. UNCHANGED <<status, lastError, stopReason>>
    BY <1>7 DEF Environment, OtherPublishes, BrokerAccepts, BrokerRefuses,
                OtherConsumes, OnlyBrokerMoves, vars, stopVars, jobVars
  <2> QED BY <1>4, <2>1
<1> QED BY <1>1, <1>2, <1>3, <1>5, <1>6, <1>7 DEF Next, Continuation

(* A job that ends in an error carries a reason and one that does not      *)
(* carries none, whichever errors were recorded on the way                 *)
(* (service-copy.ts 163-219).                                              *)
THEOREM ErrorsHaveReasons == Spec => ErrorsExplained
<1>1. Init => ErrorKnown
  BY DEF Init, ErrorKnown
<1>2. IInv /\ Whole /\ ErrorKnown /\ [Next]_vars => ErrorKnown'
  BY ErrorKnownStep
<1>3. ASSUME IInv, Whole, ErrorKnown, [Next]_vars, status' # status, status' \in Final
      PROVE  status' = "error" <=> lastError' # "none"
  <2>1. EvaluateAndFinish /\ (DrainAndFinish \/ DrainPoll)
    BY <1>3, StatusStep DEF Final
  <2>2. Stopping /\ status = "running"
    <3>1. drain \in {"queued", "polling"}
      BY <2>1 DEF DrainAndFinish, DrainPoll
    <3>2. Stopping /\ status \notin Final /\ status # "none"
      BY <1>3, <3>1 DEF Whole, Unstarted, Ending
    <3> QED BY <1>3, <3>2 DEF IInv, TypeOK
  <2>3. stopReason \in {"publish-error", "browser-error"} => lastError # "none"
    BY <1>3, <2>2 DEF ErrorKnown
  <2>4. EffectiveReason \in {"cancel", "source-drift", "max-consumed",
                             "reached-max", "idle"}
        \/ (EffectiveReason = stopReason
              /\ stopReason \in {"publish-error", "browser-error"})
    BY <1>3, <2>2 DEF EffectiveReason, IInv, TypeOK, StopReasons, Stopping
  <2>5. Outcome[1] = "error" <=> Outcome[2] # "none"
    BY <2>3, <2>4 DEF Outcome
  <2> QED BY <2>1, <2>5 DEF EvaluateAndFinish
<1>4. IInv /\ Whole /\ ErrorKnown /\ [Next]_vars =>
        (status' # status /\ status' \in Final =>
           (status' = "error" <=> lastError' # "none"))
  BY <1>3
<1> QED
  BY <1>1, <1>2, <1>4, Invariant, WholeAlways, PTL DEF ErrorsExplained, Spec

-----------------------------------------------------------------------------
(* The engine implements the job it promises its page (CopyJob): proved    *)
(* for the safety part, step by step, for any broker, SDK and user.        *)

(* A run is cancelled only because somebody asked for it. *)
CancelAsked == stopReason = "cancel" => cancelRequested

LEMMA CancelStep ==
  ASSUME IInv, [Next]_vars, ~Cancel
  PROVE  cancelRequested' = cancelRequested
<1>1. CASE RunCopyJob \/ BrowserUp \/ BrowserError \/ IdleTimeout \/ DrainAndFinish
           \/ DrainPoll \/ Dispose
           \/ \E m \in Ids : AckTimeout(m) \/ AckArrives(m) \/ RejectArrives(m)
  BY <1>1
  DEF RunCopyJob, BrowserUp, BrowserError, IdleTimeout, DrainAndFinish, DrainPoll,
      EvaluateAndFinish, Dispose, AckTimeout, AckArrives, RejectArrives,
      OnlyPublisherMoves, jobVars
<1>2. ASSUME NEW m \in Ids, Message(m) \/ Continuation(m)
      PROVE  cancelRequested' = cancelRequested
  BY <1>2
  DEF Message, IgnoreMessage, MessageSeesCancel, MessageDrifts, MessagePastNewest,
      PublishMessage, PublishThrows, TakeMessage, Arrives, Continuation,
      PublishFailed, PublishConfirmed
<1>3. CASE Environment \/ UNCHANGED vars
  BY <1>3 DEF Environment, OtherPublishes, BrokerAccepts, BrokerRefuses,
              OtherConsumes, OnlyBrokerMoves, vars, jobVars
<1> QED BY <1>1, <1>2, <1>3 DEF Next

LEMMA CancelAskedStep ==
  ASSUME IInv, CancelAsked, [Next]_vars
  PROVE  CancelAsked'
<1>1. cancelRequested => cancelRequested'
  BY CancelStep DEF Cancel
<1>2. CASE RunCopyJob \/ BrowserUp \/ BrowserError \/ IdleTimeout
  <2>1. stopReason' \in {stopReason, "publish-error", "idle", "browser-error"}
    BY <1>2 DEF RunCopyJob, BrowserUp, BrowserError, IdleTimeout, TriggerStop, stopVars
  <2> QED BY <1>1, <2>1 DEF CancelAsked
<1>3. CASE DrainAndFinish \/ DrainPoll
  BY <1>1, <1>3 DEF DrainAndFinish, DrainPoll, EvaluateAndFinish, CancelAsked
<1>4. CASE Cancel \/ Dispose
           \/ \E m \in Ids : AckTimeout(m) \/ AckArrives(m) \/ RejectArrives(m)
  BY <1>1, <1>4
  DEF Cancel, Dispose, AckTimeout, AckArrives, RejectArrives, OnlyPublisherMoves,
      stopVars, CancelAsked
<1>5. ASSUME NEW m \in Ids, Message(m)
      PROVE  CancelAsked'
  <2>1. \/ stopReason' \in {stopReason, "source-drift", "max-consumed"}
        \/ cancelRequested
    BY <1>5
    DEF Message, IgnoreMessage, MessageSeesCancel, MessageDrifts, MessagePastNewest,
        PublishMessage, PublishThrows, TakeMessage, TriggerStop, stopVars
  <2> QED BY <1>1, <2>1 DEF CancelAsked
<1>6. ASSUME NEW m \in Ids, Continuation(m)
      PROVE  CancelAsked'
  <2>1. \/ stopReason' \in {stopReason, "publish-error", "reached-max"}
        \/ cancelRequested
    BY <1>6 DEF Continuation, PublishFailed, PublishConfirmed, TriggerStop,
                ResumeDelivery, stopVars
  <2> QED BY <1>1, <2>1 DEF CancelAsked
<1>7. CASE Environment \/ UNCHANGED vars
  BY <1>1, <1>7
  DEF Environment, OtherPublishes, BrokerAccepts, BrokerRefuses, OtherConsumes,
      OnlyBrokerMoves, vars, stopVars, CancelAsked
<1> QED BY <1>2, <1>3, <1>4, <1>5, <1>6, <1>7 DEF Next

-----------------------------------------------------------------------------
(* A message reaches the destination only by BrokerAccepts. *)
LEMMA DeliveredStep ==
  ASSUME IInv, [Next]_vars
  PROVE  \/ Delivered' = Delivered
         \/ \E m \in Ids : /\ BrokerAccepts(m) /\ m \notin Delivered
                           /\ Delivered' = Delivered \cup {m}
<1>1. broker \in [Ids -> BrokerStates]
  BY DEF IInv, TypeOK
<1>2. ASSUME NEW m \in Ids, BrokerAccepts(m)
      PROVE  m \notin Delivered /\ Delivered' = Delivered \cup {m}
  BY <1>1, <1>2 DEF BrokerAccepts, Delivered
<1>3. ASSUME NEW m \in Ids, PublishMessage(m)
      PROVE  Delivered' = Delivered
  <2>1. broker[m] = "none"
    BY <1>3 DEF PublishMessage, TakeMessage, Arrives, IInv, TypeOK, Fresh, Ids
  <2>2. broker' \in {broker, [broker EXCEPT ![m] = "sent"]}
    BY <1>3 DEF PublishMessage
  <2> QED BY <1>1, <2>1, <2>2 DEF Delivered
<1>4. ASSUME NEW m \in Ids, AckArrives(m) \/ RejectArrives(m) \/ BrokerRefuses(m)
      PROVE  Delivered' = Delivered
  BY <1>1, <1>4 DEF AckArrives, RejectArrives, BrokerRefuses, Delivered
<1>5. CASE RunCopyJob \/ BrowserUp \/ BrowserError \/ IdleTimeout \/ Cancel
           \/ DrainAndFinish \/ DrainPoll \/ Dispose \/ OtherPublishes
           \/ UNCHANGED vars
  BY <1>5 DEF RunCopyJob, BrowserUp, BrowserError, IdleTimeout, Cancel,
              DrainAndFinish, DrainPoll, Dispose, OtherPublishes, vars, Delivered
<1>6. ASSUME NEW m \in Ids,
             \/ IgnoreMessage(m) \/ MessageSeesCancel(m) \/ MessageDrifts(m)
             \/ MessagePastNewest(m) \/ PublishThrows(m) \/ Continuation(m)
             \/ AckTimeout(m) \/ OtherConsumes(m)
      PROVE  Delivered' = Delivered
  BY <1>6
  DEF IgnoreMessage, MessageSeesCancel, MessageDrifts, MessagePastNewest,
      PublishThrows, Continuation, PublishFailed, PublishConfirmed, AckTimeout,
      OtherConsumes, Delivered
<1> QED
  BY <1>2, <1>3, <1>4, <1>5, <1>6 DEF Next, Message, Environment

LEMMA RunningAwaits ==
  ASSUME IInv, Whole, NEW m \in Ids, stage[m] \in {"resolved", "rejected", "pending"}
  PROVE  status = "running"
<1>1. m \in Awaiting
  BY DEF Awaiting
<1>2. inFlight > 0
  BY <1>1, AwaitedIsCounted DEF IInv
<1>3. status # "none"
  BY DEF Whole, Unstarted
<1>4. status \notin Final
  BY <1>2 DEF Whole, Ending, IInv, TypeOK
<1> QED BY <1>3, <1>4 DEF IInv, TypeOK

(* What onComplete reported is not changed by any late answer.             *)
(* (service-copy.ts 163-219, 457-493).                                     *)
THEOREM ReportKept == Spec => ReportIsFinal
<1>1. ASSUME IInv, Whole, [Next]_vars, IInv', status \in Final
      PROVE  status' = status /\ copied' = copied /\ removed' = removed
  <2>1. drain = "done" /\ status # "none"
    BY <1>1 DEF Whole, Ending, Final
  <2>2. status' = status
    BY <1>1, <2>1, StatusStep DEF DrainAndFinish, DrainPoll
  <2>3. \A m \in Ids : ~PublishConfirmed(m)
    BY <1>1, RunningAwaits DEF PublishConfirmed, Final
  <2>4. Confirmed' = Confirmed /\ removed' = removed
    BY <1>1, <2>3, StagesGrow
  <2>5. copied' = copied
    BY <1>1, <2>4 DEF IInv, Counted
  <2> QED BY <2>2, <2>4, <2>5
<1>2. IInv /\ Whole /\ [Next]_vars =>
        (status \in Final =>
           status' = status /\ copied' = copied /\ removed' = removed)
  BY <1>1, StepInv
<1> QED BY <1>2, Invariant, WholeAlways, PTL DEF ReportIsFinal, Spec

-----------------------------------------------------------------------------
(* The refinement: every step maps to a step of the job or to none. *)

LEMMA JobStarts == Init => Job!Init
<1> SUFFICES ASSUME Init PROVE Job!Init
  OBVIOUS
<1>1. run.mode \in {"copy", "move"} /\ run.total \in Nat
  BY RunsAssumption DEF Init, RunParams
<1> QED BY <1>1 DEF Init, Job!Init, Delivered, Confirmed

(* The final status is the one the job allows. *)
LEMMA FinishAllowed ==
  ASSUME IInv, Whole, CancelAsked, DrainAndFinish \/ DrainPoll, EvaluateAndFinish
  PROVE  /\ status = "running"
         /\ status' \in IF cancelRequested THEN {"cancelled"} ELSE {"completed", "error"}
         /\ status' = "completed" => copied = run.total
<1>1. drain # "done" /\ Stopping
  BY DEF DrainAndFinish, DrainPoll, Whole, Ending
<1>2. status = "running"
  BY <1>1 DEF Whole, Ending, Unstarted, IInv, TypeOK
<1>3. EffectiveReason = "cancel" <=> cancelRequested
  BY DEF EffectiveReason, CancelAsked
<1>4. status' = Outcome[1]
  BY DEF EvaluateAndFinish
<1>5. Outcome[1] \in {"cancelled", "error", "completed"}
      /\ (Outcome[1] = "cancelled" <=> EffectiveReason = "cancel")
      /\ (Outcome[1] = "completed" => copied = run.total)
  BY DEF Outcome
<1> QED BY <1>2, <1>3, <1>4, <1>5

LEMMA JobStep ==
  ASSUME IInv, Whole, CancelAsked, [Next]_vars
  PROVE  [Job!Next]_Job!jobVars
<1>0. Confirmed' = Confirmed => copied' = copied
  BY StepInv DEF IInv, Counted
<1>1. run' = run
  BY StagesGrow
<1>2. ASSUME NEW m \in Ids, PublishConfirmed(m), Confirmed' = Confirmed \cup {m},
             \/ removed' = removed
             \/ run.mode = "move" /\ removed' = removed \cup {m}
      PROVE  Job!Confirm(m)
  <2>1. stage[m] = "resolved" /\ copied' = copied + 1
        /\ UNCHANGED <<status, cancelRequested, broker>>
    BY <1>2 DEF PublishConfirmed
  <2>2. status = "running"
    BY <2>1, RunningAwaits
  <2>3. m \in Delivered \ Confirmed /\ Delivered' = Delivered
    BY <2>1 DEF IInv, Answered, Delivered, Confirmed
  <2> QED BY <1>1, <1>2, <2>1, <2>2, <2>3 DEF Job!Confirm
<1>3. ASSUME Confirmed' = Confirmed, removed' = removed, NEW m \in Ids,
             BrokerAccepts(m), m \notin Delivered, Delivered' = Delivered \cup {m}
      PROVE  Job!Deliver(m)
  <2>1. status # "none" /\ UNCHANGED <<status, cancelRequested>>
    BY <1>3 DEF BrokerAccepts, OnlyBrokerMoves, jobVars, Whole, Unstarted
  <2> QED BY <1>0, <1>1, <1>3, <2>1 DEF Job!Deliver
<1>4. ASSUME Confirmed' = Confirmed, removed' = removed, Delivered' = Delivered
      PROVE  [Job!Next]_Job!jobVars
  <2>1. CASE Cancel
    BY <1>0, <1>1, <1>4, <2>1 DEF Cancel, Job!RequestCancel, Job!Next
  <2>2. CASE ~Cancel
    <3>1. cancelRequested' = cancelRequested
      BY <2>2, CancelStep
    <3>2. CASE status' = status
      BY <1>0, <1>1, <1>4, <3>1, <3>2 DEF Job!jobVars
    <3>3. CASE status = "none" /\ status' = "running"
      BY <1>0, <1>1, <1>4, <3>1, <3>3 DEF Job!Start, Job!Next
    <3>4. CASE (DrainAndFinish \/ DrainPoll) /\ EvaluateAndFinish
      <4>1. /\ status = "running"
            /\ status' \in IF cancelRequested THEN {"cancelled"}
                                             ELSE {"completed", "error"}
            /\ status' = "completed" => copied = run.total
        BY <3>4, FinishAllowed
      <4>2. Job!Finish
        BY <1>0, <1>1, <1>4, <3>1, <4>1 DEF Job!Finish
      <4> QED BY <4>2 DEF Job!Next
    <3> QED BY <3>2, <3>3, <3>4, StatusStep
  <2> QED BY <2>1, <2>2
<1> QED BY <1>2, <1>3, <1>4, StagesGrow, DeliveredStep DEF Job!Next

(* The safety part of ImplementsJob: whatever the brokers, the SDK and the *)
(* user do, the page sees a job that counts each delivered message once,   *)
(* removes only what it counted, and ends once with the status the request *)
(* and the count call for.                                                 *)
THEOREM Refinement == Spec => Job!SafeSpec
<1>1. Init => Job!Init /\ CancelAsked
  BY JobStarts DEF Init, CancelAsked
<1>2. IInv /\ CancelAsked /\ [Next]_vars => CancelAsked'
  BY CancelAskedStep
<1>3. IInv /\ Whole /\ CancelAsked /\ [Next]_vars => [Job!Next]_Job!jobVars
  BY JobStep
<1> QED BY <1>1, <1>2, <1>3, Invariant, WholeAlways, PTL DEF Spec, Job!SafeSpec

-----------------------------------------------------------------------------
(* What a completed run has delivered. *)

(* A run completes only with the full count. *)
FullCount == status = "completed" => copied = run.total

LEMMA FullCountStep ==
  ASSUME IInv, Whole, FullCount, [Next]_vars
  PROVE  FullCount'
<1>1. run' = run /\ (Confirmed' = Confirmed => copied' = copied)
  BY StagesGrow, StepInv DEF IInv, Counted
<1>2. CASE status' = status
  <2>1. status = "completed" => \A m \in Ids : ~PublishConfirmed(m)
    BY RunningAwaits DEF PublishConfirmed
  <2>2. status = "completed" => copied' = copied
    BY <1>1, <2>1, StagesGrow
  <2> QED BY <1>1, <1>2, <2>2 DEF FullCount
<1>3. CASE status' = "running"
  BY <1>3 DEF FullCount
<1>4. CASE EvaluateAndFinish
  <2>1. status' = Outcome[1] /\ copied' = copied
    BY <1>4 DEF EvaluateAndFinish
  <2>2. Outcome[1] = "completed" => copied = run.total
    BY DEF Outcome
  <2> QED BY <1>1, <2>1, <2>2 DEF FullCount
<1> QED BY <1>2, <1>3, <1>4, StatusStep

LEMMA FullCountAlways == Spec => []FullCount
<1>1. Init => FullCount
  BY DEF Init, FullCount
<1>2. IInv /\ Whole /\ FullCount /\ [Next]_vars => FullCount'
  BY FullCountStep
<1> QED BY <1>1, <1>2, Invariant, WholeAlways, PTL DEF Spec

(* Counting is enough: with consistent figures from the verification, a    *)
(* completed run has delivered exactly the verified messages, however many *)
(* there are and whatever other clients consume and publish meanwhile      *)
(* (service-copy.ts 196-205).                                              *)
THEOREM CompletedIsComplete == Spec => []CompletedDeliversSnapshot
<1>1. ASSUME IInv, WithinRange, FullCount,
             status = "completed", run.newest = SnapshotSize, run.total = SnapshotSize
      PROVE  Snapshot \subseteq Delivered
  <2>1. Cardinality(Confirmed) = SnapshotSize
    BY <1>1 DEF IInv, Counted, FullCount
  <2>2. SnapshotSize \in Nat /\ Snapshot \subseteq Ids
    BY SizesAssumption DEF Snapshot, Ids
  <2>3. IsFiniteSet(Snapshot) /\ Cardinality(Snapshot) = SnapshotSize
    BY <2>2, FS_Interval DEF Snapshot
  <2>4. CASE SnapshotSize = 0
    BY <2>4 DEF Snapshot
  <2>5. CASE SnapshotSize # 0
    <3>1. \A m \in Published : m <= SnapshotSize
      BY <1>1, <2>5 DEF WithinRange, NoId
    <3>2. Confirmed \subseteq Published
      BY DEF Confirmed, Published
    <3>3. Confirmed \subseteq Snapshot
      BY <2>2, <3>1, <3>2 DEF Confirmed, Snapshot, Ids
    <3>4. Confirmed = Snapshot
      BY <2>1, <2>3, <3>3, FS_Subset
    <3>5. Confirmed \subseteq Delivered
      BY <1>1 DEF IInv, Answered, Confirmed, Delivered
    <3> QED BY <3>4, <3>5
  <2> QED BY <2>4, <2>5
<1>2. IInv /\ WithinRange /\ FullCount => CompletedDeliversSnapshot
  BY <1>1 DEF CompletedDeliversSnapshot
<1> QED BY <1>2, Invariant, WithinRangeAlways, FullCountAlways, PTL

-----------------------------------------------------------------------------
(* Once the run stops, or a cancel is asked for, no message is published   *)
(* any more, however many the SDK still delivers (service-copy.ts          *)
(* 355-363).                                                               *)
THEOREM NothingAfterStop == Spec => NoPublishAfterStop
<1>1. ASSUME IInv, [Next]_vars, Stopping \/ cancelRequested
      PROVE  Published' = Published
  <2>1. ~Publishes
    BY <1>1 DEF Publishes, PublishMessage, PublishThrows, TakeMessage
  <2> QED BY <1>1, <2>1, StagesGrow DEF Publishes
<1>2. IInv /\ [Next]_vars => (Stopping \/ cancelRequested => Published' = Published)
  BY <1>1
<1> QED BY <1>2, Invariant, PTL DEF NoPublishAfterStop, Spec
=============================================================================
