--------------------------- MODULE PublisherProofs ---------------------------
(***************************************************************************)
(* Proofs about the publisher, for any number of calls and keys: the three *)
(* views of a send in flight (map, timers, open promises) always agree as  *)
(* long as no caller reuses a key in flight, and with a key per call every *)
(* answer settles the call it is for.                                      *)
(***************************************************************************)
EXTENDS Publisher, TLAPS

\* An entry sits under its own call's key.
KeyedRight == \A k \in Keys : isPending(k) => KeyOf[pending[k]] = k

\* An open promise has its timer armed.
FlightIsTimed == InFlight \subseteq timers

\* After dispose the map is empty.
DisposedEmpty == disposed => \A k \in Keys : ~isPending(k)

IInv ==
  /\ TypeOK
  /\ KeyedRight
  /\ TimerFindsEntry
  /\ EntriesAreInFlight
  /\ FlightIsTimed
  /\ DisposedEmpty

\* What Ack and Reject do to the entry under the key of c: either there is
\* none, or it is settled, deleted and its timer cleared.
LEMMA AnswerStep ==
  ASSUME IInv, NEW c \in Calls, NEW r \in Outcomes, Answer(c, r), UNCHANGED disposed,
         wire' \subseteq Calls, accepted' \subseteq Calls, refused' \subseteq Calls
  PROVE  IInv'
<1> DEFINE e == pending[KeyOf[c]]
<1>1. KeyOf[c] \in Keys
  BY PublisherAssumption
<1>2. CASE e = NoCall
  <2>1. UNCHANGED <<pending, timers, result, disposed>>
    BY <1>2 DEF Answer
  <2> QED
    BY <2>1 DEF IInv, TypeOK, KeyedRight, TimerFindsEntry, EntriesAreInFlight,
            FlightIsTimed, DisposedEmpty, InFlight, isPending
<1>3. CASE e # NoCall
  <2>1. /\ e \in Calls
        /\ KeyOf[e] = KeyOf[c]
        /\ result[e] = "waiting"
    BY <1>1, <1>3 DEF IInv, TypeOK, KeyedRight, EntriesAreInFlight, isPending
  <2>2. /\ pending' = [pending EXCEPT ![KeyOf[c]] = NoCall]
        /\ timers' = timers \ {e}
        /\ result' = [d \in Calls |-> IF d = e THEN r ELSE result[d]]
    <3>1. \A d \in Calls : (d \in {e} /\ result[d] = "waiting") <=> d = e
      BY <2>1
    <3> QED
      BY <1>3, <3>1 DEF Answer, Settle
  <2>3. TypeOK'
    BY <1>1, <2>1, <2>2, PublisherAssumption DEF IInv, TypeOK
  <2>4. KeyedRight' /\ DisposedEmpty'
    BY <1>1, <2>2, PublisherAssumption DEF IInv, TypeOK, KeyedRight, DisposedEmpty, isPending
  <2>5. TimerFindsEntry'
    <3> SUFFICES ASSUME NEW d \in Calls, d \in timers, d # e
                 PROVE  pending'[KeyOf[d]] = d
      BY <2>2, <2>3 DEF TimerFindsEntry, TypeOK
    <3>1. pending[KeyOf[d]] = d /\ KeyOf[d] \in Keys
      BY PublisherAssumption DEF IInv, TimerFindsEntry
    <3> QED
      BY <1>1, <2>2, <3>1 DEF IInv, TypeOK
  <2>6. EntriesAreInFlight'
    <3> SUFFICES ASSUME NEW d \in Calls
                 PROVE  pending'[KeyOf[d]] = d <=> result'[d] = "waiting"
      BY DEF EntriesAreInFlight
    <3>1. KeyOf[d] \in Keys /\ d # NoCall
      BY PublisherAssumption
    <3>2. CASE d = e
      BY <1>1, <2>1, <2>2, <3>1, <3>2 DEF Outcomes, IInv, TypeOK
    <3>3. CASE d # e
      BY <1>1, <2>1, <2>2, <3>1, <3>3 DEF IInv, TypeOK, EntriesAreInFlight
    <3> QED
      BY <3>2, <3>3
  <2>7. FlightIsTimed'
    BY <2>1, <2>2 DEF IInv, FlightIsTimed, InFlight, Outcomes
  <2> QED
    BY <2>3, <2>4, <2>5, <2>6, <2>7 DEF IInv
<1> QED
  BY <1>2, <1>3

\* rejectAllPending and dispose empty the map, the timers and the open promises.
LEMMA DropAllStep ==
  ASSUME IInv, DropAll, disposed' \in BOOLEAN, UNCHANGED <<wire, accepted, refused>>
  PROVE  IInv' /\ InFlight' = {} /\ timers' = {}
<1>1. InFlight \subseteq {pending[k] : k \in Keys} /\ timers \subseteq {pending[k] : k \in Keys}
  BY PublisherAssumption DEF IInv, TypeOK, InFlight, EntriesAreInFlight, TimerFindsEntry
<1>2. timers' = {}
  BY <1>1 DEF DropAll
<1>3. \A d \in Calls : result'[d] = IF result[d] = "waiting" THEN "dropped" ELSE result[d]
  BY <1>1 DEF DropAll, Settle, InFlight
<1>4. InFlight' = {}
  BY <1>3 DEF InFlight
<1>5. pending' = [k \in Keys |-> NoCall]
  BY DEF DropAll
<1>6. TypeOK'
  BY <1>2, <1>5, PublisherAssumption DEF IInv, TypeOK, DropAll, Settle, Outcomes
<1>7. EntriesAreInFlight'
  BY <1>3, <1>5, PublisherAssumption DEF EntriesAreInFlight
<1> QED
  BY <1>2, <1>4, <1>5, <1>6, <1>7
     DEF IInv, KeyedRight, TimerFindsEntry, FlightIsTimed, DisposedEmpty, isPending

\* A call made while its key is not in flight.
LEMMA CallStep ==
  ASSUME IInv, NEW c \in Calls, Call(c)
  PROVE  IInv'
<1>1. /\ KeyOf[c] \in Keys
      /\ pending[KeyOf[c]] = NoCall
      /\ result[c] = "idle"
      /\ c # NoCall
      /\ c \notin timers
  BY PublisherAssumption DEF Call, Send, isPending, IInv, TimerFindsEntry
<1>2. UNCHANGED <<accepted, refused, disposed>>
  BY DEF Call, Send
<1>3. CASE SendAccepted(c)
  <2>1. /\ pending' = [pending EXCEPT ![KeyOf[c]] = c]
        /\ timers' = timers \cup {c}
        /\ result' = [result EXCEPT ![c] = "waiting"]
        /\ wire' = wire \cup {c}
        /\ ~disposed
    BY <1>3 DEF SendAccepted
  <2>2. TypeOK'
    BY <1>1, <1>2, <2>1 DEF IInv, TypeOK
  <2>3. KeyedRight' /\ DisposedEmpty'
    BY <1>1, <1>2, <2>1 DEF IInv, TypeOK, KeyedRight, DisposedEmpty, isPending
  <2>4. \A d \in Calls : KeyOf[d] \in Keys /\ d # NoCall
    BY PublisherAssumption
  <2>5. EntriesAreInFlight'
    BY <1>1, <2>1, <2>4 DEF IInv, TypeOK, EntriesAreInFlight
  <2>6. TimerFindsEntry'
    BY <1>1, <2>1, <2>4 DEF IInv, TypeOK, TimerFindsEntry
  <2>7. FlightIsTimed'
    BY <2>1 DEF IInv, TypeOK, FlightIsTimed, InFlight
  <2> QED
    BY <2>2, <2>3, <2>5, <2>6, <2>7 DEF IInv
<1>4. CASE SendDisposed(c) \/ SendThrows(c)
  <2>1. \E r \in Outcomes : result' = [result EXCEPT ![c] = r]
    BY <1>4 DEF SendDisposed, SendThrows, Outcomes
  <2>2. pending' = pending /\ UNCHANGED <<timers, wire>>
    BY <1>1, <1>4 DEF SendDisposed, SendThrows, IInv, TypeOK
  <2>3. TypeOK'
    BY <1>2, <2>1, <2>2 DEF IInv, TypeOK
  <2>4. EntriesAreInFlight'
    BY <1>1, <2>1, <2>2 DEF IInv, TypeOK, EntriesAreInFlight, Outcomes
  <2>5. FlightIsTimed'
    BY <2>1, <2>2 DEF IInv, TypeOK, FlightIsTimed, InFlight, Outcomes
  <2> QED
    BY <1>2, <2>2, <2>3, <2>4, <2>5
       DEF IInv, KeyedRight, TimerFindsEntry, DisposedEmpty, isPending
<1> QED
  BY <1>3, <1>4 DEF Call, Send

LEMMA TimerStep ==
  ASSUME IInv, NEW c \in Calls, TimerFires(c)
  PROVE  IInv'
<1>1. /\ KeyOf[c] \in Keys
      /\ pending[KeyOf[c]] = c
      /\ result[c] = "waiting"
      /\ c # NoCall
  BY PublisherAssumption DEF TimerFires, IInv, TimerFindsEntry, EntriesAreInFlight
<1>2. Answer(c, "timeout")
  BY <1>1 DEF TimerFires, Answer
<1> QED
  BY <1>2, AnswerStep DEF TimerFires, IInv, TypeOK, Outcomes

\* The strengthened invariant of the publisher.
THEOREM Invariant == SafeSpec => []IInv
<1>1. Init => IInv
  BY PublisherAssumption
     DEF Init, IInv, TypeOK, KeyedRight, TimerFindsEntry, EntriesAreInFlight,
         FlightIsTimed, DisposedEmpty, InFlight, isPending
<1>2. IInv /\ [Next]_vars => IInv'
  <2> SUFFICES ASSUME IInv, [Next]_vars
               PROVE  IInv'
    OBVIOUS
  <2>1. ASSUME NEW c \in Calls, Call(c)
        PROVE  IInv'
    BY <2>1, CallStep
  <2>2. ASSUME NEW c \in Calls, Ack(c) \/ Reject(c)
        PROVE  IInv'
    <3>1. \E r \in Outcomes : Answer(c, r)
      BY <2>2 DEF Ack, Reject, Outcomes
    <3>2. UNCHANGED disposed /\ wire' \subseteq Calls /\ accepted' \subseteq Calls
            /\ refused' \subseteq Calls
      BY <2>2 DEF Ack, Reject, IInv, TypeOK
    <3> QED
      BY <3>1, <3>2, AnswerStep
  <2>3. ASSUME NEW c \in Calls, TimerFires(c)
        PROVE  IInv'
    BY <2>3, TimerStep
  <2>4. CASE rejectAllPending
    BY <2>4, DropAllStep DEF rejectAllPending, IInv, TypeOK
  <2>5. CASE Dispose
    BY <2>5, DropAllStep DEF Dispose
  <2>6. CASE UNCHANGED vars
    BY <2>6 DEF vars, IInv, TypeOK, KeyedRight, TimerFindsEntry, EntriesAreInFlight,
            FlightIsTimed, DisposedEmpty, InFlight, isPending
  <2> QED
    BY <2>1, <2>2, <2>3, <2>4, <2>5, <2>6 DEF Next
<1> QED
  BY <1>1, <1>2, PTL DEF SafeSpec

-----------------------------------------------------------------------------
\* Every value the publisher keeps has its type.
THEOREM TypeCorrect == SafeSpec => []TypeOK
<1>1. IInv => TypeOK
  BY DEF IInv
<1> QED
  BY <1>1, Invariant, PTL

\* The comment on the timer callback is right for callers that never send
\* with a key in flight: the timer that fires finds its own call's entry.
THEOREM TimerFinds == SafeSpec => []TimerFindsEntry
<1>1. IInv => TimerFindsEntry
  BY DEF IInv
<1> QED
  BY <1>1, Invariant, PTL

\* For the same callers the map holds exactly the calls still unsettled.
THEOREM MapIsInFlight == SafeSpec => []EntriesAreInFlight
<1>1. IInv => EntriesAreInFlight
  BY DEF IInv
<1> QED
  BY <1>1, Invariant, PTL

\* A disposed publisher holds no entry, no timer and no open promise.
THEOREM DisposeEmpties == SafeSpec => []DisposedIsEmpty
<1>1. IInv => DisposedIsEmpty
  <2> SUFFICES ASSUME IInv, disposed
               PROVE  (\A k \in Keys : ~isPending(k)) /\ timers = {} /\ InFlight = {}
    BY DEF DisposedIsEmpty
  <2>1. \A k \in Keys : pending[k] = NoCall
    BY DEF IInv, DisposedEmpty, isPending
  <2>2. \A c \in Calls : pending[KeyOf[c]] # c
    BY <2>1, PublisherAssumption
  <2>3. timers = {} /\ InFlight = {}
    BY <2>2 DEF IInv, TypeOK, TimerFindsEntry, EntriesAreInFlight, InFlight
  <2> QED
    BY <2>1, <2>3 DEF isPending
<1> QED
  BY <1>1, Invariant, PTL

\* A call with a key of its own settles with the broker's answer to that call.
THEOREM AnswersAreRight == SafeSpec => []RightAnswer
<1>1. Init => RightAnswer
  BY DEF Init, RightAnswer
<1>2. IInv /\ RightAnswer /\ [Next]_vars => RightAnswer'
  <2> SUFFICES ASSUME IInv, RightAnswer, [Next]_vars,
                      NEW d \in Calls, OwnKey(d)
               PROVE  (result'[d] = "ok" => d \in accepted')
                      /\ (result'[d] = "rejected" => d \in refused')
    BY DEF RightAnswer, OwnKey
  <2> DEFINE Right == /\ result[d] = "ok" => d \in accepted
                      /\ result[d] = "rejected" => d \in refused
  <2>0. Right
    BY DEF RightAnswer
  <2>1. ASSUME NEW c \in Calls, Call(c)
        PROVE  Right'
    <3>1. UNCHANGED <<accepted, refused>>
      BY <2>1 DEF Call, Send
    <3>2. result'[d] \in {"ok", "rejected"} => result'[d] = result[d]
      BY <2>1 DEF Call, Send, SendDisposed, SendAccepted, SendThrows, IInv, TypeOK
    <3> QED
      BY <3>1, <3>2, <2>0
  <2>2. ASSUME NEW c \in Calls, Ack(c) \/ Reject(c)
        PROVE  Right'
    <3>1. KeyOf[c] \in Keys
      BY PublisherAssumption
    <3>2. pending[KeyOf[c]] = d => c = d
      BY <3>1, PublisherAssumption DEF KeyedRight, isPending, OwnKey, IInv
    <3>3. c # d => result'[d] = result[d]
      BY <2>2, <3>2, PublisherAssumption DEF Ack, Reject, Answer, Settle
    <3>4. result'[d] = result[d] \/ result'[d] = IF Ack(c) THEN "ok" ELSE "rejected"
      BY <2>2, <3>2, PublisherAssumption DEF Ack, Reject, Answer, Settle
    <3>5. CASE Ack(c)
      BY <3>3, <3>4, <3>5, <2>0 DEF Ack
    <3>6. CASE Reject(c) /\ ~Ack(c)
      BY <3>3, <3>4, <3>6, <2>0 DEF Reject
    <3> QED
      BY <2>2, <3>5, <3>6
  <2>3. ASSUME NEW c \in Calls, TimerFires(c)
        PROVE  Right'
    BY <2>3, <2>0 DEF TimerFires, Settle
  <2>4. CASE rejectAllPending \/ Dispose
    BY <2>4, <2>0 DEF rejectAllPending, Dispose, DropAll, Settle
  <2>5. CASE UNCHANGED vars
    BY <2>5, <2>0 DEF vars
  <2> QED
    BY <2>1, <2>2, <2>3, <2>4, <2>5 DEF Next
<1> QED
  BY <1>1, <1>2, Invariant, PTL DEF SafeSpec
=============================================================================
