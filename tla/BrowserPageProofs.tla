------------------------- MODULE BrowserPageProofs -------------------------
(***************************************************************************)
(* Proofs about the Queue Browser page: the forward dialog it opens        *)
(* (Forwarding) and its browsers, store and table (QueueBrowser).          *)
(*                                                                         *)
(* The forward dialog over the publisher, for any dialogs and any number   *)
(* of clicks.  Here keys are sent again while in flight, so little of      *)
(* PublisherProofs holds: timers and open promises may be without an       *)
(* entry.  What remains is that whatever the map holds is in flight, of    *)
(* the message it is filed under and timed (Entries), that a message with  *)
(* a green check has no entry left (Checked), and that the dialogs to come *)
(* are untouched (Untouched).                                              *)
(*                                                                         *)
(* The browsers, the store and the table, for any queues, limit, cap and   *)
(* filters.  StoreInv: every live browser is the one the page has of its   *)
(* queue, and what is stored of a queue was delivered by that browser, so  *)
(* that its next message is new.  ViewInv: the lists and the table are of  *)
(* the selected queue and, as long as no browser speaks after disconnect() *)
(* was called on it, the store's array under the filter.                   *)
(***************************************************************************)
EXTENDS Forwarding, QueueBrowser, FiniteSetTheorems, SequenceTheorems, WellFoundedInduction, TLAPS

\* An entry is of a call under its key, is in flight, and has its timer.
Entries ==
  \A i \in Items : pending[i] # None =>
    /\ pending[i][1] = i
    /\ result[pending[i]] = "waiting"
    /\ pending[i] \in timers

\* A message that has succeeded is in flight no more.
Checked == \A i \in Items : status[i] = "SUCCESS" => pending[i] = None

\* A row that shows the spinner has an entry.
Spinning == \A i \in Shown : status[i] = "SENDING" => pending[i] # None

\* Messages of dialogs that have not been opened are as they were.
Untouched ==
  \A d \in DOMAIN Dialogs : d > dialog =>
    \A p \in DOMAIN Dialogs[d] : status[Dialogs[d][p]] = "QUEUED"

Rows == Checked /\ Spinning /\ Untouched /\ SuccessIsAccepted
IInv == TypeOK /\ Entries /\ Rows

-----------------------------------------------------------------------------
\* What the messages of a dialog are.
LEMMA ShownItems ==
  ASSUME dialog \in 0..Len(Dialogs)
  PROVE  /\ Shown \subseteq Items
         /\ \A d \in DOMAIN Dialogs : d # dialog =>
              \A p \in DOMAIN Dialogs[d] : Dialogs[d][p] \in Items \ Shown
<1>1. \A d \in DOMAIN Dialogs : \A p \in DOMAIN Dialogs[d] : Dialogs[d][p] \in Items
  BY ForwardingAssumption
<1>2. CASE dialog = 0
  BY <1>1, <1>2 DEF Shown, forwardQueue
<1>3. CASE dialog # 0
  <2>1. dialog \in DOMAIN Dialogs /\ forwardQueue = Dialogs[dialog]
    BY <1>3, ForwardingAssumption DEF forwardQueue
  <2>2. 1..Len(forwardQueue) = DOMAIN Dialogs[dialog]
    BY <2>1, ForwardingAssumption
  <2> QED
    BY <1>1, <2>1, <2>2, ForwardingAssumption DEF Shown
<1> QED BY <1>2, <1>3

\* An update reaches the rows of the dialog on show and no other.
LEMMA Updated ==
  ASSUME TypeOK, NEW S \in SUBSET Items, NEW s \in {"QUEUED", "SENDING"} \cup Done, UpdateStatus(S, s)
  PROVE  /\ status' \in [Items -> {"QUEUED", "SENDING"} \cup Done]
         /\ \A i \in Items : status'[i] = IF i \in S /\ i \in Shown THEN s ELSE status[i]
         /\ button' \in BOOLEAN
<1>1. status' = [i \in Items |-> IF i \in S \cap Shown THEN s ELSE status[i]]
  BY DEF UpdateStatus
<1>2. button' \in BOOLEAN
  <2>1. CASE \A i \in Shown : status'[i] \in Done
    BY <2>1 DEF UpdateStatus
  <2>2. CASE ~\A i \in Shown : status'[i] \in Done
    BY <2>2 DEF UpdateStatus, TypeOK
  <2> QED BY <2>1, <2>2
<1> QED BY <1>1, <1>2 DEF TypeOK

-----------------------------------------------------------------------------
\* An answer under the key of c: there is nothing under it, or the entry is settled, deleted
\* and its timer cleared.
LEMMA Answered ==
  ASSUME TypeOK, Entries, NEW c \in Sends, NEW r \in {"ok", "rejected"}, Pub!Answer(c, r)
  PROVE  /\ Entries'
         /\ pending' \in [Items -> Sends \cup {None}] /\ timers' \subseteq Sends
         /\ result' \in [Sends -> {"idle", "waiting"} \cup Pub!Outcomes]
         /\ \A i \in Items : pending'[i] = pending[i] \/ (pending'[i] = None /\ pending[i] \in Settled)
         /\ \A d \in Settled : d[1] = c[1] /\ pending[d[1]] = d /\ pending'[d[1]] = None /\ result'[d] = r
         /\ \A d \in Sends : result[d] = "idle" => result'[d] = "idle"
<1> DEFINE e == pending[c[1]]
<1>1. c[1] \in Items /\ ItemOf[c] = c[1] /\ None \notin Sends
  BY ForwardingAssumption DEF Sends, ItemOf, Clicks
<1>2. /\ pending \in [Items -> Sends \cup {None}] /\ timers \subseteq Sends
      /\ result \in [Sends -> {"idle", "waiting"} \cup Pub!Outcomes]
  BY DEF TypeOK, Pub!TypeOK
<1>3. CASE e = None
  <2>1. UNCHANGED <<pending, timers, result>>
    BY <1>1, <1>3 DEF Pub!Answer
  <2>2. Settled = {}
    BY <2>1 DEF Settled
  <2>3. Entries'
    BY <2>1 DEF Entries
  <2> QED BY <1>2, <2>1, <2>2, <2>3
<1>4. CASE e # None
  <2>1. e \in Sends /\ e[1] = c[1] /\ result[e] = "waiting"
    BY <1>1, <1>2, <1>4 DEF Entries
  <2>2. /\ pending' = [pending EXCEPT ![c[1]] = None]
        /\ timers' = timers \ {e}
        /\ result' = [d \in Sends |-> IF d \in {e} /\ result[d] = "waiting" THEN r ELSE result[d]]
    BY <1>1, <1>4 DEF Pub!Answer, Pub!Settle
  <2>3. result' = [result EXCEPT ![e] = r]
    BY <1>2, <2>1, <2>2
  <2>4. Settled = {e}
    BY <1>2, <2>1, <2>3 DEF Settled
  <2>5. /\ pending' \in [Items -> Sends \cup {None}] /\ timers' \subseteq Sends
        /\ result' \in [Sends -> {"idle", "waiting"} \cup Pub!Outcomes]
    <3>1. pending' \in [Items -> Sends \cup {None}] /\ timers' \subseteq Sends
      BY <1>2, <2>2
    <3>2. result' \in [Sends -> {"idle", "waiting"} \cup Pub!Outcomes]
      BY <1>2, <2>3 DEF Pub!Outcomes
    <3> QED
      BY <3>1, <3>2
  <2>6. Entries'
    <3> SUFFICES ASSUME NEW i \in Items, pending'[i] # None
                 PROVE  pending'[i][1] = i /\ result'[pending'[i]] = "waiting" /\ pending'[i] \in timers'
      BY DEF Entries
    <3>1. i # c[1] /\ pending'[i] = pending[i]
      BY <1>1, <1>2, <2>2
    <3>2. pending[i] \in Sends /\ pending[i] # e
      BY <1>2, <2>1, <3>1 DEF Entries
    <3> QED BY <1>2, <2>2, <2>3, <3>1, <3>2 DEF Entries
  <2>7. \A i \in Items : pending'[i] = pending[i] \/ (pending'[i] = None /\ pending[i] \in Settled)
    BY <1>1, <1>2, <2>2, <2>4
  <2>8. pending[e[1]] = e /\ pending'[e[1]] = None /\ result'[e] = r
    BY <1>1, <1>2, <2>1, <2>2, <2>3
  <2>9. \A d \in Sends : result[d] = "idle" => result'[d] = "idle"
    BY <1>2, <2>1, <2>3
  <2> QED BY <2>1, <2>4, <2>5, <2>6, <2>7, <2>8, <2>9
<1> QED BY <1>3, <1>4

\* A timer settles whatever is under its key, its own call or a newer one.
LEMMA TimedOut ==
  ASSUME TypeOK, Entries, NEW c \in Sends, Pub!TimerFires(c)
  PROVE  /\ Entries'
         /\ pending' \in [Items -> Sends \cup {None}] /\ timers' \subseteq Sends
         /\ result' \in [Sends -> {"idle", "waiting"} \cup Pub!Outcomes]
         /\ \A i \in Items : pending'[i] = pending[i] \/ (pending'[i] = None /\ pending[i] \in Settled)
         /\ \A d \in Settled : pending[d[1]] = d /\ pending'[d[1]] = None /\ result'[d] = "timeout"
         /\ \A d \in Sends : result[d] = "idle" => result'[d] = "idle"
<1> DEFINE e == pending[c[1]]
<1>1. c[1] \in Items /\ ItemOf[c] = c[1] /\ None \notin Sends
  BY ForwardingAssumption DEF Sends, ItemOf, Clicks
<1>2. /\ pending \in [Items -> Sends \cup {None}] /\ timers \subseteq Sends
      /\ result \in [Sends -> {"idle", "waiting"} \cup Pub!Outcomes]
  BY DEF TypeOK, Pub!TypeOK
<1>3. /\ pending' = [pending EXCEPT ![c[1]] = None]
      /\ timers' = timers \ {c}
      /\ result' = [d \in Sends |-> IF d \in {e} /\ result[d] = "waiting" THEN "timeout" ELSE result[d]]
  BY <1>1 DEF Pub!TimerFires, Pub!Settle
<1>4. /\ pending' \in [Items -> Sends \cup {None}] /\ timers' \subseteq Sends
      /\ result' \in [Sends -> {"idle", "waiting"} \cup Pub!Outcomes]
  BY <1>1, <1>2, <1>3 DEF Pub!Outcomes
<1>5. e # None => e \in Sends /\ e[1] = c[1] /\ result[e] = "waiting"
  BY <1>1, <1>2 DEF Entries
<1>6. Settled = {e} \ {None}
  BY <1>1, <1>2, <1>3, <1>5 DEF Settled
<1>7. Entries'
  <2> SUFFICES ASSUME NEW i \in Items, pending'[i] # None
               PROVE  pending'[i][1] = i /\ result'[pending'[i]] = "waiting" /\ pending'[i] \in timers'
    BY DEF Entries
  <2>1. i # c[1] /\ pending'[i] = pending[i]
    BY <1>1, <1>2, <1>3
  <2>2. pending[i] \in Sends /\ pending[i] # e /\ pending[i] # c
    BY <1>2, <1>5, <2>1 DEF Entries
  <2> QED BY <1>2, <1>3, <2>1, <2>2 DEF Entries
<1>8. \A i \in Items : pending'[i] = pending[i] \/ (pending'[i] = None /\ pending[i] \in Settled)
  BY <1>1, <1>2, <1>3, <1>6
<1>9. e # None => pending[e[1]] = e /\ pending'[e[1]] = None /\ result'[e] = "timeout"
  BY <1>1, <1>2, <1>3, <1>5
<1>10. \A d \in Sends : result[d] = "idle" => result'[d] = "idle"
  BY <1>2, <1>3
<1> QED BY <1>4, <1>6, <1>7, <1>8, <1>9, <1>10

\* The end of the publisher settles all that is in the map.
LEMMA Dropped ==
  ASSUME TypeOK, Entries, Pub!DropAll
  PROVE  /\ Entries'
         /\ pending' \in [Items -> Sends \cup {None}] /\ timers' \subseteq Sends
         /\ result' \in [Sends -> {"idle", "waiting"} \cup Pub!Outcomes]
         /\ \A i \in Items : pending'[i] = pending[i] \/ (pending'[i] = None /\ pending[i] \in Settled)
         /\ \A d \in Settled : pending[d[1]] = d /\ pending'[d[1]] = None /\ result'[d] = "dropped"
         /\ \A d \in Sends : result[d] = "idle" => result'[d] = "idle"
<1> DEFINE es == {pending[k] : k \in Items}
<1>1. None \notin Sends /\ \A d \in Sends : d[1] \in Items
  BY ForwardingAssumption DEF Sends, Clicks
<1>2. /\ pending \in [Items -> Sends \cup {None}] /\ timers \subseteq Sends
      /\ result \in [Sends -> {"idle", "waiting"} \cup Pub!Outcomes]
  BY DEF TypeOK, Pub!TypeOK
<1>3. /\ pending' = [i \in Items |-> None]
      /\ timers' = timers \ es
      /\ result' = [d \in Sends |-> IF d \in es /\ result[d] = "waiting" THEN "dropped" ELSE result[d]]
  BY DEF Pub!DropAll, Pub!Settle
<1>4. Settled = es \ {None}
  <2>1. \A d \in es \ {None} : d \in Sends /\ result[d] = "waiting"
    BY <1>2 DEF Entries
  <2>2. \A d \in Sends : d \in Settled <=> d \in es
    <3> SUFFICES ASSUME NEW d \in Sends PROVE d \in Settled <=> d \in es
      OBVIOUS
    <3>1. result'[d] = IF d \in es /\ result[d] = "waiting" THEN "dropped" ELSE result[d]
      BY <1>3
    <3>2. d \in es => d # None /\ result[d] = "waiting"
      BY <1>1, <2>1
    <3>3. d \in Settled <=> result[d] = "waiting" /\ result'[d] # "waiting"
      BY DEF Settled
    <3> HIDE DEF es
    <3> QED BY <3>1, <3>2, <3>3
  <2>3. Settled \subseteq Sends
    BY DEF Settled
  <2> HIDE DEF es
  <2> QED BY <1>1, <2>1, <2>2, <2>3
<1>5. \A d \in es \ {None} : pending[d[1]] = d
  BY <1>2 DEF Entries
<1>6. result' \in [Sends -> {"idle", "waiting"} \cup Pub!Outcomes]
  BY <1>2, <1>3 DEF Pub!Outcomes
<1>7. \A d \in es \ {None} : d \in Sends /\ result[d] = "waiting"
  BY <1>2 DEF Entries
<1>8. \A d \in Settled : pending[d[1]] = d /\ pending'[d[1]] = None /\ result'[d] = "dropped"
  BY <1>1, <1>3, <1>4, <1>5, <1>7
<1>9. pending' \in [Items -> Sends \cup {None}] /\ timers' \subseteq Sends /\ Entries'
  BY <1>2, <1>3 DEF Entries
<1>10. \A i \in Items : pending'[i] = None /\ (pending[i] = None \/ pending[i] \in Settled)
  BY <1>2, <1>3, <1>4
<1>11. \A d \in Sends : result[d] = "idle" => result'[d] = "idle"
  BY <1>2, <1>3
<1> QED BY <1>6, <1>8, <1>9, <1>10, <1>11

-----------------------------------------------------------------------------
\* What the `then' of settled calls does to the rows.
LEMMA RowsFollow ==
  ASSUME IInv, ThenUpdate, UNCHANGED dialog, accepted \subseteq accepted',
         \A i \in Items : pending'[i] = pending[i] \/ (pending'[i] = None /\ pending[i] \in Settled),
         \A d \in Settled : pending[d[1]] = d /\ pending'[d[1]] = None,
         (\E d \in Settled : result'[d] = "ok") =>
           \A d \in Settled : \E n \in Clicks : <<d[1], n>> \in accepted'
  PROVE  /\ Rows'
         /\ status' \in [Items -> {"QUEUED", "SENDING"} \cup Done] /\ button' \in BOOLEAN
         /\ \A i \in Items : status[i] = "SUCCESS" => status'[i] = "SUCCESS"
<1> DEFINE S == {c[1] : c \in Settled}
           s == IF \E c \in Settled : result'[c] = "ok" THEN "SUCCESS" ELSE "FAILED"
<1>1. Shown' = Shown /\ Shown \subseteq Items /\ dialog \in 0..Len(Dialogs)
  BY ShownItems DEF IInv, TypeOK, Shown, forwardQueue
<1>2. S \subseteq Items
  BY DEF Settled, Sends
<1>3. CASE S = {}
  <2>1. UNCHANGED <<status, button>> /\ Settled = {}
    BY <1>3 DEF ThenUpdate
  <2>2. \A i \in Items : pending'[i] = pending[i]
    BY <2>1
  <2>3. status' \in [Items -> {"QUEUED", "SENDING"} \cup Done] /\ button' \in BOOLEAN
    BY <2>1 DEF IInv, TypeOK
  <2>4. Checked' /\ Spinning'
    BY <1>1, <2>1, <2>2 DEF IInv, Rows, Checked, Spinning
  <2>5. Untouched'
    BY <2>1 DEF IInv, Rows, Untouched
  <2>6. SuccessIsAccepted'
    BY <2>1 DEF IInv, Rows, SuccessIsAccepted
  <2> QED BY <2>1, <2>3, <2>4, <2>5, <2>6 DEF Rows
<1>4. CASE S # {}
  <2>1. s \in {"SUCCESS", "FAILED"} /\ UpdateStatus(S, s)
    BY <1>4 DEF ThenUpdate
  <2>2. /\ status' \in [Items -> {"QUEUED", "SENDING"} \cup Done] /\ button' \in BOOLEAN
        /\ \A i \in Items : status'[i] = IF i \in S /\ i \in Shown THEN s ELSE status[i]
    <3> HIDE DEF S, s
    <3> QED BY <1>2, <2>1, Updated DEF IInv, Done
  <2>3. \A i \in S : pending'[i] = None /\ pending[i] # None
    BY ForwardingAssumption DEF Settled, Sends, Clicks
  <2>4. \A i \in Items : pending[i] \in Settled => i \in S
    <3> SUFFICES ASSUME NEW i \in Items, pending[i] \in Settled PROVE i \in S
      OBVIOUS
    <3>1. pending[i] # None
      BY ForwardingAssumption DEF Settled, Sends, Clicks
    <3>2. pending[i][1] = i
      BY <3>1 DEF IInv, Entries
    <3> QED BY <3>2
  <2>5. s = "SUCCESS" => \A i \in S : \E n \in Clicks : <<i, n>> \in accepted'
    OBVIOUS
  <2> HIDE DEF S, s
  <2>6. \A i \in Items : status[i] = "SUCCESS" => i \notin S
    BY <2>3 DEF IInv, Rows, Checked
  <2>7. Checked'
    BY <2>2, <2>3, <2>4 DEF IInv, Rows, Checked
  <2>8. Spinning'
    BY <1>1, <2>1, <2>2, <2>4 DEF IInv, Rows, Spinning
  <2>9. Untouched'
    <3> SUFFICES ASSUME NEW d \in DOMAIN Dialogs, d > dialog, NEW p \in DOMAIN Dialogs[d]
                 PROVE  status'[Dialogs[d][p]] = "QUEUED"
      BY DEF Untouched
    <3>1. d # dialog
      BY <1>1, ForwardingAssumption
    <3>2. Dialogs[d][p] \in Items \ Shown
      BY <1>1, <3>1, ShownItems
    <3> QED BY <2>2, <3>2 DEF IInv, Rows, Untouched
  <2>10. SuccessIsAccepted'
    <3> SUFFICES ASSUME NEW i \in Items, status'[i] = "SUCCESS"
                 PROVE  \E n \in Clicks : <<i, n>> \in accepted'
      BY DEF SuccessIsAccepted
    <3>1. CASE i \in S /\ i \in Shown
      BY <2>2, <2>5, <3>1
    <3>2. CASE ~(i \in S /\ i \in Shown)
      BY <2>2, <3>2 DEF IInv, Rows, SuccessIsAccepted
    <3> QED BY <3>1, <3>2
  <2> QED BY <2>2, <2>6, <2>7, <2>8, <2>9, <2>10 DEF Rows
<1> QED BY <1>3, <1>4

-----------------------------------------------------------------------------
\* Nothing that has succeeded is undone or sent again.
Kept ==
  \A i \in Items : status[i] = "SUCCESS" =>
    /\ status'[i] = "SUCCESS"
    /\ \A n \in Clicks : result[<<i, n>>] = "idle" => result'[<<i, n>>] = "idle"

LEMMA AnswerStep ==
  ASSUME IInv, NEW c \in Sends, BrokerAnswers(c)
  PROVE  IInv' /\ Kept
<1>1. PICK r \in {"ok", "rejected"} :
        /\ Pub!Answer(c, r) /\ wire' = wire \ {c} /\ UNCHANGED disposed
        /\ accepted' = IF r = "ok" THEN accepted \cup {c} ELSE accepted
        /\ refused' = IF r = "rejected" THEN refused \cup {c} ELSE refused
  BY DEF BrokerAnswers, Pub!Ack, Pub!Reject
<1>2. /\ Entries'
      /\ pending' \in [Items -> Sends \cup {None}] /\ timers' \subseteq Sends
      /\ result' \in [Sends -> {"idle", "waiting"} \cup Pub!Outcomes]
      /\ \A i \in Items : pending'[i] = pending[i] \/ (pending'[i] = None /\ pending[i] \in Settled)
      /\ \A d \in Settled : d[1] = c[1] /\ pending[d[1]] = d /\ pending'[d[1]] = None /\ result'[d] = r
      /\ \A d \in Sends : result[d] = "idle" => result'[d] = "idle"
  BY <1>1, Answered DEF IInv
<1>3. ThenUpdate /\ UNCHANGED dialogVars
  BY DEF BrokerAnswers
<1>4. r = "ok" => \A d \in Settled : \E n \in Clicks : <<d[1], n>> \in accepted'
  <2>1. c = <<c[1], c[2]>> /\ c[2] \in Clicks
    BY DEF Sends
  <2> QED BY <1>1, <1>2, <2>1
<1>5. /\ Rows'
      /\ status' \in [Items -> {"QUEUED", "SENDING"} \cup Done] /\ button' \in BOOLEAN
      /\ \A i \in Items : status[i] = "SUCCESS" => status'[i] = "SUCCESS"
  <2>1. accepted \subseteq accepted' /\ UNCHANGED dialog
    BY <1>1, <1>3 DEF dialogVars
  <2>2. (\E d \in Settled : result'[d] = "ok") =>
          \A d \in Settled : \E n \in Clicks : <<d[1], n>> \in accepted'
    BY <1>2, <1>4
  <2> QED BY <1>2, <1>3, <2>1, <2>2, RowsFollow
<1>6. Pub!TypeOK'
  BY <1>1, <1>2 DEF IInv, TypeOK, Pub!TypeOK
<1>7. TypeOK'
  BY <1>3, <1>5, <1>6 DEF IInv, TypeOK, dialogVars
<1> QED BY <1>2, <1>5, <1>7 DEF IInv, Kept, Sends

LEMMA TimeoutStep ==
  ASSUME IInv, NEW c \in Sends, Timeout(c)
  PROVE  IInv' /\ Kept
<1>1. Pub!TimerFires(c) /\ ThenUpdate /\ UNCHANGED dialogVars
  BY DEF Timeout
<1>2. /\ Entries'
      /\ pending' \in [Items -> Sends \cup {None}] /\ timers' \subseteq Sends
      /\ result' \in [Sends -> {"idle", "waiting"} \cup Pub!Outcomes]
      /\ \A i \in Items : pending'[i] = pending[i] \/ (pending'[i] = None /\ pending[i] \in Settled)
      /\ \A d \in Settled : pending[d[1]] = d /\ pending'[d[1]] = None /\ result'[d] = "timeout"
      /\ \A d \in Sends : result[d] = "idle" => result'[d] = "idle"
  BY <1>1, TimedOut DEF IInv
<1>3. UNCHANGED <<wire, accepted, refused, disposed>>
  BY <1>1 DEF Pub!TimerFires
<1>4. /\ Rows'
      /\ status' \in [Items -> {"QUEUED", "SENDING"} \cup Done] /\ button' \in BOOLEAN
      /\ \A i \in Items : status[i] = "SUCCESS" => status'[i] = "SUCCESS"
  <2>1. accepted \subseteq accepted' /\ UNCHANGED dialog
    BY <1>1, <1>3 DEF dialogVars
  <2>2. ~\E d \in Settled : result'[d] = "ok"
    BY <1>2
  <2> QED BY <1>1, <1>2, <2>1, <2>2, RowsFollow
<1>5. Pub!TypeOK'
  BY <1>2, <1>3 DEF IInv, TypeOK, Pub!TypeOK
<1>6. TypeOK'
  BY <1>1, <1>4, <1>5 DEF IInv, TypeOK, dialogVars
<1> QED BY <1>2, <1>4, <1>6 DEF IInv, Kept, Sends

LEMMA DisconnectStep ==
  ASSUME IInv, Disconnected
  PROVE  IInv' /\ Kept
<1>1. Pub!DropAll /\ ThenUpdate /\ UNCHANGED dialogVars
  BY DEF Disconnected, Pub!Dispose
<1>2. /\ Entries'
      /\ pending' \in [Items -> Sends \cup {None}] /\ timers' \subseteq Sends
      /\ result' \in [Sends -> {"idle", "waiting"} \cup Pub!Outcomes]
      /\ \A i \in Items : pending'[i] = pending[i] \/ (pending'[i] = None /\ pending[i] \in Settled)
      /\ \A d \in Settled : pending[d[1]] = d /\ pending'[d[1]] = None /\ result'[d] = "dropped"
      /\ \A d \in Sends : result[d] = "idle" => result'[d] = "idle"
  BY <1>1, Dropped DEF IInv
<1>3. UNCHANGED <<wire, accepted, refused>> /\ disposed' = TRUE
  BY DEF Disconnected, Pub!Dispose
<1>4. /\ Rows'
      /\ status' \in [Items -> {"QUEUED", "SENDING"} \cup Done] /\ button' \in BOOLEAN
      /\ \A i \in Items : status[i] = "SUCCESS" => status'[i] = "SUCCESS"
  <2>1. accepted \subseteq accepted' /\ UNCHANGED dialog
    BY <1>1, <1>3 DEF dialogVars
  <2>2. ~\E d \in Settled : result'[d] = "ok"
    BY <1>2
  <2> QED BY <1>1, <1>2, <2>1, <2>2, RowsFollow
<1>5. Pub!TypeOK'
  BY <1>2, <1>3 DEF IInv, TypeOK, Pub!TypeOK
<1>6. TypeOK'
  BY <1>1, <1>4, <1>5 DEF IInv, TypeOK, dialogVars
<1> QED BY <1>2, <1>4, <1>6 DEF IInv, Kept, Sends

-----------------------------------------------------------------------------
\* The message a loop is at.
LEMMA ItemKnown ==
  ASSUME TypeOK, NEW n \in Clicks, Walking(n)
  PROVE  ItemAt(n) \in Items /\ <<ItemAt(n), n>> \in Sends
<1>1. loops[n].dialog \in 0..Len(Dialogs) /\ loops[n].pos \in Nat \ {0} /\ loops[n].dialog # 0
  BY DEF TypeOK, Walking
<1>2. QueueOf(n) \in Seq(Items) /\ loops[n].pos \in 1..Len(QueueOf(n))
  BY <1>1, ForwardingAssumption DEF TypeOK, Walking, QueueOf
<1>3. ItemAt(n) \in Items
  BY <1>2 DEF ItemAt
<1> QED BY <1>3 DEF Sends

\* A loop that goes on keeps the types of its place.
LEMMA Advanced ==
  ASSUME TypeOK, NEW n \in Clicks, Advance(n)
  PROVE  loops' \in [Clicks -> [dialog : 0..Len(Dialogs), pos : Nat \ {0}, original : BOOLEAN]]
<1>1. loops' = [loops EXCEPT ![n] = [loops[n] EXCEPT !.pos = loops[n].pos + 1]]
  BY DEF Advance
<1>2. loops[n] \in [dialog : 0..Len(Dialogs), pos : Nat \ {0}, original : BOOLEAN]
  BY DEF TypeOK
<1>3. [loops[n] EXCEPT !.pos = loops[n].pos + 1] \in [dialog : 0..Len(Dialogs), pos : Nat \ {0}, original : BOOLEAN]
  BY <1>2
<1> QED BY <1>1, <1>3 DEF TypeOK

\* Where rows, dialog and publisher stay the same, so does what is said of them.
LEMMA RowsStay ==
  ASSUME Entries, Rows, UNCHANGED <<dialog, status>>, UNCHANGED pubVars
  PROVE  Entries' /\ Checked' /\ Spinning' /\ Untouched' /\ SuccessIsAccepted'
<1>1. UNCHANGED <<pending, timers, result, accepted, dialog, status>>
  BY DEF pubVars
<1>2. Entries' /\ Checked' /\ Untouched'
  BY <1>1 DEF Rows, Entries, Checked, Untouched
<1>3. Spinning'
  BY <1>1 DEF Rows, Spinning, Shown, forwardQueue
<1>4. SuccessIsAccepted'
  BY <1>1 DEF Rows, SuccessIsAccepted
<1> QED BY <1>2, <1>3, <1>4

\* A row that has not succeeded is given another status, by a loop.
LEMMA LoopUpdates ==
  ASSUME IInv, NEW i \in Items, NEW s \in {"SENDING", "FAILED"}, UpdateStatus({i}, s),
         status[i] # "SUCCESS", UNCHANGED <<dialog, accepted>>,
         \A j \in Items \ {i} : pending'[j] = pending[j],
         s = "SENDING" => pending'[i] # None
  PROVE  /\ Rows'
         /\ status' \in [Items -> {"QUEUED", "SENDING"} \cup Done] /\ button' \in BOOLEAN
         /\ \A j \in Items : status[j] = "SUCCESS" => status'[j] = "SUCCESS"
<1>1. Shown' = Shown /\ Shown \subseteq Items /\ dialog \in 0..Len(Dialogs)
  BY ShownItems DEF IInv, TypeOK, Shown, forwardQueue
<1>2. /\ status' \in [Items -> {"QUEUED", "SENDING"} \cup Done] /\ button' \in BOOLEAN
      /\ \A j \in Items : status'[j] = IF j = i /\ j \in Shown THEN s ELSE status[j]
  <2>1. {i} \in SUBSET Items /\ s \in {"QUEUED", "SENDING"} \cup Done
    BY DEF Done
  <2>2. \A j \in Items : status'[j] = IF j \in {i} /\ j \in Shown THEN s ELSE status[j]
    BY <2>1, Updated DEF IInv
  <2> QED BY <2>1, <2>2, Updated DEF IInv
<1>3. Checked'
  BY <1>2 DEF IInv, Rows, Checked
<1>4. Spinning'
  BY <1>1, <1>2 DEF IInv, Rows, Spinning
<1>5. Untouched'
  <2> SUFFICES ASSUME NEW d \in DOMAIN Dialogs, d > dialog, NEW p \in DOMAIN Dialogs[d]
               PROVE  status'[Dialogs[d][p]] = "QUEUED"
    BY DEF Untouched
  <2>1. d # dialog
    BY <1>1, ForwardingAssumption
  <2>2. Dialogs[d][p] \in Items \ Shown
    BY <1>1, <2>1, ShownItems
  <2> QED BY <1>2, <2>2 DEF IInv, Rows, Untouched
<1>6. SuccessIsAccepted'
  BY <1>2 DEF IInv, Rows, SuccessIsAccepted
<1> QED BY <1>2, <1>3, <1>4, <1>5, <1>6 DEF Rows

\* What a send does to the publisher.
LEMMA Sent ==
  ASSUME TypeOK, Entries, NEW c \in Sends, Pub!Send(c)
  PROVE  /\ Entries' /\ Pub!TypeOK'
         /\ \A j \in Items \ {c[1]} : pending'[j] = pending[j]
         /\ result'[c] = "waiting" => pending'[c[1]] # None
         /\ \A d \in Sends : d # c => result'[d] = result[d]
         /\ UNCHANGED accepted
<1>1. c[1] \in Items /\ ItemOf[c] = c[1] /\ None \notin Sends
  BY ForwardingAssumption DEF Sends, ItemOf, Clicks
<1>2. /\ pending \in [Items -> Sends \cup {None}] /\ timers \subseteq Sends
      /\ result \in [Sends -> {"idle", "waiting"} \cup Pub!Outcomes]
  BY DEF TypeOK, Pub!TypeOK
<1>3. result[c] = "idle" /\ UNCHANGED <<accepted, refused, disposed>>
  BY DEF Pub!Send
<1>4. \A j \in Items : pending[j] # None => pending[j] # c
  BY <1>3 DEF Entries
<1>5. CASE Pub!SendAccepted(c)
  <2>1. /\ pending' = [pending EXCEPT ![c[1]] = c]
        /\ timers' = timers \cup {c} /\ wire' = wire \cup {c}
        /\ result' = [result EXCEPT ![c] = "waiting"]
    BY <1>1, <1>5 DEF Pub!SendAccepted
  <2>2. Entries'
    <3> SUFFICES ASSUME NEW j \in Items, pending'[j] # None
                 PROVE  pending'[j][1] = j /\ result'[pending'[j]] = "waiting" /\ pending'[j] \in timers'
      BY DEF Entries
    <3>1. CASE j = c[1]
      BY <1>1, <1>2, <2>1, <3>1
    <3>2. CASE j # c[1]
      <4>1. pending'[j] = pending[j] /\ pending[j] \in Sends /\ pending[j] # c
        BY <1>1, <1>2, <1>4, <2>1, <3>2
      <4> QED BY <1>2, <2>1, <4>1 DEF Entries
    <3> QED BY <3>1, <3>2
  <2>3. Pub!TypeOK'
    BY <1>1, <1>2, <1>3, <2>1 DEF TypeOK, Pub!TypeOK
  <2> QED BY <1>1, <1>2, <1>3, <2>1, <2>2, <2>3
<1>6. CASE Pub!SendThrows(c)
  <2>1. /\ pending' = [pending EXCEPT ![c[1]] = None]
        /\ result' = [result EXCEPT ![c] = "failed"] /\ UNCHANGED <<timers, wire>>
    BY <1>1, <1>6 DEF Pub!SendThrows
  <2>2. Entries'
    <3> SUFFICES ASSUME NEW j \in Items, pending'[j] # None
                 PROVE  pending'[j][1] = j /\ result'[pending'[j]] = "waiting" /\ pending'[j] \in timers'
      BY DEF Entries
    <3>1. pending'[j] = pending[j] /\ pending[j] \in Sends /\ pending[j] # c
      BY <1>1, <1>2, <1>4, <2>1
    <3> QED BY <1>2, <2>1, <3>1 DEF Entries
  <2>3. Pub!TypeOK'
    BY <1>1, <1>2, <1>3, <2>1 DEF TypeOK, Pub!TypeOK, Pub!Outcomes
  <2> QED BY <1>1, <1>2, <1>3, <2>1, <2>2, <2>3
<1>7. CASE Pub!SendDisposed(c)
  <2>1. result' = [result EXCEPT ![c] = "dropped"] /\ UNCHANGED <<pending, timers, wire>>
    BY <1>7 DEF Pub!SendDisposed
  <2>2. Entries'
    <3> SUFFICES ASSUME NEW j \in Items, pending'[j] # None
                 PROVE  pending'[j][1] = j /\ result'[pending'[j]] = "waiting" /\ pending'[j] \in timers'
      BY DEF Entries
    <3>1. pending'[j] = pending[j] /\ pending[j] \in Sends /\ pending[j] # c
      BY <1>2, <1>4, <2>1
    <3> QED BY <1>2, <2>1, <3>1 DEF Entries
  <2>3. Pub!TypeOK'
    BY <1>2, <1>3, <2>1 DEF TypeOK, Pub!TypeOK, Pub!Outcomes
  <2> QED BY <1>2, <1>3, <2>1, <2>2, <2>3
<1> QED BY <1>5, <1>6, <1>7 DEF Pub!Send

LEMMA LoopStepSafe ==
  ASSUME IInv, NEW n \in Clicks, LoopStep(n)
  PROVE  IInv' /\ Kept
<1> DEFINE i == ItemAt(n)
           c == <<i, n>>
<1>1. i \in Items /\ c \in Sends /\ c[1] = i
  BY ItemKnown DEF IInv, LoopStep
<1>2. /\ loops' \in [Clicks -> [dialog : 0..Len(Dialogs), pos : Nat \ {0}, original : BOOLEAN]]
      /\ UNCHANGED <<dialog, open, clicks>> /\ running \in {0, n}
  BY Advanced DEF IInv, LoopStep
<1>3. n \in 0..MaxClicks
  BY ForwardingAssumption DEF Clicks
<1>4. CASE SkipSucceeded(n)
  <2>1. UNCHANGED <<status, button>> /\ UNCHANGED pubVars /\ running' = n
    BY <1>4 DEF SkipSucceeded
  <2>2. TypeOK'
    BY <1>2, <1>3, <2>1 DEF IInv, TypeOK, Pub!TypeOK, pubVars
  <2>3. Entries' /\ Checked' /\ Spinning' /\ Untouched' /\ SuccessIsAccepted'
    BY <1>2, <2>1, RowsStay DEF IInv
  <2> QED BY <2>1, <2>2, <2>3 DEF IInv, Rows, Kept, pubVars
<1>5. CASE SkipNoDestination(n)
  <2>1. /\ UpdateStatus({i}, "FAILED") /\ status[i] # "SUCCESS"
        /\ UNCHANGED pubVars /\ running' = n
    BY <1>5 DEF SkipNoDestination, Succeeded
  <2>2. /\ Rows'
        /\ status' \in [Items -> {"QUEUED", "SENDING"} \cup Done] /\ button' \in BOOLEAN
        /\ \A j \in Items : status[j] = "SUCCESS" => status'[j] = "SUCCESS"
    <3>1. \A j \in Items \ {i} : pending'[j] = pending[j]
      BY <2>1 DEF pubVars
    <3>2. UNCHANGED <<dialog, accepted>>
      BY <1>2, <2>1 DEF pubVars
    <3> HIDE DEF i
    <3> QED BY <1>1, <2>1, <3>1, <3>2, LoopUpdates
  <2>3. TypeOK'
    BY <1>2, <1>3, <2>1, <2>2 DEF IInv, TypeOK, Pub!TypeOK, pubVars
  <2>4. Entries'
    BY <2>1 DEF IInv, Entries, pubVars
  <2> QED BY <2>1, <2>2, <2>3, <2>4 DEF IInv, Kept, pubVars
<1>6. CASE SendItem(n)
  <2>1. /\ Pub!Send(c) /\ status[i] # "SUCCESS" /\ running' = 0
        /\ UpdateStatus({i}, IF result'[c] = "waiting" THEN "SENDING" ELSE "FAILED")
    BY <1>6 DEF SendItem, Succeeded
  <2>2. /\ Entries' /\ Pub!TypeOK'
        /\ \A j \in Items \ {i} : pending'[j] = pending[j]
        /\ result'[c] = "waiting" => pending'[i] # None
        /\ \A d \in Sends : d # c => result'[d] = result[d]
        /\ UNCHANGED accepted
    <3> HIDE DEF i, c
    <3> QED BY <1>1, <2>1, Sent DEF IInv
  <2>3. /\ Rows'
        /\ status' \in [Items -> {"QUEUED", "SENDING"} \cup Done] /\ button' \in BOOLEAN
        /\ \A j \in Items : status[j] = "SUCCESS" => status'[j] = "SUCCESS"
    <3> DEFINE s == IF result'[c] = "waiting" THEN "SENDING" ELSE "FAILED"
    <3>1. s \in {"SENDING", "FAILED"} /\ (s = "SENDING" => pending'[i] # None) /\ UpdateStatus({i}, s)
      BY <2>1, <2>2
    <3> HIDE DEF i, c, s
    <3> QED BY <1>1, <1>2, <2>1, <2>2, <3>1, LoopUpdates
  <2>4. TypeOK'
    BY <1>2, <2>1, <2>2, <2>3, ForwardingAssumption DEF IInv, TypeOK
  <2>5. Kept
    BY <1>1, <2>1, <2>2, <2>3 DEF Kept, Sends
  <2> QED BY <2>2, <2>3, <2>4, <2>5 DEF IInv
<1> QED BY <1>4, <1>5, <1>6 DEF LoopStep

-----------------------------------------------------------------------------
\* The next dialog is one nobody has touched.
LEMMA OpenStep ==
  ASSUME IInv, showForwardModal
  PROVE  IInv' /\ Kept
<1>1. /\ dialog' = dialog + 1 /\ dialog < Len(Dialogs) /\ open' = TRUE /\ button' = TRUE
      /\ UNCHANGED <<status, loops, clicks, running>> /\ UNCHANGED pubVars
  BY DEF showForwardModal
<1>2. TypeOK'
  BY <1>1, ForwardingAssumption DEF IInv, TypeOK, Pub!TypeOK, pubVars
<1>3. Entries' /\ Checked' /\ SuccessIsAccepted'
  BY <1>1 DEF IInv, Rows, Entries, Checked, SuccessIsAccepted, pubVars
<1>4. dialog \in Nat /\ dialog' \in DOMAIN Dialogs /\ dialog' > dialog /\ DOMAIN Dialogs \subseteq Nat
  BY <1>1, ForwardingAssumption DEF IInv, TypeOK
<1>5. Spinning'
  <2>1. \A i \in Shown' : \E p \in DOMAIN Dialogs[dialog'] : i = Dialogs[dialog'][p]
    BY <1>1, <1>4, ForwardingAssumption DEF Shown, forwardQueue
  <2>2. \A i \in Shown' : status'[i] = "QUEUED"
    BY <1>1, <1>4, <2>1 DEF IInv, Rows, Untouched
  <2> QED BY <2>2 DEF Spinning
<1>6. Untouched'
  BY <1>1, <1>4 DEF IInv, Rows, Untouched
<1> QED BY <1>1, <1>2, <1>3, <1>5, <1>6 DEF IInv, Rows, Kept, pubVars

\* Clicks, and what leaves publisher, rows and dialog alone.
LEMMA QuietStep ==
  ASSUME IInv, closeForwardModal \/ handleForwardSend \/ (\E n \in Clicks : LoopEnds(n)) \/ UNCHANGED vars
  PROVE  IInv' /\ Kept
<1>1. UNCHANGED <<dialog, status>> /\ UNCHANGED pubVars
  BY DEF closeForwardModal, handleForwardSend, LoopEnds, vars, pubVars
<1>2. /\ button' \in BOOLEAN /\ open' \in BOOLEAN /\ clicks' \in 0..MaxClicks /\ running' \in 0..MaxClicks
      /\ loops' \in [Clicks -> [dialog : 0..Len(Dialogs), pos : Nat \ {0}, original : BOOLEAN]]
  <2>1. CASE handleForwardSend
    <3>1. clicks \in 0..MaxClicks /\ clicks + 1 \in Clicks
      BY <2>1, ForwardingAssumption DEF handleForwardSend, IInv, TypeOK, Clicks
    <3>2. PICK original \in BOOLEAN :
            loops' = [loops EXCEPT ![clicks + 1] = [dialog |-> dialog, pos |-> 1, original |-> original]]
      BY <2>1 DEF handleForwardSend
    <3>3. loops' \in [Clicks -> [dialog : 0..Len(Dialogs), pos : Nat \ {0}, original : BOOLEAN]]
      BY <3>1, <3>2 DEF IInv, TypeOK
    <3>4. button' = FALSE /\ open' = open /\ clicks' = clicks + 1 /\ running' = clicks + 1
      BY <2>1 DEF handleForwardSend
    <3>5. button' \in BOOLEAN /\ open' \in BOOLEAN
      BY <3>4, Zenon DEF IInv, TypeOK
    <3>6. clicks' \in 0..MaxClicks /\ running' \in 0..MaxClicks
      BY <3>1, <3>4, ForwardingAssumption DEF Clicks
    <3> QED BY <3>3, <3>5, <3>6
  <2>2. CASE closeForwardModal \/ (\E n \in Clicks : LoopEnds(n)) \/ UNCHANGED vars
    <3>1. UNCHANGED <<button, loops, clicks>> /\ open' \in {open, FALSE} /\ running' \in {running, 0}
      BY <2>2 DEF closeForwardModal, LoopEnds, vars
    <3>2. open \in BOOLEAN /\ button \in BOOLEAN
      BY DEF IInv, TypeOK
    <3>3. open' \in BOOLEAN /\ button' \in BOOLEAN
      BY <3>1, <3>2, Zenon
    <3>4. clicks' \in 0..MaxClicks /\ running' \in 0..MaxClicks
      BY <3>1, ForwardingAssumption DEF IInv, TypeOK
    <3>5. loops' \in [Clicks -> [dialog : 0..Len(Dialogs), pos : Nat \ {0}, original : BOOLEAN]]
      BY <3>1 DEF IInv, TypeOK
    <3> QED BY <3>3, <3>4, <3>5
  <2> QED BY <2>1, <2>2
<1>3. TypeOK'
  BY <1>1, <1>2 DEF IInv, TypeOK, Pub!TypeOK, pubVars
<1>4. Entries' /\ Checked' /\ Spinning' /\ Untouched' /\ SuccessIsAccepted'
  BY <1>1, RowsStay DEF IInv
<1> QED BY <1>1, <1>3, <1>4 DEF IInv, Rows, Kept, pubVars

LEMMA InitInv == Init => IInv
<1> SUFFICES ASSUME Init PROVE IInv
  OBVIOUS
<1>1. TypeOK
  <2>1. Pub!TypeOK
    BY DEF Init, Pub!Init, Pub!TypeOK
  <2>2. 0 \in 0..Len(Dialogs) /\ 0 \in 0..MaxClicks
    BY ForwardingAssumption
  <2>3. loops \in [Clicks -> [dialog : 0..Len(Dialogs), pos : Nat \ {0}, original : BOOLEAN]]
    BY <2>2 DEF Init, Idle
  <2> QED BY <2>1, <2>2, <2>3 DEF Init, TypeOK
<1>2. Entries /\ Checked /\ Spinning /\ SuccessIsAccepted
  BY DEF Init, Pub!Init, Entries, Checked, Spinning, SuccessIsAccepted, Shown, forwardQueue
<1>3. Untouched
  BY ShownItems, ForwardingAssumption DEF Init, Untouched
<1> QED BY <1>1, <1>2, <1>3 DEF IInv, Rows

LEMMA StepInv ==
  ASSUME IInv, [Next]_vars
  PROVE  IInv' /\ Kept
<1>1. CASE showForwardModal
  BY <1>1, OpenStep
<1>2. CASE closeForwardModal \/ handleForwardSend \/ (\E n \in Clicks : LoopEnds(n)) \/ UNCHANGED vars
  BY <1>2, QuietStep
<1>3. CASE \E n \in Clicks : LoopStep(n)
  BY <1>3, LoopStepSafe
<1>4. CASE \E c \in Sends : BrokerAnswers(c)
  BY <1>4, AnswerStep
<1>5. CASE \E c \in Sends : Timeout(c)
  BY <1>5, TimeoutStep
<1>6. CASE Disconnected
  BY <1>6, DisconnectStep
<1> QED BY <1>1, <1>2, <1>3, <1>4, <1>5, <1>6 DEF Next

-----------------------------------------------------------------------------
\* The inductive invariant, for any dialogs and any number of clicks.
THEOREM Invariant == Spec => []IInv
<1>1. IInv /\ [Next]_vars => IInv'
  BY StepInv
<1> QED BY <1>1, InitInv, PTL DEF Spec, SafeSpec

\* Every variable of the dialog and of its publisher keeps its type.
THEOREM TypeCorrect == Spec => []TypeOK
<1>1. IInv => TypeOK
  BY DEF IInv
<1> QED BY <1>1, Invariant, PTL

\* A green check is earned: the broker has acknowledged one of the message's sends, however
\* answers, timeouts, resends and dialogs overlap (ui-events.ts 83-93).
THEOREM SuccessAccepted == Spec => []SuccessIsAccepted
<1>1. IInv => SuccessIsAccepted
  BY DEF IInv, Rows
<1> QED BY <1>1, Invariant, PTL

\* A spinner has an entry with a timer behind it (solace-publisher.ts 225-241): no row is
\* left waiting for an answer that nobody would take.
THEOREM SpinnerBacked == Spec => []SpinnerIsBacked
<1>1. IInv => SpinnerIsBacked
  BY ShownItems DEF IInv, TypeOK, Entries, Rows, Spinning, SpinnerIsBacked
<1> QED BY <1>1, Invariant, PTL

\* A green check is final and its message is not sent again, not even by an older loop
\* (ui-events.ts 52-55).
THEOREM SuccessFinal == Spec => SuccessIsFinal
<1>1. IInv /\ [Next]_vars =>
        (\A i \in Items : (status[i] = "SUCCESS") =>
           /\ status'[i] = "SUCCESS"
           /\ \A n \in Clicks : (result[<<i, n>>] = "idle") => (result'[<<i, n>>] = "idle"))
  BY StepInv DEF Kept
<1> QED BY <1>1, Invariant, PTL DEF Spec, SafeSpec, SuccessIsFinal

-----------------------------------------------------------------------------
(* Sequences.                                                              *)

\* The induction over sequences, for a set of them.
LEMMA SeqsInduction ==
  ASSUME NEW X, NEW T, <<>> \in T, \A s \in Seq(X) : \A x \in X : s \in T => Append(s, x) \in T
  PROVE  \A s \in Seq(X) : s \in T
<1> SUFFICES ASSUME \E s \in Seq(X) : s \notin T
             PROVE  FALSE
  OBVIOUS
<1> DEFINE Lengths == {n \in Nat : \E s \in Seq(X) : s \notin T /\ Len(s) = n}
<1>1. \E n \in Lengths : TRUE
  BY LenProperties
<1>2. PICK n \in Lengths : \A m \in Lengths : ~(<<m, n>> \in OpToRel(<, Nat))
  <2>1. Lengths \subseteq Nat /\ Lengths # {}
    BY <1>1
  <2> HIDE DEF Lengths
  <2> QED
    BY <2>1, NatLessThanWellFounded, WFMin
<1>3. PICK s \in Seq(X) : s \notin T /\ Len(s) = n
  OBVIOUS
<1>4. s # <<>>
  BY <1>3
<1>5. PICK t \in Seq(X), x \in X : s = Append(t, x)
  BY <1>4, SequenceEmptyOrAppend
<1>6. t \notin T /\ Len(t) \in Nat /\ Len(t) < n
  BY <1>3, <1>5, AppendProperties, LenProperties
<1>7. Len(t) \in Lengths
  BY <1>6
<1>8. <<Len(t), n>> \in OpToRel(<, Nat)
  BY <1>6 DEF OpToRel
<1> QED
  BY <1>2, <1>7, <1>8

\* g follows the recursion of EntriesAt as far as n.
Follows(g, s, I, n) ==
  g = [k \in 0..n |-> IF k = 0 THEN <<>> ELSE IF k \in I THEN Append(g[k - 1], s[k]) ELSE g[k - 1]]

LEMMA FollowsAt ==
  ASSUME NEW g, NEW s, NEW I, NEW n, Follows(g, s, I, n), NEW k \in 0..n
  PROVE  g[k] = IF k = 0 THEN <<>> ELSE IF k \in I THEN Append(g[k - 1], s[k]) ELSE g[k - 1]
<1> DEFINE e(j) == IF j = 0 THEN <<>> ELSE IF j \in I THEN Append(g[j - 1], s[j]) ELSE g[j - 1]
<1>1. g = [j \in 0..n |-> e(j)]
  BY DEF Follows
<1> HIDE DEF e
<1>2. [j \in 0..n |-> e(j)][k] = e(k)
  OBVIOUS
<1>3. g[k] = e(k)
  BY <1>1, <1>2
<1> QED
  BY <1>3 DEF e

\* One function does, and it depends on the first n entries only.
LEMMA FollowsUnique ==
  ASSUME NEW s, NEW t, NEW I, NEW n \in Nat, NEW m \in Nat, n <= m,
         NEW g, NEW h, Follows(g, s, I, n), Follows(h, t, I, m), \A k \in 1..n : s[k] = t[k]
  PROVE  g[n] = h[n]
<1> SUFFICES ASSUME g[n] # h[n]
             PROVE  FALSE
  OBVIOUS
<1> DEFINE Differ == {k \in Nat : k <= n /\ g[k] # h[k]}
<1>2. PICK k \in Differ : \A j \in Differ : ~(<<j, k>> \in OpToRel(<, Nat))
  <2>1. Differ \subseteq Nat /\ Differ # {}
    OBVIOUS
  <2> HIDE DEF Differ
  <2> QED
    BY <2>1, NatLessThanWellFounded, WFMin
<1>3. CASE k = 0
  <2>1. g[0] = <<>> /\ h[0] = <<>>
    BY DEF Follows
  <2> QED
    BY <2>1, <1>3
<1>4. CASE k # 0
  <2>1. k - 1 \in Nat /\ k \in 1..n /\ k \in 1..m /\ k - 1 < k
    BY <1>4
  <2>2. g[k - 1] = h[k - 1]
    <3>1. <<k - 1, k>> \in OpToRel(<, Nat)
      BY <2>1 DEF OpToRel
    <3>2. k - 1 \notin Differ
      BY <3>1, <1>2
    <3> QED
      BY <3>2, <2>1
  <2>3. g[k] = IF k \in I THEN Append(g[k - 1], s[k]) ELSE g[k - 1]
    BY <2>1, <1>4, FollowsAt
  <2>4. h[k] = IF k \in I THEN Append(h[k - 1], t[k]) ELSE h[k - 1]
    BY <2>1, <1>4, FollowsAt
  <2> QED
    BY <2>1, <2>2, <2>3, <2>4
<1> QED
  BY <1>3, <1>4

LEMMA FollowsMore ==
  ASSUME NEW s, NEW t, NEW I, NEW n \in Nat, NEW g, Follows(g, s, I, n), \A k \in 1..n : s[k] = t[k]
  PROVE  Follows([k \in 0..(n + 1) |-> IF k <= n THEN g[k]
                                       ELSE IF n + 1 \in I THEN Append(g[n], t[n + 1]) ELSE g[n]],
                 t, I, n + 1)
<1> DEFINE f == [k \in 0..(n + 1) |-> IF k <= n THEN g[k]
                                      ELSE IF n + 1 \in I THEN Append(g[n], t[n + 1]) ELSE g[n]]
<1> DEFINE e(k) == IF k = 0 THEN <<>> ELSE IF k \in I THEN Append(f[k - 1], t[k]) ELSE f[k - 1]
<1>1. ASSUME NEW k \in 0..(n + 1)
      PROVE  f[k] = e(k)
  <2>1. CASE k = 0
    BY <2>1 DEF Follows
  <2>2. CASE k \in 1..n
    <3>1. f[k] = g[k] /\ f[k - 1] = g[k - 1] /\ s[k] = t[k] /\ k # 0
      BY <2>2
    <3>2. g[k] = IF k \in I THEN Append(g[k - 1], s[k]) ELSE g[k - 1]
      BY <3>1, <2>2, FollowsAt
    <3> HIDE DEF f
    <3> QED
      BY <3>1, <3>2
  <2>3. CASE k = n + 1
    BY <2>3
  <2> QED
    BY <2>1, <2>2, <2>3
<1>2. f = [k \in 0..(n + 1) |-> e(k)]
  BY <1>1
<1> QED
  BY <1>2 DEF Follows

LEMMA FollowsSome ==
  ASSUME NEW X, NEW I, NEW s \in Seq(X)
  PROVE  \E g : Follows(g, s, I, Len(s))
<1> DEFINE T == {t \in Seq(X) : \E g : Follows(g, t, I, Len(t))}
<1>1. <<>> \in T
  <2> DEFINE g == [k \in 0..0 |-> <<>>]
  <2>1. Follows(g, <<>>, I, 0)
    BY DEF Follows
  <2> QED
    BY <2>1
<1>2. ASSUME NEW t \in Seq(X), NEW x \in X, t \in T
      PROVE  Append(t, x) \in T
  <2>1. PICK g : Follows(g, t, I, Len(t))
    BY <1>2
  <2>2. /\ Len(t) \in Nat /\ Append(t, x) \in Seq(X) /\ Len(Append(t, x)) = Len(t) + 1
        /\ \A k \in 1..Len(t) : t[k] = Append(t, x)[k]
    OBVIOUS
  <2>3. \E h : Follows(h, Append(t, x), I, Len(t) + 1)
    BY <2>1, <2>2, FollowsMore
  <2> QED
    BY <2>2, <2>3
<1> HIDE DEF T
<1>3. s \in T
  BY <1>1, <1>2, SeqsInduction
<1> QED
  BY <1>3 DEF T

LEMMA EntriesFollow ==
  ASSUME NEW X, NEW I, NEW s \in Seq(X)
  PROVE  \E g : Follows(g, s, I, Len(s)) /\ EntriesAt(s, I) = g[Len(s)]
<1> DEFINE h == CHOOSE h : Follows(h, s, I, Len(s))
<1>1. EntriesAt(s, I) = h[Len(s)]
  BY DEF EntriesAt, Follows
<1>2. \E g : Follows(g, s, I, Len(s))
  BY FollowsSome
<1>3. Follows(h, s, I, Len(s))
  BY <1>2, Zenon
<1> QED
  BY <1>1, <1>3

LEMMA EntriesEmpty ==
  ASSUME NEW I
  PROVE  EntriesAt(<<>>, I) = <<>>
<1>1. <<>> \in Seq({}) /\ Len(<<>>) = 0
  OBVIOUS
<1>2. PICK g : Follows(g, <<>>, I, 0) /\ EntriesAt(<<>>, I) = g[0]
  BY <1>1, EntriesFollow
<1> QED
  BY <1>2 DEF Follows

LEMMA EntriesAppend ==
  ASSUME NEW X, NEW I, NEW s \in Seq(X), NEW x \in X
  PROVE  EntriesAt(Append(s, x), I) =
           IF Len(s) + 1 \in I THEN Append(EntriesAt(s, I), x) ELSE EntriesAt(s, I)
<1> DEFINE t == Append(s, x)
<1> DEFINE n == Len(s)
<1>1. /\ n \in Nat /\ t \in Seq(X) /\ Len(t) = n + 1 /\ t[n + 1] = x
      /\ \A k \in 1..n : s[k] = t[k]
  OBVIOUS
<1> HIDE DEF t, n
<1>2. PICK g : Follows(g, s, I, n) /\ EntriesAt(s, I) = g[n]
  BY EntriesFollow DEF n
<1>3. PICK h : Follows(h, t, I, n + 1) /\ EntriesAt(t, I) = h[n + 1]
  BY <1>1, EntriesFollow
<1>4. g[n] = h[n]
  BY <1>1, <1>2, <1>3, FollowsUnique
<1>5. h[n + 1] = IF n + 1 \in I THEN Append(h[n], t[n + 1]) ELSE h[n]
  <2>1. n + 1 \in 0..(n + 1) /\ n + 1 # 0 /\ (n + 1) - 1 = n
    BY <1>1
  <2>2. h[n + 1] = IF n + 1 = 0 THEN <<>>
                   ELSE IF n + 1 \in I THEN Append(h[(n + 1) - 1], t[n + 1]) ELSE h[(n + 1) - 1]
    BY <2>1, <1>3, FollowsAt
  <2> QED
    BY <2>1, <2>2
<1> QED
  BY <1>1, <1>2, <1>3, <1>4, <1>5 DEF t, n

\* The entries are entries of s, in number no more.
LEMMA EntriesTypes ==
  ASSUME NEW X, NEW I, NEW s \in Seq(X)
  PROVE  EntriesAt(s, I) \in Seq(X) /\ Len(EntriesAt(s, I)) <= Len(s)
<1> DEFINE T == {t \in Seq(X) : EntriesAt(t, I) \in Seq(X) /\ Len(EntriesAt(t, I)) <= Len(t)}
<1>1. <<>> \in T
  <2>1. EntriesAt(<<>>, I) = <<>> /\ <<>> \in Seq(X) /\ Len(<<>>) = 0 /\ 0 <= 0
    BY EntriesEmpty
  <2> QED
    BY <2>1
<1>2. ASSUME NEW t \in Seq(X), NEW x \in X, t \in T
      PROVE  Append(t, x) \in T
  <2>1. EntriesAt(t, I) \in Seq(X) /\ Len(EntriesAt(t, I)) <= Len(t)
    BY <1>2
  <2>2. EntriesAt(Append(t, x), I) = IF Len(t) + 1 \in I THEN Append(EntriesAt(t, I), x)
                                     ELSE EntriesAt(t, I)
    BY EntriesAppend
  <2>3. /\ Len(EntriesAt(t, I)) \in Nat /\ Len(t) \in Nat
        /\ Append(t, x) \in Seq(X) /\ Len(Append(t, x)) = Len(t) + 1
    BY <2>1
  <2>4. Append(EntriesAt(t, I), x) \in Seq(X) /\ Len(Append(EntriesAt(t, I), x)) = Len(EntriesAt(t, I)) + 1
    BY <2>1
  <2>5. EntriesAt(Append(t, x), I) \in Seq(X) /\ Len(EntriesAt(Append(t, x), I)) <= Len(t) + 1
    BY <2>1, <2>2, <2>3, <2>4
  <2> QED
    BY <2>3, <2>5
<1> HIDE DEF T
<1>3. s \in T
  BY <1>1, <1>2, SeqsInduction
<1> QED
  BY <1>3 DEF T

LEMMA EntriesRange ==
  ASSUME NEW X, NEW I, NEW s \in Seq(X)
  PROVE  /\ \A k \in DOMAIN EntriesAt(s, I) : \E i \in I \cap DOMAIN s : EntriesAt(s, I)[k] = s[i]
         /\ \A i \in I \cap DOMAIN s : \E k \in DOMAIN EntriesAt(s, I) : EntriesAt(s, I)[k] = s[i]
<1> DEFINE Ranges(t) ==
      /\ \A k \in DOMAIN EntriesAt(t, I) : \E i \in I \cap DOMAIN t : EntriesAt(t, I)[k] = t[i]
      /\ \A i \in I \cap DOMAIN t : \E k \in DOMAIN EntriesAt(t, I) : EntriesAt(t, I)[k] = t[i]
<1> DEFINE T == {t \in Seq(X) : Ranges(t)}
<1>1. <<>> \in T
  BY EntriesEmpty
<1>2. ASSUME NEW t \in Seq(X), NEW x \in X, t \in T
      PROVE  Append(t, x) \in T
  <2> DEFINE u == Append(t, x)
  <2> DEFINE d == EntriesAt(t, I)
  <2> DEFINE e == EntriesAt(u, I)
  <2> DEFINE n == Len(t)
  <2>1. /\ \A k \in DOMAIN d : \E i \in I \cap DOMAIN t : d[k] = t[i]
        /\ \A i \in I \cap DOMAIN t : \E k \in DOMAIN d : d[k] = t[i]
    BY <1>2
  <2>2. /\ n \in Nat /\ DOMAIN t = 1..n /\ u \in Seq(X) /\ DOMAIN u = 1..(n + 1)
        /\ u[n + 1] = x /\ \A i \in 1..n : u[i] = t[i]
    OBVIOUS
  <2>3. d \in Seq(X)
    BY EntriesTypes
  <2>4. e = IF n + 1 \in I THEN Append(d, x) ELSE d
    BY EntriesAppend
  <2> HIDE DEF T, u, d, e, n
  <2>5. Ranges(u)
    <3>1. CASE n + 1 \in I
      <4> DEFINE m == Len(d)
      <4>1. /\ e = Append(d, x) /\ m \in Nat /\ DOMAIN d = 1..m /\ DOMAIN e = 1..(m + 1)
            /\ e[m + 1] = x /\ \A k \in 1..m : e[k] = d[k]
        BY <2>3, <2>4, <3>1
      <4> HIDE DEF m
      <4>2. ASSUME NEW k \in DOMAIN e
            PROVE  \E i \in I \cap DOMAIN u : e[k] = u[i]
        <5>1. CASE k = m + 1
          BY <5>1, <4>1, <2>2, <3>1
        <5>2. CASE k \in 1..m
          BY <5>2, <4>1, <2>1, <2>2
        <5> QED
          BY <5>1, <5>2, <4>1
      <4>3. ASSUME NEW i \in I \cap DOMAIN u
            PROVE  \E k \in DOMAIN e : e[k] = u[i]
        <5>1. CASE i = n + 1
          <6>1. m + 1 \in DOMAIN e
            BY <4>1
          <6>2. e[m + 1] = u[i]
            BY <5>1, <4>1, <2>2
          <6> QED
            BY <6>1, <6>2
        <5>2. CASE i \in 1..n
          <6>1. PICK k \in DOMAIN d : d[k] = t[i]
            BY <5>2, <2>1, <2>2
          <6> QED
            BY <6>1, <5>2, <4>1, <2>2
        <5> QED
          BY <5>1, <5>2, <2>2
      <4> QED
        BY <4>2, <4>3 DEF e
    <3>2. CASE n + 1 \notin I
      <4>1. e = d /\ I \cap DOMAIN u = I \cap DOMAIN t /\ \A i \in DOMAIN t : u[i] = t[i]
        BY <3>2, <2>2, <2>4
      <4> QED
        BY <4>1, <2>1 DEF e
    <3> QED
      BY <3>1, <3>2
  <2> QED
    BY <2>2, <2>5 DEF T, u
<1> HIDE DEF T, Ranges
<1>3. s \in T
  BY <1>1, <1>2, SeqsInduction
<1> QED
  BY <1>3 DEF T, Ranges

\* What has no entry twice keeps none twice.
LEMMA EntriesOnce ==
  ASSUME NEW X, NEW I, NEW s \in Seq(X), IsInjective(s)
  PROVE  IsInjective(EntriesAt(s, I))
<1> DEFINE T == {t \in Seq(X) : IsInjective(t) => IsInjective(EntriesAt(t, I))}
<1>1. <<>> \in T
  BY EntriesEmpty DEF IsInjective
<1>2. ASSUME NEW t \in Seq(X), NEW x \in X, t \in T
      PROVE  Append(t, x) \in T
  <2> DEFINE u == Append(t, x)
  <2> DEFINE d == EntriesAt(t, I)
  <2>1. /\ u \in Seq(X) /\ DOMAIN u = 1..(Len(t) + 1) /\ DOMAIN t = 1..Len(t) /\ Len(t) \in Nat
        /\ u[Len(t) + 1] = x /\ \A i \in 1..Len(t) : u[i] = t[i]
    OBVIOUS
  <2>2. d \in Seq(X) /\ (IsInjective(t) => IsInjective(d))
    BY <1>2, EntriesTypes
  <2>3. EntriesAt(u, I) = IF Len(t) + 1 \in I THEN Append(d, x) ELSE d
    BY EntriesAppend
  <2>4. \A k \in DOMAIN d : \E i \in DOMAIN t : d[k] = t[i]
    BY EntriesRange
  <2> HIDE DEF T, u, d
  <2>5. ASSUME IsInjective(u)
        PROVE  IsInjective(EntriesAt(u, I))
    <3>1. IsInjective(t) /\ \A i \in DOMAIN t : t[i] # x
      BY <2>1, <2>5 DEF IsInjective
    <3>2. IsInjective(d) /\ \A k \in DOMAIN d : d[k] # x
      BY <3>1, <2>2, <2>4
    <3>3. IsInjective(Append(d, x))
      <4>1. /\ DOMAIN d = 1..Len(d) /\ DOMAIN Append(d, x) = 1..(Len(d) + 1) /\ Len(d) \in Nat
            /\ Append(d, x)[Len(d) + 1] = x /\ \A i \in 1..Len(d) : Append(d, x)[i] = d[i]
        BY <2>2
      <4> QED
        BY <4>1, <3>2 DEF IsInjective
    <3> QED
      BY <3>2, <3>3, <2>3
  <2> QED
    BY <2>1, <2>5 DEF T, u
<1> HIDE DEF T
<1>3. s \in T
  BY <1>1, <1>2, SeqsInduction
<1> QED
  BY <1>3 DEF T

\* Only positions in s count, and what the entries are does not.
LEMMA EntriesSame ==
  ASSUME NEW X, NEW I, NEW J, NEW s \in Seq(X), I \cap DOMAIN s = J \cap DOMAIN s
  PROVE  EntriesAt(s, I) = EntriesAt(s, J)
<1> DEFINE T == {t \in Seq(X) : I \cap DOMAIN t = J \cap DOMAIN t => EntriesAt(t, I) = EntriesAt(t, J)}
<1>1. <<>> \in T
  BY EntriesEmpty
<1>2. ASSUME NEW t \in Seq(X), NEW x \in X, t \in T
      PROVE  Append(t, x) \in T
  <2>1. DOMAIN t = 1..Len(t) /\ DOMAIN Append(t, x) = 1..(Len(t) + 1) /\ Len(t) \in Nat
    OBVIOUS
  <2>2. ASSUME I \cap DOMAIN Append(t, x) = J \cap DOMAIN Append(t, x)
        PROVE  EntriesAt(Append(t, x), I) = EntriesAt(Append(t, x), J)
    <3>1. I \cap DOMAIN t = J \cap DOMAIN t
      BY <2>1, <2>2
    <3>2. Len(t) + 1 \in I <=> Len(t) + 1 \in J
      BY <2>1, <2>2
    <3>3. EntriesAt(t, I) = EntriesAt(t, J)
      BY <3>1, <1>2
    <3>4. /\ EntriesAt(Append(t, x), I) = IF Len(t) + 1 \in I THEN Append(EntriesAt(t, I), x)
                                          ELSE EntriesAt(t, I)
          /\ EntriesAt(Append(t, x), J) = IF Len(t) + 1 \in J THEN Append(EntriesAt(t, J), x)
                                          ELSE EntriesAt(t, J)
      BY EntriesAppend
    <3> QED
      BY <3>2, <3>3, <3>4
  <2> QED
    BY <2>2
<1> HIDE DEF T
<1>3. s \in T
  BY <1>1, <1>2, SeqsInduction
<1> QED
  BY <1>3 DEF T

-----------------------------------------------------------------------------
(* The filter.                                                             *)

LEMMA OnlyTypes ==
  ASSUME NEW X, NEW S, NEW s \in Seq(X)
  PROVE  /\ Only(s, S) \in Seq(X) /\ Len(Only(s, S)) <= Len(s)
         /\ \A k \in DOMAIN Only(s, S) : \E i \in DOMAIN s : Only(s, S)[k] = s[i] /\ s[i] \in S
         /\ \A i \in DOMAIN s : s[i] \in S => \E k \in DOMAIN Only(s, S) : Only(s, S)[k] = s[i]
         /\ IsInjective(s) => IsInjective(Only(s, S))
<1> DEFINE I == {i \in DOMAIN s : s[i] \in S}
<1>1. Only(s, S) = EntriesAt(s, I)
  BY DEF Only
<1>2. \A i \in I \cap DOMAIN s : s[i] \in S
  OBVIOUS
<1>3. \A i \in DOMAIN s : s[i] \in S => i \in I \cap DOMAIN s
  OBVIOUS
<1> HIDE DEF I
<1>4. EntriesAt(s, I) \in Seq(X) /\ Len(EntriesAt(s, I)) <= Len(s)
  BY EntriesTypes
<1>5. /\ \A k \in DOMAIN EntriesAt(s, I) : \E i \in I \cap DOMAIN s : EntriesAt(s, I)[k] = s[i]
      /\ \A i \in I \cap DOMAIN s : \E k \in DOMAIN EntriesAt(s, I) : EntriesAt(s, I)[k] = s[i]
  BY EntriesRange
<1>6. IsInjective(s) => IsInjective(EntriesAt(s, I))
  BY EntriesOnce
<1> QED
  BY <1>1, <1>2, <1>3, <1>4, <1>5, <1>6

LEMMA OnlyEmpty ==
  ASSUME NEW S
  PROVE  Only(<<>>, S) = <<>>
  BY EntriesEmpty DEF Only

LEMMA OnlyAppend ==
  ASSUME NEW X, NEW S, NEW s \in Seq(X), NEW x \in X
  PROVE  Only(Append(s, x), S) = IF x \in S THEN Append(Only(s, S), x) ELSE Only(s, S)
<1> DEFINE t == Append(s, x)
<1> DEFINE I == {i \in DOMAIN s : s[i] \in S}
<1> DEFINE J == {i \in DOMAIN t : t[i] \in S}
<1>1. /\ Len(s) \in Nat /\ DOMAIN s = 1..Len(s) /\ DOMAIN t = 1..(Len(s) + 1)
      /\ t[Len(s) + 1] = x /\ \A i \in 1..Len(s) : t[i] = s[i]
  OBVIOUS
<1>2. Only(s, S) = EntriesAt(s, I) /\ Only(t, S) = EntriesAt(t, J)
  BY DEF Only
<1> HIDE DEF t
<1>3. J \cap DOMAIN s = I \cap DOMAIN s /\ (Len(s) + 1 \in J <=> x \in S)
  BY <1>1
<1> HIDE DEF I, J
<1>4. EntriesAt(s, J) = EntriesAt(s, I)
  BY <1>3, EntriesSame
<1>5. EntriesAt(t, J) = IF Len(s) + 1 \in J THEN Append(EntriesAt(s, J), x) ELSE EntriesAt(s, J)
  BY EntriesAppend DEF t
<1> QED
  BY <1>2, <1>3, <1>4, <1>5 DEF t

\* A filter that takes everything.
LEMMA OnlyAll ==
  ASSUME NEW X, NEW S, NEW s \in Seq(X), \A i \in DOMAIN s : s[i] \in S
  PROVE  Only(s, S) = s
<1> DEFINE T == {t \in Seq(X) : (\A i \in DOMAIN t : t[i] \in S) => Only(t, S) = t}
<1>1. <<>> \in T
  BY OnlyEmpty
<1>2. ASSUME NEW t \in Seq(X), NEW x \in X, t \in T
      PROVE  Append(t, x) \in T
  <2>1. /\ DOMAIN t = 1..Len(t) /\ DOMAIN Append(t, x) = 1..(Len(t) + 1) /\ Len(t) \in Nat
        /\ Append(t, x)[Len(t) + 1] = x /\ \A i \in 1..Len(t) : Append(t, x)[i] = t[i]
        /\ Append(t, x) \in Seq(X)
    OBVIOUS
  <2>2. ASSUME \A i \in DOMAIN Append(t, x) : Append(t, x)[i] \in S
        PROVE  Only(Append(t, x), S) = Append(t, x)
    <3>1. x \in S /\ \A i \in DOMAIN t : t[i] \in S
      BY <2>1, <2>2
    <3>2. Only(t, S) = t
      BY <3>1, <1>2
    <3> QED
      BY <3>1, <3>2, OnlyAppend
  <2> QED
    BY <2>1, <2>2
<1> HIDE DEF T
<1>3. s \in T
  BY <1>1, <1>2, SeqsInduction
<1> QED
  BY <1>3 DEF T

\* The order of two filters does not matter.
LEMMA OnlyCommutes ==
  ASSUME NEW X, NEW S, NEW R, NEW s \in Seq(X)
  PROVE  Only(Only(s, S), R) = Only(Only(s, R), S)
<1> DEFINE T == {t \in Seq(X) : Only(Only(t, S), R) = Only(Only(t, R), S)}
<1>1. <<>> \in T
  BY OnlyEmpty
<1>2. ASSUME NEW t \in Seq(X), NEW x \in X, t \in T
      PROVE  Append(t, x) \in T
  <2>1. /\ Only(Append(t, x), S) = IF x \in S THEN Append(Only(t, S), x) ELSE Only(t, S)
        /\ Only(Append(t, x), R) = IF x \in R THEN Append(Only(t, R), x) ELSE Only(t, R)
    BY OnlyAppend
  <2>2. Only(t, S) \in Seq(X) /\ Only(t, R) \in Seq(X) /\ Append(t, x) \in Seq(X)
    BY OnlyTypes
  <2>3. Only(Only(t, S), R) = Only(Only(t, R), S)
    BY <1>2
  <2>4. /\ Only(Append(Only(t, S), x), R) = IF x \in R THEN Append(Only(Only(t, S), R), x)
                                            ELSE Only(Only(t, S), R)
        /\ Only(Append(Only(t, R), x), S) = IF x \in S THEN Append(Only(Only(t, R), S), x)
                                            ELSE Only(Only(t, R), S)
    BY <2>2, OnlyAppend
  <2>5. Only(Only(Append(t, x), S), R) = Only(Only(Append(t, x), R), S)
    BY <2>1, <2>3, <2>4
  <2> QED
    BY <2>2, <2>5
<1> HIDE DEF T
<1>3. s \in T
  BY <1>1, <1>2, SeqsInduction
<1> QED
  BY <1>3 DEF T

\* Where no entry comes twice, all but the first are the tail.
LEMMA OnlyTail ==
  ASSUME NEW X, NEW s \in Seq(X), s # <<>>, IsInjective(s)
  PROVE  Only(s, X \ {Head(s)}) = Tail(s)
<1> DEFINE T == {t \in Seq(X) : t # <<>> /\ IsInjective(t) => Only(t, X \ {Head(t)}) = Tail(t)}
<1>1. <<>> \in T
  OBVIOUS
<1>2. ASSUME NEW t \in Seq(X), NEW x \in X, t \in T
      PROVE  Append(t, x) \in T
  <2> DEFINE u == Append(t, x)
  <2>1. /\ u \in Seq(X) /\ DOMAIN u = 1..(Len(t) + 1) /\ DOMAIN t = 1..Len(t) /\ Len(t) \in Nat
        /\ u[Len(t) + 1] = x /\ \A i \in 1..Len(t) : u[i] = t[i]
    OBVIOUS
  <2>2. ASSUME IsInjective(u)
        PROVE  Only(u, X \ {Head(u)}) = Tail(u)
    <3>1. /\ Head(u) = (IF t = <<>> THEN x ELSE Head(t))
           /\ Tail(u) = IF t = <<>> THEN <<>> ELSE Append(Tail(t), x)
      BY HeadTailAppend
    <3>2. CASE t = <<>>
      <4>1. Head(u) = x /\ Tail(u) = <<>>
        BY <3>1, <3>2
      <4>2. Only(u, X \ {x}) = Only(t, X \ {x})
        <5>1. x \notin X \ {x}
          OBVIOUS
        <5> QED
          BY <5>1, OnlyAppend
      <4>3. Only(t, X \ {x}) = <<>>
        BY <3>2, OnlyEmpty
      <4> HIDE DEF u
      <4> QED
        BY <4>1, <4>2, <4>3
    <3>3. CASE t # <<>>
      <4>1. Len(t) \in Nat \ {0} /\ Head(t) = t[1]
        BY <3>3
      <4>2. IsInjective(t) /\ x # Head(t)
        BY <2>1, <2>2, <4>1 DEF IsInjective
      <4>3. Only(t, X \ {Head(t)}) = Tail(t)
        BY <4>2, <3>3, <1>2
      <4>4. x \in X \ {Head(t)}
        BY <4>2
      <4>5. Only(u, X \ {Head(t)}) = Append(Only(t, X \ {Head(t)}), x)
        <5> DEFINE S == X \ {Head(t)}
        <5> HIDE DEF S
        <5>1. Only(u, S) = IF x \in S THEN Append(Only(t, S), x) ELSE Only(t, S)
          BY OnlyAppend
        <5> QED
          BY <5>1, <4>4 DEF S
      <4>6. Head(u) = Head(t) /\ Tail(u) = Append(Tail(t), x)
        BY <3>1, <3>3
      <4> HIDE DEF u
      <4> QED
        BY <4>3, <4>5, <4>6
    <3> QED
      BY <3>2, <3>3
  <2> QED
    BY <2>1, <2>2
<1> HIDE DEF T
<1>3. s \in T
  BY <1>1, <1>2, SeqsInduction
<1> QED
  BY <1>3 DEF T

-----------------------------------------------------------------------------
(* Rows and the list beneath them.                                         *)

MsgsOf(rs) == [i \in DOMAIN rs |-> rs[i].msg]

LEMMA MsgsOfTypes ==
  ASSUME NEW rs \in Seq(TableRows)
  PROVE  MsgsOf(rs) \in Seq(Msgs) /\ DOMAIN MsgsOf(rs) = DOMAIN rs /\ Len(MsgsOf(rs)) = Len(rs)
<1>1. ASSUME NEW i \in 1..Len(rs)
      PROVE  rs[i].msg \in Msgs
  <2>1. rs[i] \in TableRows
    BY ElementOfSeq
  <2> QED
    BY <2>1 DEF TableRows
<1>2. DOMAIN rs = 1..Len(rs) /\ Len(rs) \in Nat
  OBVIOUS
<1>3. MsgsOf(rs) = [i \in 1..Len(rs) |-> rs[i].msg]
  BY <1>2 DEF MsgsOf
<1> QED
  BY <1>1, <1>2, <1>3

LEMMA MsgsOfAppend ==
  ASSUME NEW rs \in Seq(TableRows), NEW r \in TableRows
  PROVE  MsgsOf(Append(rs, r)) = Append(MsgsOf(rs), r.msg)
<1>1. r.msg \in Msgs /\ MsgsOf(rs) \in Seq(Msgs) /\ Len(MsgsOf(rs)) = Len(rs)
  BY MsgsOfTypes DEF TableRows
<1>2. Append(rs, r) \in Seq(TableRows) /\ Len(Append(rs, r)) = Len(rs) + 1
  OBVIOUS
<1>3. MsgsOf(Append(rs, r)) \in Seq(Msgs) /\ Len(MsgsOf(Append(rs, r))) = Len(rs) + 1
  BY <1>2, MsgsOfTypes
<1>4. Append(MsgsOf(rs), r.msg) \in Seq(Msgs) /\ Len(Append(MsgsOf(rs), r.msg)) = Len(rs) + 1
  BY <1>1
<1>5. ASSUME NEW i \in 1..(Len(rs) + 1)
      PROVE  MsgsOf(Append(rs, r))[i] = Append(MsgsOf(rs), r.msg)[i]
  <2>1. MsgsOf(Append(rs, r))[i] = Append(rs, r)[i].msg
    BY <1>2 DEF MsgsOf
  <2>2. CASE i = Len(rs) + 1
    BY <2>1, <2>2, <1>1
  <2>3. CASE i \in 1..Len(rs)
    BY <2>1, <2>3, <1>1 DEF MsgsOf
  <2>4. i = Len(rs) + 1 \/ i \in 1..Len(rs)
    <3>1. Len(rs) \in Nat
      OBVIOUS
    <3> QED
      BY <3>1
  <2> QED
    BY <2>2, <2>3, <2>4
<1> QED
  BY <1>3, <1>4, <1>5, SeqEqual

LEMMA MsgsOfEntries ==
  ASSUME NEW I, NEW rs \in Seq(TableRows)
  PROVE  MsgsOf(EntriesAt(rs, I)) = EntriesAt(MsgsOf(rs), I)
<1> DEFINE T == {t \in Seq(TableRows) : MsgsOf(EntriesAt(t, I)) = EntriesAt(MsgsOf(t), I)}
<1>1. <<>> \in T
  <2>1. MsgsOf(<<>>) = <<>>
    BY DEF MsgsOf
  <2> QED
    BY <2>1, EntriesEmpty
<1>2. ASSUME NEW t \in Seq(TableRows), NEW r \in TableRows, t \in T
      PROVE  Append(t, r) \in T
  <2>1. EntriesAt(t, I) \in Seq(TableRows) /\ MsgsOf(EntriesAt(t, I)) = EntriesAt(MsgsOf(t), I)
    BY <1>2, EntriesTypes
  <2>2. MsgsOf(t) \in Seq(Msgs) /\ Len(MsgsOf(t)) = Len(t) /\ r.msg \in Msgs
    BY MsgsOfTypes DEF TableRows
  <2>3. EntriesAt(Append(t, r), I) = IF Len(t) + 1 \in I THEN Append(EntriesAt(t, I), r) ELSE EntriesAt(t, I)
    BY EntriesAppend
  <2>4. MsgsOf(Append(t, r)) = Append(MsgsOf(t), r.msg)
    BY MsgsOfAppend
  <2>5. EntriesAt(Append(MsgsOf(t), r.msg), I) =
          IF Len(t) + 1 \in I THEN Append(EntriesAt(MsgsOf(t), I), r.msg) ELSE EntriesAt(MsgsOf(t), I)
    <3> DEFINE m == MsgsOf(t)
    <3> DEFINE x == r.msg
    <3>1. m \in Seq(Msgs) /\ Len(m) = Len(t) /\ x \in Msgs
      BY <2>2
    <3> HIDE DEF m, x, T
    <3>2. EntriesAt(Append(m, x), I) =
            IF Len(m) + 1 \in I THEN Append(EntriesAt(m, I), x) ELSE EntriesAt(m, I)
      BY <3>1, EntriesAppend
    <3> QED
      BY <3>1, <3>2 DEF m, x
  <2>6. MsgsOf(Append(EntriesAt(t, I), r)) = Append(EntriesAt(MsgsOf(t), I), r.msg)
    BY <2>1, MsgsOfAppend
  <2>7. MsgsOf(EntriesAt(Append(t, r), I)) = EntriesAt(MsgsOf(Append(t, r)), I)
    BY <2>1, <2>3, <2>4, <2>5, <2>6
  <2> QED
    BY <2>7
<1> HIDE DEF T
<1>3. rs \in T
  BY <1>1, <1>2, SeqsInduction
<1> QED
  BY <1>3 DEF T

\* Where the first of several like entries is.
LEMMA FirstOfSome ==
  ASSUME NEW X, NEW s \in Seq(X), NEW e, \E i \in 1..Len(s) : s[i] = e
  PROVE  \E k \in 1..Len(s) :
           /\ s[k] = e /\ \A j \in 1..(k - 1) : s[j] # e
           /\ RemoveFirst(s, e) = SubSeq(s, 1, k - 1) \o SubSeq(s, k + 1, Len(s))
<1> DEFINE I == {i \in 1..Len(s) : s[i] = e}
<1> DEFINE k == Min(I)
<1>1. RemoveFirst(s, e) = SubSeq(s, 1, k - 1) \o SubSeq(s, k + 1, Len(s))
  BY DEF RemoveFirst, RemoveAt, SelectInSeq
<1>2. I \subseteq Nat /\ I # {}
  OBVIOUS
<1>3. k \in I /\ \A j \in I : k <= j
  <2> HIDE DEF I
  <2>1. PICK n \in I : \A m \in I : ~(<<m, n>> \in OpToRel(<, Nat))
    BY <1>2, NatLessThanWellFounded, WFMin
  <2>2. ASSUME NEW m \in I
        PROVE  n <= m
    <3>1. m \in Nat /\ n \in Nat
      BY <1>2, <2>1
    <3>2. CASE m < n
      <4>1. <<m, n>> \in OpToRel(<, Nat)
        BY <3>1, <3>2 DEF OpToRel
      <4> QED
        BY <4>1, <2>1
    <3> QED
      BY <3>1, <3>2
  <2>3. k = CHOOSE x \in I : \A y \in I : x <= y
    BY DEF Min
  <2> HIDE DEF k
  <2> QED
    BY <2>2, <2>3
<1>4. \A j \in 1..(k - 1) : s[j] # e
  <2>1. \A j \in 1..(k - 1) : j \in 1..Len(s) /\ ~(k <= j)
    BY <1>2, <1>3
  <2> QED
    BY <1>3, <2>1
<1> QED
  BY <1>1, <1>3, <1>4

LEMMA RemoveFirstTypes ==
  ASSUME NEW X, NEW s \in Seq(X), NEW e
  PROVE  RemoveFirst(s, e) \in Seq(X)
<1>1. CASE \E i \in 1..Len(s) : s[i] = e
  <2>1. PICK k \in 1..Len(s) :
          RemoveFirst(s, e) = SubSeq(s, 1, k - 1) \o SubSeq(s, k + 1, Len(s))
    BY <1>1, FirstOfSome
  <2> QED
    BY <2>1
<1>2. CASE ~ \E i \in 1..Len(s) : s[i] = e
  BY <1>2 DEF RemoveFirst
<1> QED
  BY <1>1, <1>2

LEMMA RemoveFirstAppend ==
  ASSUME NEW X, NEW s \in Seq(X), NEW x \in X, NEW e
  PROVE  RemoveFirst(Append(s, x), e) =
           IF \E i \in 1..Len(s) : s[i] = e THEN Append(RemoveFirst(s, e), x)
           ELSE IF x = e THEN s ELSE Append(s, x)
<1> DEFINE u == Append(s, x)
<1> DEFINE n == Len(s)
<1>1. /\ n \in Nat /\ u \in Seq(X) /\ Len(u) = n + 1 /\ u[n + 1] = x
      /\ \A i \in 1..n : u[i] = s[i]
  OBVIOUS
<1> HIDE DEF u, n
<1>2. CASE \E i \in 1..n : s[i] = e
  <2>1. PICK k \in 1..n : /\ s[k] = e /\ \A j \in 1..(k - 1) : s[j] # e
                          /\ RemoveFirst(s, e) = SubSeq(s, 1, k - 1) \o SubSeq(s, k + 1, n)
    BY <1>2, FirstOfSome DEF n
  <2>2. \E i \in 1..Len(u) : u[i] = e
    <3>1. k \in 1..Len(u) /\ u[k] = e
      BY <1>1, <2>1
    <3> QED
      BY <3>1
  <2>3. PICK l \in 1..Len(u) : /\ u[l] = e /\ \A j \in 1..(l - 1) : u[j] # e
                               /\ RemoveFirst(u, e) = SubSeq(u, 1, l - 1) \o SubSeq(u, l + 1, Len(u))
    BY <2>2, <1>1, FirstOfSome
  <2>4. l = k
    <3>1. k \in Nat /\ l \in Nat /\ n \in Nat /\ k <= n /\ 1 <= l /\ 1 <= k
      BY <1>1, <2>1, <2>3
    <3>2. ~(k < l)
      <4>1. u[k] = e
        BY <1>1, <2>1
      <4>2. k < l => k \in 1..(l - 1)
        BY <3>1
      <4> QED
        BY <4>1, <4>2, <2>3
    <3>3. ~(l < k)
      <4>1. l < k => l \in 1..(k - 1) /\ l \in 1..n
        BY <3>1
      <4> QED
        BY <4>1, <1>1, <2>1, <2>3
    <3> QED
      BY <3>1, <3>2, <3>3
  <2>5. SubSeq(u, 1, k - 1) = SubSeq(s, 1, k - 1)
    BY <1>1 DEF n
  <2>6. SubSeq(u, k + 1, n + 1) = Append(SubSeq(s, k + 1, n), x)
    <3> DEFINE a == SubSeq(u, k + 1, n + 1)
    <3> DEFINE b == SubSeq(s, k + 1, n)
    <3> DEFINE m == n - k
    <3>1. s \in Seq(X) /\ n = Len(s) /\ k \in Nat /\ k <= n /\ m \in Nat /\ k + m = n
      BY <1>1, <2>1 DEF n
    <3>2. a \in Seq(X) /\ Len(a) = m + 1 /\ \A i \in 1..(m + 1) : a[i] = u[k + i]
      <4>1. k + 1 \in Int /\ n + 1 \in Int /\ \A i \in (k + 1)..(n + 1) : u[i] \in X
        BY <1>1, <3>1, ElementOfSeq
      <4>2. /\ a \in Seq(X)
            /\ Len(a) = IF k + 1 <= n + 1 THEN (n + 1) - (k + 1) + 1 ELSE 0
            /\ \A i \in 1..((n + 1) - (k + 1) + 1) : a[i] = u[(k + 1) + i - 1]
        BY <4>1, SubSeqProperties
      <4>3. (n + 1) - (k + 1) + 1 = m + 1 /\ k + 1 <= n + 1
        BY <3>1, <1>1
      <4>4. \A i \in 1..(m + 1) : (k + 1) + i - 1 = k + i
        BY <3>1
      <4> HIDE DEF a
      <4> QED
        BY <4>2, <4>3, <4>4
    <3>3. b \in Seq(X) /\ Len(b) = m /\ \A i \in 1..m : b[i] = s[k + i]
      <4>1. k + 1 \in Int /\ n \in Int /\ \A i \in (k + 1)..n : s[i] \in X
        BY <1>1, <3>1, ElementOfSeq
      <4>2. /\ b \in Seq(X)
            /\ Len(b) = IF k + 1 <= n THEN n - (k + 1) + 1 ELSE 0
            /\ \A i \in 1..(n - (k + 1) + 1) : b[i] = s[(k + 1) + i - 1]
        BY <4>1, SubSeqProperties
      <4>3. n - (k + 1) + 1 = m /\ (k + 1 > n => m = 0)
        BY <3>1, <1>1
      <4>4. \A i \in 1..m : (k + 1) + i - 1 = k + i
        BY <3>1
      <4>5. k + 1 <= n \/ k + 1 > n
        BY <3>1, <1>1
      <4> HIDE DEF b
      <4> QED
        BY <4>2, <4>3, <4>4, <4>5
    <3> HIDE DEF a, b, m
    <3>4. /\ Append(b, x) \in Seq(X) /\ Len(Append(b, x)) = Len(b) + 1
          /\ \A i \in 1..Len(b) : Append(b, x)[i] = b[i]
          /\ Append(b, x)[Len(b) + 1] = x
      BY <3>3, AppendProperties
    <3>5. ASSUME NEW i \in 1..(m + 1)
          PROVE  a[i] = Append(b, x)[i]
      <4>1. a[i] = u[k + i]
        BY <3>2
      <4>2. CASE i = m + 1
        <5>1. k + i = n + 1
          BY <3>1, <4>2, <1>1
        <5> QED
          BY <4>1, <4>2, <5>1, <3>3, <3>4, <1>1
      <4>3. CASE i \in 1..m
        <5>1. k + i \in 1..n
          BY <3>1, <4>3, <1>1
        <5> QED
          BY <4>1, <4>3, <5>1, <3>3, <3>4, <1>1
      <4>4. i = m + 1 \/ i \in 1..m
        BY <3>1
      <4> QED
        BY <4>2, <4>3, <4>4
    <3>6. a = Append(b, x)
      BY <3>2, <3>3, <3>4, <3>5, SeqEqual
    <3> QED
      BY <3>6 DEF a, b
  <2>7. SubSeq(s, 1, k - 1) \in Seq(X) /\ SubSeq(s, k + 1, n) \in Seq(X)
    BY <1>1 DEF n
  <2>8. RemoveFirst(u, e) = Append(SubSeq(s, 1, k - 1) \o SubSeq(s, k + 1, n), x)
    <3> DEFINE a == SubSeq(s, 1, k - 1)
    <3> DEFINE b == SubSeq(s, k + 1, n)
    <3>1. RemoveFirst(u, e) = a \o Append(b, x)
      BY <1>1, <2>3, <2>4, <2>5, <2>6
    <3> HIDE DEF a, b
    <3>2. a \in Seq(X) /\ b \in Seq(X) /\ a \o b \in Seq(X) /\ <<x>> \in Seq(X)
      BY <2>7 DEF a, b
    <3>3. a \o Append(b, x) = a \o (b \o <<x>>)
      BY <3>2, AppendIsConcat
    <3>4. Append(a \o b, x) = (a \o b) \o <<x>>
      BY <3>2, AppendIsConcat
    <3>5. (a \o b) \o <<x>> = a \o (b \o <<x>>)
      <4> DEFINE c == <<x>>
      <4>1. a \in Seq(X) /\ b \in Seq(X) /\ c \in Seq(X)
        BY <3>2
      <4> HIDE DEF c
      <4>2. (a \o b) \o c = a \o (b \o c)
        BY <4>1, ConcatAssociative, SMTT(20)
      <4> QED
        BY <4>2 DEF c
    <3> QED
      BY <3>1, <3>3, <3>4, <3>5 DEF a, b
  <2> QED
    BY <1>2, <2>1, <2>8 DEF u, n
<1>3. CASE ~(\E i \in 1..n : s[i] = e) /\ x = e
  <2>1. \E i \in 1..Len(u) : u[i] = e
    BY <1>1, <1>3
  <2>2. PICK l \in 1..Len(u) : /\ u[l] = e
                               /\ RemoveFirst(u, e) = SubSeq(u, 1, l - 1) \o SubSeq(u, l + 1, Len(u))
    BY <2>1, <1>1, FirstOfSome
  <2>3. l = n + 1
    BY <1>1, <1>3, <2>2
  <2>4. SubSeq(u, 1, n) = s /\ SubSeq(u, n + 2, n + 1) = <<>>
    BY <1>1 DEF n
  <2> QED
    BY <1>1, <1>3, <2>2, <2>3, <2>4 DEF u, n
<1>4. CASE ~(\E i \in 1..n : s[i] = e) /\ x # e
  <2>1. ~ \E i \in 1..Len(u) : u[i] = e
    BY <1>1, <1>4
  <2> QED
    BY <1>4, <2>1 DEF RemoveFirst, u, n
<1> QED
  BY <1>2, <1>3, <1>4 DEF n

\* Where no entry comes twice, all but that one are left.
LEMMA RemoveFirstOnly ==
  ASSUME NEW X, NEW s \in Seq(X), NEW e, IsInjective(s)
  PROVE  RemoveFirst(s, e) = Only(s, X \ {e})
<1> DEFINE T == {t \in Seq(X) : IsInjective(t) => RemoveFirst(t, e) = Only(t, X \ {e})}
<1>1. <<>> \in T
  BY OnlyEmpty DEF RemoveFirst
<1>2. ASSUME NEW t \in Seq(X), NEW x \in X, t \in T
      PROVE  Append(t, x) \in T
  <2> DEFINE u == Append(t, x)
  <2>1. /\ u \in Seq(X) /\ DOMAIN u = 1..(Len(t) + 1) /\ DOMAIN t = 1..Len(t) /\ Len(t) \in Nat
        /\ u[Len(t) + 1] = x /\ \A i \in 1..Len(t) : u[i] = t[i]
    OBVIOUS
  <2>2. ASSUME IsInjective(u)
        PROVE  RemoveFirst(u, e) = Only(u, X \ {e})
    <3>1. IsInjective(t) /\ \A i \in 1..Len(t) : t[i] # x
      BY <2>1, <2>2 DEF IsInjective
    <3>2. RemoveFirst(t, e) = Only(t, X \ {e})
      BY <3>1, <1>2
    <3>3. RemoveFirst(u, e) = IF \E i \in 1..Len(t) : t[i] = e THEN Append(RemoveFirst(t, e), x)
                              ELSE IF x = e THEN t ELSE Append(t, x)
      BY RemoveFirstAppend
    <3>4. Only(u, X \ {e}) = IF x \in X \ {e} THEN Append(Only(t, X \ {e}), x) ELSE Only(t, X \ {e})
      BY OnlyAppend
    <3> HIDE DEF u, T
    <3>5. CASE \E i \in 1..Len(t) : t[i] = e
      BY <3>1, <3>2, <3>3, <3>4, <3>5
    <3>6. CASE ~ \E i \in 1..Len(t) : t[i] = e
      <4>1. \A i \in DOMAIN t : t[i] \in X \ {e}
        BY <3>6, <2>1, ElementOfSeq
      <4>2. Only(t, X \ {e}) = t
        BY <4>1, OnlyAll
      <4> QED
        BY <4>2, <3>3, <3>4, <3>6
    <3> QED
      BY <3>5, <3>6
  <2> QED
    BY <2>1, <2>2
<1> HIDE DEF T
<1>3. s \in T
  BY <1>1, <1>2, SeqsInduction
<1> QED
  BY <1>3 DEF T

\* Rows that go by id go as a filter would take their messages.
LEMMA RowsRemoved ==
  ASSUME NEW rs \in Seq(TableRows), NEW ids,
         \A i \in DOMAIN rs, j \in DOMAIN rs : IdOf(rs[i].msg) = IdOf(rs[j].msg) => i = j
  PROVE  MsgsOf(removeMessageRow(rs, ids)) = Only(MsgsOf(rs), {m \in Msgs : IdOf(m) \notin ids})
<1> DEFINE S == {m \in Msgs : IdOf(m) \notin ids}
<1> DEFINE I == {i \in DOMAIN rs : IdOf(rs[i].msg) \in ids =>
                   \E j \in 1..(i - 1) : IdOf(rs[j].msg) = IdOf(rs[i].msg)}
<1> DEFINE J == {i \in DOMAIN MsgsOf(rs) : MsgsOf(rs)[i] \in S}
<1>1. MsgsOf(rs) \in Seq(Msgs) /\ DOMAIN MsgsOf(rs) = DOMAIN rs
  BY MsgsOfTypes
<1>2. DOMAIN rs = 1..Len(rs) /\ Len(rs) \in Nat
  OBVIOUS
<1>3. \A i \in DOMAIN rs : rs[i].msg \in Msgs /\ MsgsOf(rs)[i] = rs[i].msg
  <2>1. \A i \in DOMAIN rs : MsgsOf(rs)[i] = rs[i].msg
    BY DEF MsgsOf
  <2> QED
    BY <1>1, <1>2, <2>1, ElementOfSeq
<1>4. I \cap DOMAIN MsgsOf(rs) = J \cap DOMAIN MsgsOf(rs)
  <2>1. ASSUME NEW i \in DOMAIN rs
        PROVE  i \in I <=> i \in J
    <3>1. \A j \in 1..(i - 1) : j \in DOMAIN rs /\ j # i
      BY <1>2
    <3>2. ~ \E j \in 1..(i - 1) : IdOf(rs[j].msg) = IdOf(rs[i].msg)
      BY <3>1
    <3>3. i \in I <=> IdOf(rs[i].msg) \notin ids
      BY <3>2
    <3>4. i \in J <=> IdOf(rs[i].msg) \notin ids
      BY <1>1, <1>3
    <3> QED
      BY <3>3, <3>4
  <2> QED
    BY <1>1, <2>1
<1>5. MsgsOf(removeMessageRow(rs, ids)) = MsgsOf(EntriesAt(rs, I))
  BY DEF removeMessageRow
<1>6. Only(MsgsOf(rs), S) = EntriesAt(MsgsOf(rs), J)
  BY DEF Only
<1> HIDE DEF I, J, S
<1>7. MsgsOf(EntriesAt(rs, I)) = EntriesAt(MsgsOf(rs), I)
  BY MsgsOfEntries
<1>8. EntriesAt(MsgsOf(rs), I) = EntriesAt(MsgsOf(rs), J)
  BY <1>1, <1>4, EntriesSame
<1> QED
  BY <1>5, <1>6, <1>7, <1>8 DEF S

\* The rows that are left were there.
LEMMA RowsLeft ==
  ASSUME NEW rs \in Seq(TableRows), NEW ids
  PROVE  /\ removeMessageRow(rs, ids) \in Seq(TableRows)
         /\ \A k \in DOMAIN removeMessageRow(rs, ids) :
              \E i \in DOMAIN rs : removeMessageRow(rs, ids)[k] = rs[i]
<1> DEFINE I == {i \in DOMAIN rs : IdOf(rs[i].msg) \in ids =>
                   \E j \in 1..(i - 1) : IdOf(rs[j].msg) = IdOf(rs[i].msg)}
<1>1. removeMessageRow(rs, ids) = EntriesAt(rs, I)
  BY DEF removeMessageRow
<1> HIDE DEF I
<1>2. EntriesAt(rs, I) \in Seq(TableRows)
  BY EntriesTypes
<1>3. \A k \in DOMAIN EntriesAt(rs, I) : \E i \in I \cap DOMAIN rs : EntriesAt(rs, I)[k] = rs[i]
  BY EntriesRange
<1> QED
  BY <1>1, <1>2, <1>3

LEMMA Rendered ==
  ASSUME NEW ms \in Seq(Msgs), NEW ro \in BOOLEAN
  PROVE  /\ renderList(ms, ro) \in Seq(TableRows) /\ MsgsOf(renderList(ms, ro)) = ms
         /\ DOMAIN renderList(ms, ro) = DOMAIN ms
         /\ \A i \in DOMAIN ms : renderList(ms, ro)[i] = [msg |-> ms[i], checked |-> FALSE, canDelete |-> ~ro]
<1>1. DOMAIN ms = 1..Len(ms) /\ Len(ms) \in Nat /\ \A i \in 1..Len(ms) : ms[i] \in Msgs
  BY ElementOfSeq
<1>2. \A i \in 1..Len(ms) : createRow(ms[i], ro) \in TableRows
  BY <1>1 DEF createRow, TableRows
<1>3. renderList(ms, ro) = [i \in 1..Len(ms) |-> createRow(ms[i], ro)]
  BY <1>1 DEF renderList
<1>4. renderList(ms, ro) \in Seq(TableRows) /\ DOMAIN renderList(ms, ro) = 1..Len(ms)
  BY <1>1, <1>2, <1>3
<1>5. \A i \in 1..Len(ms) : renderList(ms, ro)[i].msg = ms[i]
  BY <1>3 DEF createRow
<1>6. MsgsOf(renderList(ms, ro)) = [i \in 1..Len(ms) |-> ms[i]]
  BY <1>4, <1>5 DEF MsgsOf
<1>7. [i \in 1..Len(ms) |-> ms[i]] = ms
  BY <1>1
<1> QED
  BY <1>1, <1>3, <1>4, <1>6, <1>7 DEF createRow

-----------------------------------------------------------------------------
(* The inductive invariant.                                                *)

TypeStore ==
  /\ phase \in [Browsers -> Phases] /\ queueOf \in [Browsers -> Queues \cup {Null}]
  /\ permission \in [Browsers -> {"unknown", "ro", "rw"}]
  /\ cursor \in [Browsers -> SUBSET Nat] /\ removed \subseteq Msgs /\ session \in BOOLEAN
  /\ inst \in [Queues -> {Null} \cup Browsers] /\ stored \subseteq Queues
  /\ store \in [Queues -> Seq(Msgs)] /\ \A q \in Queues \ stored : store[q] = <<>>
  /\ options \in Seq(Queues) /\ late \in 0..MaxBrowsers

TypeView ==
  /\ current \in Queues \cup {Null} /\ readOnly \in BOOLEAN
  /\ linked \in BOOLEAN /\ (linked => current \in stored) /\ own \in Seq(Msgs)
  /\ same \in BOOLEAN /\ copy \in Seq(Msgs)
  /\ filter \in Filters /\ rows \in Seq(TableRows) /\ details \in Ids \cup {Null}
  /\ broken \in BOOLEAN

\* The queues with a browser.
Bound(in) == {q \in Queues : in[q] # Null}

\* Browsers are created one after the other.  The page's are bound to their queues, and every
\* live one is the page's.
Bindings ==
  /\ \E n \in 0..MaxBrowsers : Used = 1..n
  /\ \A b \in Used : queueOf[b] \in Queues
  /\ \A q \in Queues : inst[q] # Null => inst[q] \in Used /\ queueOf[inst[q]] = q /\ q \in stored
  /\ Cardinality(Bound(inst)) <= MaxBindings
  /\ \A b \in Live : session /\ inst[queueOf[b]] = b

\* Messages of the queue q only.
Of(s, q) == \A k \in DOMAIN s : s[k][1] = q

\* What was stored was delivered by the browser that is bound, and once.
Delivered ==
  /\ \A q \in Queues : store[q] # <<>> => inst[q] # Null
  /\ \A q \in Queues : \A k \in DOMAIN store[q] : store[q][k][2] \in cursor[inst[q]]
  /\ \A b \in Browsers : phase[b] \in {"unused", "connecting"} => cursor[b] = {}
  /\ \A q \in Queues : IsInjective(store[q]) /\ removed \cap ToSet(store[q]) = {}

StoreInv ==
  /\ TypeStore /\ Bindings
  /\ \A q \in Queues : Of(store[q], q) /\ Len(store[q]) <= Cap
  /\ \A b \in Browsers : phase[b] = "up" => permission[b] \in {"ro", "rw"}
  /\ late = 0 => Delivered

\* The lists and the table are of the selected queue, and what may be done with a row is what
\* the broker said of the queue.
ViewOf ==
  /\ Of(own, current) /\ Len(own) <= Cap /\ Of(copy, current)
  /\ \A i \in DOMAIN rows : rows[i].msg[1] = current /\ rows[i].canDelete = ~readOnly

Allowed ==
  current # Null /\ inst[current] # Null /\ phase[inst[current]] = "up" =>
    (readOnly <=> permission[inst[current]] = "ro")

Exact ==
  /\ ~broken
  /\ ~linked => own = <<>> /\ (current # Null => store[current] = <<>>)
  /\ same => filter = NoFilter
  /\ MsgsOf(rows) = displayed /\ displayed = Only(all, Passing(filter))
  /\ details # Null => \E i \in DOMAIN rows : IdOf(rows[i].msg) = details

ViewInv == TypeView /\ ViewOf /\ Allowed /\ (late = 0 => Exact)

\* StoreInv is of the browsers and the store, ViewInv of the page over it.
BrowserInv == StoreInv /\ ViewInv

-----------------------------------------------------------------------------
(* The browsers and the store.                                             *)

\* As many queues are bound as browsers are known, at most.
LEMMA BoundFinite ==
  ASSUME NEW in \in [Queues -> {Null} \cup Browsers], NEW of, NEW n \in Nat,
         \A q \in Queues : in[q] # Null => in[q] \in 1..n /\ of[in[q]] = q
  PROVE  IsFiniteSet(Bound(in))
<1> DEFINE f == [q \in Bound(in) |-> in[q]]
<1>1. f \in Injection(Bound(in), 1..n)
  <2>1. f \in [Bound(in) -> 1..n]
    BY DEF Bound
  <2>2. \A q, r \in Bound(in) : in[q] = in[r] => q = r
    BY DEF Bound
  <2> QED
    BY <2>1, <2>2 DEF Injection, IsInjective
<1>2. IsFiniteSet(1..n)
  BY FS_Interval
<1> HIDE DEF f
<1> QED
  BY <1>1, <1>2, FS_Injection

LEMMA UsedCount ==
  ASSUME StoreInv
  PROVE  \E n \in 0..MaxBrowsers : Used = 1..n /\ Cardinality(Used) = n /\ IsFiniteSet(Bound(inst))
<1>1. PICK n \in 0..MaxBrowsers : Used = 1..n
  BY DEF StoreInv, Bindings
<1>2. n \in Nat /\ n \in Int /\ 1 \in Int
  BY BrowserAssumption
<1>3. Cardinality(1..n) = IF 1 > n THEN 0 ELSE n - 1 + 1
  BY <1>2, FS_Interval
<1>4. Cardinality(Used) = n
  BY <1>1, <1>2, <1>3
<1>5. IsFiniteSet(Bound(inst))
  <2>1. inst \in [Queues -> {Null} \cup Browsers]
    BY DEF StoreInv, TypeStore
  <2>2. \A q \in Queues : inst[q] # Null => inst[q] \in 1..n /\ queueOf[inst[q]] = q
    BY <1>1 DEF StoreInv, Bindings
  <2> QED
    BY <1>2, <2>1, <2>2, BoundFinite
<1> QED
  BY <1>1, <1>4, <1>5

\* The bound leaves room for one more event or browser.
LEMMA SpareRoom ==
  ASSUME StoreInv, Spare
  PROVE  late + 1 \in 0..MaxBrowsers
<1>1. PICK n \in 0..MaxBrowsers : Cardinality(Used) = n
  BY UsedCount
<1>2. late \in Nat /\ n \in Nat /\ MaxBrowsers \in Nat
  BY <1>1, BrowserAssumption DEF StoreInv, TypeStore
<1> QED
  BY <1>1, <1>2 DEF Spare

\* A live browser is the page's.
LEMMA LiveKnown ==
  ASSUME StoreInv, NEW b \in Browsers, phase[b] \in {"connecting", "up"}
  PROVE  /\ b \in Used /\ queueOf[b] \in Queues /\ inst[queueOf[b]] = b /\ b # Null /\ session
         /\ queueOf[b] \in stored
  BY BrowserAssumption DEF StoreInv, Bindings, Live, Used, Browsers

LEMMA StoreSame ==
  ASSUME StoreInv, UNCHANGED <<sdkVars, session, storeVars, options, late>>
  PROVE  StoreInv'
<1>1. /\ UNCHANGED <<phase, queueOf, permission, cursor, removed>> /\ UNCHANGED session
      /\ UNCHANGED <<inst, stored, store>> /\ UNCHANGED <<options, late>>
  BY DEF sdkVars, storeVars
<1>2. TypeStore'
  BY <1>1 DEF StoreInv, TypeStore
<1>3. Bindings'
  BY <1>1 DEF StoreInv, Bindings, Used, Live, Bound
<1>4. Delivered' <=> Delivered
  BY <1>1 DEF Delivered
<1> QED
  BY <1>1, <1>2, <1>3, <1>4 DEF StoreInv

LEMMA ConnectedStore ==
  ASSUME StoreInv, Connected
  PROVE  StoreInv'
<1>1. /\ UNCHANGED <<phase, queueOf, permission, cursor, removed>>
      /\ session' = TRUE
      /\ UNCHANGED <<inst, stored, store>> /\ UNCHANGED <<options, late>>
  BY DEF Connected, sdkVars, storeVars, faultVars
<1>2. TypeStore'
  BY <1>1 DEF StoreInv, TypeStore
<1>3. Bindings'
  BY <1>1 DEF StoreInv, Bindings, Used, Live, Bound
<1> QED
  BY <1>1, <1>2, <1>3 DEF StoreInv, Delivered

\* Browsers come to other phases, none of them live, and the page forgets what it had of the
\* queues Q.
Forgets(Q) ==
  /\ UNCHANGED <<queueOf, permission, cursor, removed>> /\ late' \in {late, late + 1}
  /\ late' \in 0..MaxBrowsers
  /\ phase' \in [Browsers -> Phases]
  /\ \A b \in Browsers : phase'[b] = phase[b] \/ (phase[b] # "unused" /\ phase'[b] \in {"aborted", "ended"})
  /\ inst' = [q \in Queues |-> IF q \in Q THEN Null ELSE inst[q]]
  /\ stored' = stored \ Q
  /\ store' = [q \in Queues |-> IF q \in Q THEN <<>> ELSE store[q]]
  /\ session' \in BOOLEAN /\ options' \in Seq(Queues)
  /\ \A b \in Browsers : phase'[b] \in {"connecting", "up"} => queueOf[b] \notin Q /\ session'

LEMMA ForgetsStore ==
  ASSUME StoreInv, NEW Q, Q \subseteq Queues, Forgets(Q)
  PROVE  StoreInv'
<1>1. TypeStore'
  BY DEF StoreInv, TypeStore, Forgets
<1>2. Used' = Used /\ Live' \subseteq Live
  BY DEF Forgets, Used, Live, StoreInv, TypeStore
<1>3. Bindings'
  <2>1. Cardinality(Bound(inst')) <= MaxBindings
    <3>1. Bound(inst') \subseteq Bound(inst)
      BY DEF Forgets, Bound
    <3>2. IsFiniteSet(Bound(inst)) /\ Cardinality(Bound(inst)) <= MaxBindings
      BY UsedCount DEF StoreInv, Bindings
    <3>3. Bound(inst') \in SUBSET Bound(inst)
      BY <3>1
    <3>4. Cardinality(Bound(inst')) <= Cardinality(Bound(inst)) /\ IsFiniteSet(Bound(inst'))
      BY <3>2, <3>3, FS_Subset
    <3>5. /\ Cardinality(Bound(inst')) \in Nat /\ Cardinality(Bound(inst)) \in Nat
          /\ MaxBindings \in Nat
      BY <3>2, <3>4, FS_CardinalityType, BrowserAssumption
    <3> QED
      BY <3>2, <3>4, <3>5
  <2>2. \A q \in Queues : inst'[q] # Null => inst'[q] \in Used /\ queueOf[inst'[q]] = q /\ q \in stored'
    BY DEF StoreInv, Bindings, Forgets
  <2>3. ASSUME NEW b \in Live'
        PROVE  session' /\ inst'[queueOf[b]] = b
    <3>1. b \in Live /\ inst[queueOf[b]] = b /\ queueOf[b] \in Queues
      BY <1>2, LiveKnown DEF Live
    <3>2. queueOf[b] \notin Q /\ session'
      BY <2>3 DEF Forgets, Live
    <3> QED
      BY <3>1, <3>2 DEF Forgets
  <2> QED
    BY <1>2, <2>1, <2>2, <2>3 DEF Bindings, StoreInv, Forgets, Bound
<1>4. \A q \in Queues : Of(store'[q], q) /\ Len(store'[q]) <= Cap
  <2>1. Of(<<>>, Cap) /\ Len(<<>>) <= Cap /\ \A q \in Queues : Of(<<>>, q)
    BY BrowserAssumption DEF Of
  <2> QED
    BY <2>1 DEF StoreInv, Forgets
<1>5. \A b \in Browsers : phase'[b] = "up" => permission'[b] \in {"ro", "rw"}
  BY DEF StoreInv, Forgets
<1>6. ASSUME late' = 0
      PROVE  Delivered'
  <2>1. late = 0
    BY <1>6 DEF StoreInv, TypeStore, Forgets
  <2>2. Delivered
    BY <2>1 DEF StoreInv
  <2>3. \A q \in Queues : /\ store'[q] # <<>> => inst'[q] # Null
                          /\ \A k \in DOMAIN store'[q] : store'[q][k][2] \in cursor'[inst'[q]]
    BY <2>2 DEF Delivered, Forgets
  <2>4. \A b \in Browsers : phase'[b] \in {"unused", "connecting"} => cursor'[b] = {}
    BY <2>2 DEF Delivered, Forgets
  <2>5. IsInjective(<<>>) /\ ToSet(<<>>) = {}
    BY DEF IsInjective, ToSet
  <2>6. \A q \in Queues : IsInjective(store'[q]) /\ removed' \cap ToSet(store'[q]) = {}
    BY <2>2, <2>5 DEF Delivered, Forgets
  <2> QED
    BY <2>3, <2>4, <2>6 DEF Delivered
<1> QED
  BY <1>1, <1>3, <1>4, <1>5, <1>6 DEF StoreInv

\* A browser is created, or only the key of its queue, or nothing.
LEMMA CreateStore ==
  ASSUME StoreInv, NEW q \in Queues, handleBindClick(q), UNCHANGED <<session, options, late>>
  PROVE  /\ StoreInv'
         /\ UNCHANGED <<permission, cursor, removed>>
         /\ \A r \in Queues : (inst'[r] = inst[r]) \/ (inst[r] = Null /\ phase'[inst'[r]] # "up")
         /\ \A r \in Queues : inst[r] # Null => phase'[inst[r]] = phase[inst[r]]
         /\ \A r \in Queues \ {q} : store'[r] = store[r] /\ (r \in stored' <=> r \in stored)
         /\ q \in stored' => store'[q] = store[q]
         /\ late = 0 => store' = store
<1>1. CASE UNCHANGED <<sdkVars, storeVars>>
  <2>1. UNCHANGED <<sdkVars, session, storeVars, options, late>>
    BY <1>1
  <2>2. StoreInv'
    BY <2>1, StoreSame
  <2> QED
    BY <1>1, <2>2 DEF sdkVars, storeVars
<1>2. CASE inst[q] = Null /\ stored' = stored \cup {q} /\ UNCHANGED <<sdkVars, inst, store>>
  <2>1. UNCHANGED <<phase, queueOf, permission, cursor, removed, inst, store, session, options, late>>
    BY <1>2 DEF sdkVars
  <2>2. TypeStore'
    BY <1>2, <2>1 DEF StoreInv, TypeStore
  <2>3. Bindings'
    BY <1>2, <2>1 DEF StoreInv, Bindings, Used, Live, Bound
  <2>4. StoreInv'
    BY <2>1, <2>2, <2>3 DEF StoreInv, Delivered
  <2> QED
    BY <1>2, <2>1, <2>4
<1>3. CASE /\ inst[q] = Null /\ inst' = [inst EXCEPT ![q] = Null]
           /\ stored' = stored \ {q} /\ store' = [store EXCEPT ![q] = <<>>]
           /\ UNCHANGED sdkVars
  <2>1. UNCHANGED <<phase, queueOf, permission, cursor, removed, session, options, late>>
    BY <1>3 DEF sdkVars
  <2>2. /\ inst \in [Queues -> {Null} \cup Browsers] /\ store \in [Queues -> Seq(Msgs)]
        /\ session \in BOOLEAN /\ options \in Seq(Queues) /\ late \in 0..MaxBrowsers
        /\ phase \in [Browsers -> Phases]
    BY DEF StoreInv, TypeStore
  <2>3. \A b \in Browsers : phase[b] \in {"connecting", "up"} => queueOf[b] # q /\ session
    BY <1>3, LiveKnown
  <2>4. Forgets({q})
    <3>1. inst' = [r \in Queues |-> IF r \in {q} THEN Null ELSE inst[r]]
      BY <1>3, <2>2
    <3>2. store' = [r \in Queues |-> IF r \in {q} THEN <<>> ELSE store[r]]
      BY <1>3, <2>2
    <3>3. stored' = stored \ {q}
      BY <1>3
    <3>4. \A b \in Browsers : phase'[b] \in {"connecting", "up"} => queueOf[b] \notin {q} /\ session'
      BY <2>1, <2>3
    <3>5. session' \in BOOLEAN
      BY <2>1, <2>2
    <3> QED
      BY <2>1, <2>2, <3>1, <3>2, <3>3, <3>4, <3>5 DEF Forgets
  <2>5. StoreInv'
    BY <2>4, ForgetsStore
  <2>6. inst' = inst
    BY <1>3, <2>2
  <2>7. late = 0 => store' = store
    <3>1. late = 0 => store[q] = <<>>
      BY <1>3 DEF StoreInv, Delivered
    <3> QED
      BY <3>1, <1>3, <2>2
  <2> QED
    BY <1>3, <2>1, <2>2, <2>5, <2>6, <2>7
<1>4. ASSUME NEW b \in Browsers, session, inst[q] = Null, ~AtLimit, Fresh(b),
             phase' = [phase EXCEPT ![b] = "connecting"],
             queueOf' = [queueOf EXCEPT ![b] = q],
             inst' = [inst EXCEPT ![q] = b],
             stored' = stored \cup {q},
             UNCHANGED <<permission, cursor, removed, store>>
      PROVE  /\ StoreInv'
             /\ \A r \in Queues : (inst'[r] = inst[r]) \/ (inst[r] = Null /\ phase'[inst'[r]] # "up")
             /\ \A r \in Queues : inst[r] # Null => phase'[inst[r]] = phase[inst[r]]
  <2>1. PICK n \in 0..MaxBrowsers : Used = 1..n /\ Cardinality(Used) = n /\ IsFiniteSet(Bound(inst))
    BY UsedCount
  <2>2. n \in Nat /\ b = n + 1 /\ b \notin Used /\ phase[b] = "unused" /\ b # Null
    <3>1. n \in Nat /\ b = n + 1 /\ b # Null
      BY <1>4, <2>1, BrowserAssumption DEF Fresh, Browsers
    <3>2. b \notin Used
      BY <3>1, <2>1
    <3> QED
      BY <3>1, <3>2 DEF Used
  <2>3. /\ phase \in [Browsers -> Phases] /\ queueOf \in [Browsers -> Queues \cup {Null}]
        /\ inst \in [Queues -> {Null} \cup Browsers]
    BY DEF StoreInv, TypeStore
  <2>4. TypeStore'
    <3>1. "connecting" \in Phases
      BY DEF Phases
    <3> QED
      BY <1>4, <2>3, <3>1 DEF StoreInv, TypeStore
  <2>5. Used' = 1..(n + 1) /\ n + 1 \in 0..MaxBrowsers
    <3>1. Used' = Used \cup {b}
      BY <1>4, <2>3 DEF Used
    <3>2. n + 1 \in 0..MaxBrowsers
      BY <2>2, BrowserAssumption DEF Browsers
    <3> QED
      BY <3>1, <3>2, <2>1, <2>2
  <2>6. Cardinality(Bound(inst')) <= MaxBindings
    <3>1. Bound(inst') = Bound(inst) \cup {q} /\ q \notin Bound(inst)
      BY <1>4, <2>2, <2>3 DEF Bound
    <3>2. Cardinality(Bound(inst')) = Cardinality(Bound(inst)) + 1
      BY <3>1, <2>1, FS_AddElement
    <3>3. ~(Cardinality(Bound(inst)) >= MaxBindings)
      BY <1>4 DEF AtLimit, Bound
    <3>4. Cardinality(Bound(inst)) \in Nat /\ MaxBindings \in Nat
      BY <2>1, FS_CardinalityType, BrowserAssumption
    <3> QED
      BY <3>2, <3>3, <3>4
  <2>7. \A c \in Used' : queueOf'[c] \in Queues
    BY <1>4, <2>3 DEF StoreInv, Bindings, Used
  <2>8. \A r \in Queues : inst'[r] # Null =>
          inst'[r] \in Used' /\ queueOf'[inst'[r]] = r /\ r \in stored'
    <3>1. \A r \in Queues : inst[r] # Null => inst[r] \in Used /\ queueOf[inst[r]] = r /\ r \in stored
      BY DEF StoreInv, Bindings
    <3>2. Used \subseteq Used' /\ b \in Used'
      BY <2>1, <2>2, <2>5
    <3>3. inst'[q] = b /\ queueOf'[b] = q /\ q \in stored'
      BY <1>4, <2>3
    <3>4. \A r \in Queues \ {q} : inst'[r] = inst[r]
      BY <1>4, <2>3
    <3>5. \A c \in Used : queueOf'[c] = queueOf[c]
      BY <1>4, <2>2, <2>3 DEF Used
    <3>6. stored \subseteq stored'
      BY <1>4
    <3> QED
      BY <3>1, <3>2, <3>3, <3>4, <3>5, <3>6
  <2>9. \A c \in Live' : session' /\ inst'[queueOf'[c]] = c
    <3>1. ASSUME NEW c \in Live', c # b
          PROVE  inst'[queueOf'[c]] = c
      <4>1. c \in Browsers /\ phase[c] \in {"connecting", "up"} /\ queueOf'[c] = queueOf[c]
        BY <1>4, <2>3, <3>1 DEF Live
      <4>2. inst[queueOf[c]] = c /\ queueOf[c] \in Queues /\ c # Null
        BY <4>1, LiveKnown
      <4>3. queueOf[c] # q
        BY <4>2, <1>4
      <4> QED
        BY <4>1, <4>2, <4>3, <1>4, <2>3
    <3>2. inst'[queueOf'[b]] = b
      BY <1>4, <2>3
    <3> QED
      BY <3>1, <3>2, <1>4
  <2>10. Bindings'
    BY <2>5, <2>6, <2>7, <2>8, <2>9 DEF Bindings
  <2>11. \A c \in Browsers : phase'[c] = "up" => permission'[c] \in {"ro", "rw"}
    BY <1>4, <2>3 DEF StoreInv
  <2>12. ASSUME late' = 0
         PROVE  Delivered'
    <3>1. Delivered
      BY <2>12 DEF StoreInv
    <3>2. store[q] = <<>>
      BY <3>1, <1>4 DEF Delivered
    <3>3. \A r \in Queues \ {q} : inst'[r] = inst[r]
      BY <1>4, <2>3
    <3>4. inst'[q] # Null
      BY <1>4, <2>2, <2>3
    <3>5. \A c \in Browsers : phase'[c] \in {"unused", "connecting"} => phase[c] \in {"unused", "connecting"}
      BY <1>4, <2>2, <2>3
    <3>6. \A r \in Queues : store'[r] # <<>> => inst'[r] # Null
      BY <1>4, <3>1, <3>3, <3>4 DEF Delivered
    <3>7. \A r \in Queues : \A k \in DOMAIN store'[r] : store'[r][k][2] \in cursor'[inst'[r]]
      BY <1>4, <3>1, <3>2, <3>3 DEF Delivered
    <3>8. \A c \in Browsers : phase'[c] \in {"unused", "connecting"} => cursor'[c] = {}
      BY <1>4, <3>1, <3>5 DEF Delivered
    <3> QED
      BY <1>4, <3>1, <3>6, <3>7, <3>8 DEF Delivered
  <2>13. StoreInv'
    BY <1>4, <2>4, <2>10, <2>11, <2>12 DEF StoreInv
  <2>14. \A r \in Queues : (inst'[r] = inst[r]) \/ (inst[r] = Null /\ phase'[inst'[r]] # "up")
    BY <1>4, <2>3
  <2>15. \A r \in Queues : inst[r] # Null => phase'[inst[r]] = phase[inst[r]]
    <3>1. \A r \in Queues : inst[r] # Null => inst[r] # b
      BY <2>2 DEF StoreInv, Bindings
    <3> QED
      BY <3>1, <1>4, <2>3
  <2> QED
    BY <2>13, <2>14, <2>15
<1>5. CASE \E b \in Browsers :
             /\ session /\ inst[q] = Null /\ ~AtLimit /\ Fresh(b)
             /\ phase' = [phase EXCEPT ![b] = "connecting"]
             /\ queueOf' = [queueOf EXCEPT ![b] = q]
             /\ inst' = [inst EXCEPT ![q] = b]
             /\ stored' = stored \cup {q}
             /\ UNCHANGED <<permission, cursor, removed, store>>
  BY <1>4, <1>5
<1> QED
  BY <1>1, <1>2, <1>3, <1>5 DEF handleBindClick, createBrowser

\* The page disconnects the browser of a queue, if it has one.
LEMMA DisconnectStore ==
  ASSUME StoreInv, NEW q \in Queues, disconnectBrowser(q),
         UNCHANGED <<queueOf, permission, cursor, removed, session>>,
         late' \in {late, late + 1}, late' \in 0..MaxBrowsers, options' \in Seq(Queues)
  PROVE  /\ StoreInv'
         /\ \A r \in Queues : inst'[r] = IF r = q THEN Null ELSE inst[r]
         /\ \A r \in Queues : store'[r] = IF r = q THEN <<>> ELSE store[r]
         /\ \A r \in Queues \ {q} : inst[r] # Null => phase'[inst[r]] = phase[inst[r]]
<1>1. /\ inst \in [Queues -> {Null} \cup Browsers] /\ store \in [Queues -> Seq(Msgs)]
      /\ phase \in [Browsers -> Phases] /\ session \in BOOLEAN
  BY DEF StoreInv, TypeStore
<1>2. /\ inst' = [inst EXCEPT ![q] = Null] /\ store' = [store EXCEPT ![q] = <<>>]
      /\ stored' = stored \ {q}
      /\ phase' = IF inst[q] = Null THEN phase
                  ELSE [phase EXCEPT ![inst[q]] = AfterDisconnect(phase[inst[q]])]
  BY DEF disconnectBrowser
<1>3. inst[q] # Null => inst[q] \in Browsers /\ phase[inst[q]] # "unused" /\ queueOf[inst[q]] = q
  BY DEF StoreInv, Bindings, Used
<1>4. \A ph : AfterDisconnect(ph) \in {"aborted", "ended"}
  BY DEF AfterDisconnect
<1>5. \A b \in Browsers : IF inst[q] # Null /\ b = inst[q] THEN phase'[b] \in {"aborted", "ended"}
                          ELSE phase'[b] = phase[b]
  BY <1>1, <1>2, <1>3, <1>4
<1>6. phase' \in [Browsers -> Phases]
  <2>1. {"aborted", "ended"} \subseteq Phases
    BY DEF Phases
  <2> QED
    BY <1>1, <1>2, <1>3, <1>4, <2>1
<1>7. ASSUME NEW b \in Browsers, phase'[b] \in {"connecting", "up"}
      PROVE  queueOf[b] # q /\ session'
  <2>1. phase[b] \in {"connecting", "up"} /\ ~(inst[q] # Null /\ b = inst[q])
    BY <1>5, <1>7
  <2>2. inst[queueOf[b]] = b /\ b # Null /\ session
    BY <2>1, LiveKnown
  <2> QED
    BY <2>1, <2>2
<1>8. Forgets({q})
  <2>1. inst' = [r \in Queues |-> IF r \in {q} THEN Null ELSE inst[r]]
    BY <1>1, <1>2
  <2>2. store' = [r \in Queues |-> IF r \in {q} THEN <<>> ELSE store[r]]
    BY <1>1, <1>2
  <2>3. \A b \in Browsers :
          phase'[b] = phase[b] \/ (phase[b] # "unused" /\ phase'[b] \in {"aborted", "ended"})
    BY <1>3, <1>5
  <2>4. \A b \in Browsers : phase'[b] \in {"connecting", "up"} => queueOf[b] \notin {q} /\ session'
    BY <1>7
  <2>5. session' \in BOOLEAN
    BY <1>1
  <2> QED
    BY <1>2, <1>6, <2>1, <2>2, <2>3, <2>4, <2>5 DEF Forgets
<1>9. StoreInv'
  BY <1>8, ForgetsStore
<1>10. \A r \in Queues \ {q} : inst[r] # Null => phase'[inst[r]] = phase[inst[r]]
  <2>1. \A r \in Queues : inst[r] # Null => inst[r] \in Browsers /\ queueOf[inst[r]] = r
    BY DEF StoreInv, Bindings, Used
  <2> QED
    BY <2>1, <1>3, <1>5
<1> QED
  BY <1>1, <1>2, <1>9, <1>10

LEMMA ClientDisconnectedStore ==
  ASSUME StoreInv, ClientDisconnected
  PROVE  StoreInv' /\ store' = [q \in Queues |-> <<>>] /\ stored' = {} /\ UNCHANGED late
<1>1. /\ phase' = [b \in Browsers |-> IF b \in Live THEN AfterDisconnect(phase[b]) ELSE phase[b]]
      /\ inst' = [q \in Queues |-> Null] /\ stored' = {} /\ store' = [q \in Queues |-> <<>>]
      /\ options' = <<>> /\ session' = FALSE
      /\ UNCHANGED <<queueOf, permission, cursor, removed, late>>
  BY DEF ClientDisconnected, disconnectAll, faultVars
<1>2. /\ phase \in [Browsers -> Phases] /\ stored \subseteq Queues /\ late \in 0..MaxBrowsers
  BY DEF StoreInv, TypeStore
<1>3. \A ph : AfterDisconnect(ph) \in {"aborted", "ended"}
  BY DEF AfterDisconnect
<1>4. \A b \in Browsers :
        /\ phase'[b] = phase[b] \/ (phase[b] # "unused" /\ phase'[b] \in {"aborted", "ended"})
        /\ phase'[b] \notin {"connecting", "up"}
  <2>1. ASSUME NEW b \in Browsers
        PROVE  /\ phase'[b] = phase[b] \/ (phase[b] # "unused" /\ phase'[b] \in {"aborted", "ended"})
               /\ phase'[b] \notin {"connecting", "up"}
    <3>1. CASE b \in Live
      <4>1. phase'[b] \in {"aborted", "ended"} /\ phase[b] \in {"connecting", "up"}
        BY <1>1, <1>3, <3>1 DEF Live
      <4> QED
        BY <4>1
    <3>2. CASE b \notin Live
      BY <1>1, <3>2 DEF Live
    <3> QED
      BY <3>1, <3>2
  <2> QED
    BY <2>1
<1>5. phase' \in [Browsers -> Phases]
  <2>1. {"aborted", "ended"} \subseteq Phases
    BY DEF Phases
  <2> QED
    BY <1>1, <1>2, <1>3, <2>1
<1>6. Forgets(Queues)
  <2>1. inst' = [r \in Queues |-> IF r \in Queues THEN Null ELSE inst[r]]
    BY <1>1
  <2>2. store' = [r \in Queues |-> IF r \in Queues THEN <<>> ELSE store[r]]
    BY <1>1
  <2>3. stored' = stored \ Queues
    BY <1>1, <1>2
  <2>4. options' \in Seq(Queues)
    BY <1>1
  <2> QED
    BY <1>1, <1>2, <1>4, <1>5, <2>1, <2>2, <2>3, <2>4 DEF Forgets
<1> QED
  BY <1>1, <1>6, ForgetsStore

\* An event raised after disconnect() is counted.
LEMMA EventTime ==
  ASSUME StoreInv, NEW b \in Browsers, NEW early, NEW after, InTime(b, early) \/ Late(b, after)
  PROVE  /\ phase[b] \in {early, after} /\ late' \in {late, late + 1} /\ late' \in 0..MaxBrowsers
         /\ late' = 0 => late = 0 /\ phase[b] = early
<1>1. late \in 0..MaxBrowsers /\ MaxBrowsers \in Nat
  BY BrowserAssumption DEF StoreInv, TypeStore
<1>2. CASE InTime(b, early)
  BY <1>1, <1>2 DEF InTime
<1>3. CASE Late(b, after)
  <2>1. phase[b] = after /\ Spare /\ late' = late + 1
    BY <1>3 DEF Late
  <2>2. late + 1 \in 0..MaxBrowsers
    BY <2>1, SpareRoom
  <2> QED
    BY <1>1, <2>1, <2>2
<1> QED
  BY <1>2, <1>3

LEMMA BrowserUpStore ==
  ASSUME StoreInv, NEW b \in Browsers, BrowserUp(b)
  PROVE  StoreInv' /\ queueOf[b] \in Queues
<1> DEFINE q == queueOf[b]
<1>1. /\ InTime(b, "connecting") \/ Late(b, "aborted")
      /\ phase' = [phase EXCEPT ![b] = IF @ = "connecting" THEN "up" ELSE "ended"]
      /\ \E p \in {"ro", "rw"} : permission' = [permission EXCEPT ![b] = p]
      /\ options' = IF Contains(options, q) THEN options ELSE Append(options, q)
      /\ UNCHANGED <<queueOf, cursor, removed, session, inst, stored, store>>
  BY DEF BrowserUp, storeVars
<1>2. /\ phase[b] \in {"connecting", "aborted"} /\ late' \in {late, late + 1} /\ late' \in 0..MaxBrowsers
      /\ late' = 0 => late = 0 /\ phase[b] = "connecting"
  BY <1>1, EventTime
<1>3. /\ phase \in [Browsers -> Phases] /\ permission \in [Browsers -> {"unknown", "ro", "rw"}]
      /\ options \in Seq(Queues)
  BY DEF StoreInv, TypeStore
<1>4. q \in Queues
  BY <1>2 DEF StoreInv, Bindings, Used
<1>5. TypeStore'
  <2>1. "up" \in Phases /\ "ended" \in Phases
    BY DEF Phases
  <2>2. phase' \in [Browsers -> Phases]
    BY <1>1, <1>3, <2>1
  <2>3. permission' \in [Browsers -> {"unknown", "ro", "rw"}]
    BY <1>1, <1>3
  <2>4. options' \in Seq(Queues)
    BY <1>1, <1>3, <1>4
  <2> QED
    BY <1>1, <1>2, <2>2, <2>3, <2>4 DEF StoreInv, TypeStore
<1>6. Bindings'
  <2>1. Used' = Used /\ Live' \subseteq Live
    BY <1>1, <1>2, <1>3 DEF Used, Live
  <2> QED
    BY <1>1, <2>1 DEF StoreInv, Bindings, Bound
<1>7. \A c \in Browsers : phase'[c] = "up" => permission'[c] \in {"ro", "rw"}
  <2>1. permission'[b] \in {"ro", "rw"}
    BY <1>1, <1>3
  <2>2. \A c \in Browsers \ {b} : permission'[c] = permission[c] /\ phase'[c] = phase[c]
    BY <1>1, <1>3
  <2> QED
    BY <2>1, <2>2 DEF StoreInv
<1>8. ASSUME late' = 0
      PROVE  Delivered'
  <2>1. Delivered
    BY <1>2, <1>8 DEF StoreInv
  <2>2. \A c \in Browsers : phase'[c] \in {"unused", "connecting"} => phase[c] \in {"unused", "connecting"}
    BY <1>1, <1>3
  <2>3. \A c \in Browsers : phase'[c] \in {"unused", "connecting"} => cursor'[c] = {}
    BY <1>1, <2>1, <2>2 DEF Delivered
  <2> QED
    BY <1>1, <2>1, <2>3 DEF Delivered
<1> QED
  BY <1>1, <1>4, <1>5, <1>6, <1>7, <1>8 DEF StoreInv

-----------------------------------------------------------------------------
(* A message.                                                              *)

\* What is left of the store's array when a message comes in.
Window(q) == IF AtCap(q) THEN Tail(store[q]) ELSE store[q]

LEMMA WindowTypes ==
  ASSUME StoreInv, NEW q \in Queues, q \in stored
  PROVE  /\ Window(q) \in Seq(Msgs) /\ Of(Window(q), q) /\ Len(Window(q)) + 1 <= Cap
         /\ AtCap(q) => store[q] # <<>> /\ Head(store[q]) \in Msgs /\ Head(store[q]) = store[q][1]
                        /\ 1 \in DOMAIN store[q]
         /\ \A k \in DOMAIN Window(q) : \E j \in DOMAIN store[q] : Window(q)[k] = store[q][j]
         /\ IsInjective(store[q]) => IsInjective(Window(q))
<1> DEFINE s == store[q]
<1>1. s \in Seq(Msgs) /\ Of(s, q) /\ Len(s) <= Cap /\ Len(s) \in Nat /\ DOMAIN s = 1..Len(s)
  BY DEF StoreInv, TypeStore
<1>2. Cap \in Nat /\ Cap >= 1
  BY BrowserAssumption
<1>3. AtCap(q) <=> Len(s) >= Cap
  BY DEF AtCap
<1>4. Window(q) = IF AtCap(q) THEN Tail(s) ELSE s
  BY DEF Window
<1> HIDE DEF s
<1>5. CASE AtCap(q)
  <2>1. s # <<>> /\ Len(s) = Cap /\ 1 \in DOMAIN s
    <3>1. Len(s) = Cap
      <4>1. Len(s) >= Cap
        BY <1>3, <1>5
      <4>2. Len(s) \in Nat /\ Cap \in Nat /\ Len(s) <= Cap
        BY <1>1, <1>2
      <4>3. \A n, c \in Nat : n >= c /\ n <= c => n = c
        OBVIOUS
      <4> QED
        BY <4>1, <4>2, <4>3
    <3>2. 1 \in DOMAIN s
      BY <1>1, <1>2, <3>1
    <3>3. s # <<>>
      BY <3>2
    <3> QED
      BY <3>1, <3>2, <3>3
  <2> DEFINE t == Tail(s)
  <2>2. /\ t \in Seq(Msgs) /\ Len(t) = Len(s) - 1 /\ \A i \in 1..Len(t) : t[i] = s[i + 1]
        /\ Head(s) \in Msgs /\ Head(s) = s[1]
    BY <1>1, <2>1, HeadTailProperties
  <2> HIDE DEF t
  <2>3. DOMAIN t = 1..Len(t) /\ Len(t) \in Nat
    BY <2>2
  <2>4. \A k \in DOMAIN t : k + 1 \in DOMAIN s /\ t[k] = s[k + 1]
    BY <1>1, <2>2, <2>3
  <2>5. Of(t, q)
    BY <1>1, <2>4 DEF Of
  <2>6. Len(t) + 1 <= Cap
    BY <1>1, <1>2, <2>1, <2>2
  <2>7. IsInjective(s) => IsInjective(t)
    <3>1. ASSUME IsInjective(s), NEW i \in DOMAIN t, NEW j \in DOMAIN t, t[i] = t[j]
          PROVE  i = j
      <4>1. i + 1 = j + 1
        BY <2>4, <3>1 DEF IsInjective
      <4> QED
        BY <4>1, <2>3
    <3> QED
      BY <3>1 DEF IsInjective
  <2>8. Window(q) = t
    BY <1>4, <1>5 DEF t
  <2> QED
    BY <2>1, <2>2, <2>4, <2>5, <2>6, <2>7, <2>8 DEF s
<1>6. CASE ~AtCap(q)
  <2>1. Window(q) = s
    BY <1>4, <1>6
  <2>2. Len(s) + 1 <= Cap
    BY <1>1, <1>2, <1>3, <1>6
  <2> QED
    BY <1>1, <1>6, <2>1, <2>2 DEF s
<1> QED
  BY <1>5, <1>6

LEMMA MessageStore ==
  ASSUME StoreInv, NEW b \in Browsers, Message(b)
  PROVE  /\ StoreInv' /\ queueOf[b] \in Queues
         /\ late' = 0 => late = 0 /\ inst[queueOf[b]] = b /\ queueOf[b] \in stored
         /\ \E m \in Msgs :
              /\ m[1] = queueOf[b] /\ onMessage(queueOf[b], m)
              /\ \A r \in Queues :
                   store'[r] = IF r = queueOf[b] /\ r \in stored THEN Append(Window(r), m) ELSE store[r]
<1> DEFINE q == queueOf[b]
<1>1. PICK i \in Content[q] \ cursor[b] :
        /\ <<q, i>> \notin removed /\ cursor' = [cursor EXCEPT ![b] = @ \cup {i}]
        /\ onMessage(q, <<q, i>>)
  BY DEF Message
<1>2. /\ InTime(b, "up") \/ Late(b, "ended")
      /\ UNCHANGED <<phase, queueOf, permission, removed, session, inst, options>>
  BY DEF Message
<1>3. /\ phase[b] \in {"up", "ended"} /\ late' \in {late, late + 1} /\ late' \in 0..MaxBrowsers
      /\ late' = 0 => late = 0 /\ phase[b] = "up"
  BY <1>2, EventTime
<1>4. q \in Queues
  BY <1>3 DEF StoreInv, Bindings, Used
<1> DEFINE m == <<q, i>>
<1>5. m \in Msgs /\ m[1] = q /\ m[2] = i /\ i \in Nat
  <2>1. Content[q] \in SUBSET Nat
    BY <1>4, BrowserAssumption
  <2>2. i \in Ids
    BY <1>4 DEF Ids
  <2> QED
    BY <1>4, <2>1, <2>2 DEF Msgs
<1>6. /\ cursor \in [Browsers -> SUBSET Nat] /\ store \in [Queues -> Seq(Msgs)]
  BY DEF StoreInv, TypeStore
<1>7. stored' = stored /\ store' = IF q \in stored THEN [store EXCEPT ![q] = Append(Window(q), m)] ELSE store
  BY <1>1 DEF onMessage, ingestMessage, Window
<1>8. q \in stored => Append(Window(q), m) \in Seq(Msgs)
  <2>1. q \in stored => Window(q) \in Seq(Msgs)
    BY <1>4, WindowTypes
  <2> HIDE DEF m
  <2> QED
    BY <1>5, <2>1, AppendProperties
<1> HIDE DEF q, m
<1>9. \A r \in Queues : store'[r] = IF r = q /\ r \in stored THEN Append(Window(q), m) ELSE store[r]
  BY <1>4, <1>6, <1>7
<1>10. TypeStore'
  <2>1. store' \in [Queues -> Seq(Msgs)]
    BY <1>4, <1>6, <1>7, <1>8
  <2>2. \A r \in Queues \ stored' : store'[r] = <<>>
    BY <1>7, <1>9 DEF StoreInv, TypeStore
  <2>3. cursor' \in [Browsers -> SUBSET Nat]
    BY <1>1, <1>5, <1>6
  <2> QED
    BY <1>2, <1>3, <1>7, <2>1, <2>2, <2>3 DEF StoreInv, TypeStore
<1>11. Bindings'
  BY <1>2, <1>7 DEF StoreInv, Bindings, Used, Live, Bound
<1>12. ASSUME NEW r \in Queues
       PROVE  Of(store'[r], r) /\ Len(store'[r]) <= Cap
  <2>1. CASE r = q /\ r \in stored
    <3> DEFINE s == Window(q)
    <3>1. s \in Seq(Msgs) /\ Of(s, q) /\ Len(s) + 1 <= Cap
      BY <1>4, <2>1, WindowTypes
    <3>2. store'[r] = Append(s, m)
      BY <1>9, <2>1
    <3> HIDE DEF s
    <3>3. /\ Len(Append(s, m)) = Len(s) + 1 /\ Append(s, m)[Len(s) + 1] = m
          /\ \A k \in 1..Len(s) : Append(s, m)[k] = s[k]
          /\ DOMAIN Append(s, m) = 1..(Len(s) + 1) /\ DOMAIN s = 1..Len(s) /\ Len(s) \in Nat
      BY <3>1, <1>5
    <3>4. Of(Append(s, m), q)
      BY <1>5, <3>1, <3>3 DEF Of
    <3> QED
      BY <2>1, <3>1, <3>2, <3>3, <3>4
  <2>2. CASE ~(r = q /\ r \in stored)
    BY <1>9, <2>2 DEF StoreInv
  <2> QED
    BY <2>1, <2>2
<1>13. late' = 0 => late = 0 /\ inst[q] = b /\ q \in stored
  BY <1>3, LiveKnown DEF q
<1>14. ASSUME late' = 0
       PROVE  Delivered'
  <2>1. Delivered /\ late = 0 /\ inst[q] = b /\ q \in stored /\ phase[b] = "up"
    BY <1>3, <1>13, <1>14 DEF StoreInv
  <2>2. \A r \in Queues \ {q} : inst[r] # b
    BY <2>1, LiveKnown DEF StoreInv, Bindings, q
  <2> DEFINE s == Window(q)
  <2>3. /\ s \in Seq(Msgs) /\ \A k \in DOMAIN s : \E j \in DOMAIN store[q] : s[k] = store[q][j]
        /\ IsInjective(store[q]) => IsInjective(s)
    BY <1>4, <2>1, WindowTypes
  <2> HIDE DEF s
  <2>4. /\ store'[q] = Append(s, m) /\ Append(s, m)[Len(s) + 1] = m
        /\ \A k \in 1..Len(s) : Append(s, m)[k] = s[k]
        /\ DOMAIN Append(s, m) = 1..(Len(s) + 1) /\ DOMAIN s = 1..Len(s) /\ Len(s) \in Nat
    <3>1. store'[q] = Append(s, m)
      BY <1>4, <1>9, <2>1 DEF s
    <3>2. s \in Seq(Msgs) /\ m \in Msgs
      BY <1>5, <2>3
    <3>3. /\ Append(s, m)[Len(s) + 1] = m /\ \A k \in 1..Len(s) : Append(s, m)[k] = s[k]
          /\ DOMAIN Append(s, m) = 1..(Len(s) + 1) /\ DOMAIN s = 1..Len(s) /\ Len(s) \in Nat
      BY <3>2
    <3> QED
      BY <3>1, <3>3
  <2>5. \A k \in DOMAIN s : s[k][2] \in cursor[b] /\ s[k] \notin removed
    <3>1. \A j \in DOMAIN store[q] : store[q][j][2] \in cursor[b]
      BY <1>4, <2>1 DEF Delivered
    <3>2. \A j \in DOMAIN store[q] : store[q][j] \notin removed
      <4>1. removed \cap ToSet(store[q]) = {}
        BY <1>4, <2>1 DEF Delivered
      <4> QED
        BY <4>1 DEF ToSet
    <3> QED
      BY <2>3, <3>1, <3>2
  <2>6. i \in cursor'[b] /\ cursor[b] \subseteq cursor'[b] /\ i \notin cursor[b]
    BY <1>1, <1>6
  <2>7. \A c \in Browsers \ {b} : cursor'[c] = cursor[c]
    BY <1>1, <1>6
  <2>8. \A r \in Queues \ {q} : store'[r] = store[r] /\ (inst[r] # Null => cursor'[inst[r]] = cursor[inst[r]])
    BY <1>9, <2>2, <2>7 DEF StoreInv, TypeStore
  <2>9. \A r \in Queues : store'[r] # <<>> => inst'[r] # Null
    <3>1. \A r \in Queues \ {q} : store'[r] # <<>> => inst'[r] # Null
      BY <1>2, <2>1, <2>8 DEF Delivered
    <3>2. inst'[q] # Null
      BY <1>2, <2>1, BrowserAssumption DEF Browsers
    <3> QED
      BY <3>1, <3>2
  <2>10. ASSUME NEW r \in Queues, NEW k \in DOMAIN store'[r]
         PROVE  store'[r][k][2] \in cursor'[inst'[r]]
    <3>1. CASE r = q
      BY <1>2, <1>5, <2>1, <2>4, <2>5, <2>6, <2>10, <3>1
    <3>2. CASE r # q
      <4>1. store'[r] = store[r] /\ store[r] # <<>>
        BY <2>8, <2>10, <3>2
      <4>2. inst[r] # Null /\ store[r][k][2] \in cursor[inst[r]]
        BY <2>1, <2>10, <4>1 DEF Delivered
      <4> QED
        BY <1>2, <2>8, <3>2, <4>1, <4>2
    <3> QED
      BY <3>1, <3>2
  <2>11. \A c \in Browsers : phase'[c] \in {"unused", "connecting"} => cursor'[c] = {}
    BY <1>2, <2>1, <2>7 DEF Delivered
  <2>12. ASSUME NEW r \in Queues
         PROVE  IsInjective(store'[r]) /\ removed' \cap ToSet(store'[r]) = {}
    <3>1. CASE r = q
      <4>1. IsInjective(s)
        BY <1>4, <2>1, <2>3 DEF Delivered
      <4>2. \A k \in DOMAIN s : s[k] # m
        BY <1>5, <2>5, <2>6
      <4>3. IsInjective(Append(s, m))
        BY <2>4, <4>1, <4>2 DEF IsInjective
      <4>4. \A k \in DOMAIN Append(s, m) : Append(s, m)[k] \notin removed
        <5>1. m \notin removed
          BY <1>1 DEF m, q
        <5> QED
          BY <2>4, <2>5, <5>1
      <4> QED
        <5> DEFINE u == Append(s, m)
        <5>1. store'[r] = u /\ removed' = removed
          BY <1>2, <2>4, <3>1
        <5>2. removed \cap ToSet(u) = {}
          BY <4>4 DEF ToSet
        <5>3. IsInjective(u)
          BY <4>3
        <5> HIDE DEF u
        <5> QED
          BY <5>1, <5>2, <5>3
    <3>2. CASE r # q
      BY <1>2, <2>1, <2>8, <3>2 DEF Delivered
    <3> QED
      BY <3>1, <3>2
  <2> QED
    BY <2>9, <2>10, <2>11, <2>12 DEF Delivered
<1>15. StoreInv'
  BY <1>2, <1>10, <1>11, <1>12, <1>14 DEF StoreInv
<1>16. onMessage(q, m)
  BY <1>1 DEF m, q
<1>17. \A r \in Queues : store'[r] = IF r = q /\ r \in stored THEN Append(Window(r), m) ELSE store[r]
  BY <1>9
<1> QED
  BY <1>4, <1>5, <1>13, <1>15, <1>16, <1>17 DEF q

-----------------------------------------------------------------------------
(* The page.                                                               *)

LEMMA NoFilterPasses == NoFilter \in Filters /\ Passing(NoFilter) = Msgs
<1>1. Cardinality({}) < 2 => "OR" = "OR"
  OBVIOUS
<1>2. NoFilter \in [conds : SUBSET Conds, criteria : {"AND", "OR"}] /\ NoFilter.criteria = "OR"
  BY DEF NoFilter
<1>3. NoFilter \in Filters
  BY <1>2 DEF Filters
<1>4. \A m : shouldShowMessage(NoFilter, m)
  BY DEF shouldShowMessage, NoFilter
<1> QED
  BY <1>3, <1>4 DEF Passing

\* The lists the page shows are of the selected queue.
LEMMA AllTypes ==
  ASSUME StoreInv, ViewInv
  PROVE  /\ all \in Seq(Msgs) /\ Of(all, current) /\ Len(all) <= Cap
         /\ displayed \in Seq(Msgs) /\ Of(displayed, current)
<1>1. /\ linked \in BOOLEAN /\ own \in Seq(Msgs) /\ Of(own, current) /\ Len(own) <= Cap
      /\ copy \in Seq(Msgs) /\ Of(copy, current)
      /\ linked => current \in Queues
  BY DEF StoreInv, TypeStore, ViewInv, TypeView, ViewOf
<1>2. \A q \in Queues : store[q] \in Seq(Msgs) /\ Of(store[q], q) /\ Len(store[q]) <= Cap
  BY DEF StoreInv, TypeStore
<1>3. all \in Seq(Msgs) /\ Of(all, current) /\ Len(all) <= Cap
  BY <1>1, <1>2 DEF all
<1>4. displayed \in Seq(Msgs) /\ Of(displayed, current)
  BY <1>1, <1>3 DEF displayed
<1> QED
  BY <1>3, <1>4

\* A row's message is the one of its id on the selected queue.
LEMMA RowTypes ==
  ASSUME StoreInv, ViewInv, NEW i \in DOMAIN rows
  PROVE  /\ rows[i] \in TableRows /\ rows[i].msg \in Msgs /\ current \in Queues
         /\ rows[i].msg = <<current, IdOf(rows[i].msg)>> /\ IdOf(rows[i].msg) \in Ids
<1>1. rows \in Seq(TableRows) /\ rows[i].msg[1] = current
  BY DEF ViewInv, TypeView, ViewOf
<1>2. rows[i] \in TableRows
  BY <1>1, ElementOfSeq, LenProperties
<1>3. rows[i].msg \in Msgs
  BY <1>2 DEF TableRows
<1> QED
  BY <1>1, <1>2, <1>3 DEF Msgs, IdOf, Ids

\* While no browser speaks late, the page shows the store, and every message once.
LEMMA AllExact ==
  ASSUME StoreInv, ViewInv, late = 0
  PROVE  /\ all = (IF current = Null THEN <<>> ELSE store[current])
         /\ IsInjective(all) /\ IsInjective(displayed)
         /\ \A i \in DOMAIN rows, j \in DOMAIN rows : IdOf(rows[i].msg) = IdOf(rows[j].msg) => i = j
<1>1. Exact /\ Delivered
  BY DEF StoreInv, ViewInv
<1>2. linked => current \in Queues /\ current # Null
  BY BrowserAssumption DEF StoreInv, TypeStore, ViewInv, TypeView
<1>3. current \in Queues \cup {Null} /\ linked \in BOOLEAN
  BY DEF ViewInv, TypeView
<1>4. all = (IF current = Null THEN <<>> ELSE store[current])
  BY <1>1, <1>2, <1>3 DEF Exact, all
<1>5. IsInjective(all)
  <2>1. IsInjective(<<>>)
    BY DEF IsInjective
  <2>2. current # Null => IsInjective(store[current])
    BY <1>1, <1>3 DEF Delivered
  <2> QED
    BY <1>4, <2>1, <2>2
<1>6. IsInjective(displayed)
  <2>1. all \in Seq(Msgs) /\ displayed = Only(all, Passing(filter))
    BY <1>1, AllTypes DEF Exact
  <2> QED
    BY <1>5, <2>1, OnlyTypes
<1>7. ASSUME NEW i \in DOMAIN rows, NEW j \in DOMAIN rows, IdOf(rows[i].msg) = IdOf(rows[j].msg)
      PROVE  i = j
  <2>1. rows[i].msg = rows[j].msg
    <3>1. rows[i].msg = <<current, IdOf(rows[i].msg)>> /\ rows[j].msg = <<current, IdOf(rows[j].msg)>>
      BY RowTypes
    <3> QED
      BY <1>7, <3>1
  <2>2. MsgsOf(rows) = displayed /\ DOMAIN MsgsOf(rows) = DOMAIN rows
    BY <1>1, MsgsOfTypes DEF Exact, ViewInv, TypeView
  <2>3. MsgsOf(rows)[i] = rows[i].msg /\ MsgsOf(rows)[j] = rows[j].msg
    BY DEF MsgsOf
  <2> QED
    BY <1>6, <2>1, <2>2, <2>3 DEF IsInjective
<1> QED
  BY <1>4, <1>5, <1>6, <1>7

\* A queue is selected, or none.
LEMMA DropdownView ==
  ASSUME StoreInv', NEW q \in Queues \cup {Null}, readOnly \in BOOLEAN,
         handleDropdownChange(q, inst', stored', store'),
         broken' \in BOOLEAN, late' = 0 => ~broken'
  PROVE  ViewInv'
<1> DEFINE ms == IF q # Null /\ q \in stored' THEN store'[q] ELSE <<>>
<1> DEFINE ro == IF q = Null THEN readOnly ELSE PermissionOf(q, inst') = "ro"
<1>1. /\ current' = q /\ readOnly' = ro
      /\ linked' = (q # Null /\ q \in stored') /\ own' = <<>>
      /\ same' = TRUE /\ copy' = <<>>
      /\ filter' = NoFilter /\ details' = Null
      /\ rows' = renderList(ms, ro)
  BY DEF handleDropdownChange
<1>2. TypeStore'
  BY DEF StoreInv
<1>3. Null \notin Queues /\ Cap \in Nat
  BY BrowserAssumption
<1>4. ms \in Seq(Msgs) /\ Of(ms, q)
  <2>1. Of(<<>>, q) /\ <<>> \in Seq(Msgs)
    BY DEF Of
  <2>2. q # Null => store'[q] \in Seq(Msgs) /\ Of(store'[q], q)
    BY <1>2 DEF StoreInv, TypeStore
  <2> QED
    BY <2>1, <2>2
<1>5. ro \in BOOLEAN
  OBVIOUS
<1>6. linked' => all' = ms /\ displayed' = ms
  BY <1>1 DEF all, displayed
<1>7. ~linked' => all' = <<>> /\ displayed' = <<>> /\ ms = <<>>
  BY <1>1 DEF all, displayed
<1>8. q \in Queues /\ ~linked' => store'[q] = <<>>
  BY <1>1, <1>2, <1>3 DEF TypeStore
<1>9. linked' \in BOOLEAN
  BY <1>1
<1>10. q \in Queues => (ro <=> (inst'[q] # Null /\ permission'[inst'[q]] = "ro"))
  BY <1>3 DEF PermissionOf
<1> HIDE DEF ms, ro
<1>11. /\ rows' \in Seq(TableRows) /\ MsgsOf(rows') = ms /\ DOMAIN rows' = DOMAIN ms
       /\ \A i \in DOMAIN ms : rows'[i] = [msg |-> ms[i], checked |-> FALSE, canDelete |-> ~ro]
  BY <1>1, <1>4, <1>5, Rendered
<1>12. TypeView'
  <2>1. linked' => current' \in stored'
    BY <1>1
  <2>2. filter' \in Filters
    BY <1>1, NoFilterPasses
  <2>3. readOnly' \in BOOLEAN /\ same' \in BOOLEAN
    BY <1>1, <1>5
  <2>4. own' \in Seq(Msgs) /\ copy' \in Seq(Msgs)
    BY <1>1
  <2> QED
    BY <1>1, <1>9, <1>11, <2>1, <2>2, <2>3, <2>4 DEF TypeView
<1>13. ViewOf'
  <2>1. Of(<<>>, q) /\ Len(<<>>) <= Cap
    BY <1>3 DEF Of
  <2>2. \A i \in DOMAIN rows' : rows'[i].msg[1] = q /\ rows'[i].canDelete = ~ro
    BY <1>4, <1>11 DEF Of
  <2> QED
    BY <1>1, <2>1, <2>2 DEF ViewOf
<1>14. Allowed'
  BY <1>1, <1>10 DEF Allowed
<1>15. ASSUME late' = 0
       PROVE  Exact'
  <2>1. all' = ms /\ displayed' = ms
    BY <1>6, <1>7, <1>9
  <2>2. Only(ms, Passing(filter')) = ms
    <3>1. \A i \in DOMAIN ms : ms[i] \in Passing(filter')
      BY <1>1, <1>4, NoFilterPasses, ElementOfSeq, LenProperties
    <3> QED
      BY <1>4, <3>1, OnlyAll
  <2>3. MsgsOf(rows') = displayed' /\ displayed' = Only(all', Passing(filter'))
    BY <2>1, <2>2, <1>11
  <2>4. ~linked' => own' = <<>> /\ (current' # Null => store'[current'] = <<>>)
    BY <1>1, <1>8
  <2> QED
    BY <1>1, <1>15, <2>3, <2>4 DEF Exact
<1> QED
  BY <1>12, <1>13, <1>14, <1>15 DEF ViewInv

LEMMA ResetView ==
  ASSUME StoreInv', resetQueueSelection, broken' \in BOOLEAN, late' = 0 => ~broken'
  PROVE  ViewInv'
<1>1. /\ current' = Null /\ readOnly' = FALSE
      /\ linked' = FALSE /\ own' = <<>> /\ same' = FALSE /\ copy' = <<>>
      /\ filter' = NoFilter /\ rows' = <<>> /\ details' = Null
  BY DEF resetQueueSelection
<1>2. TypeView'
  <2>1. filter' \in Filters
    BY <1>1, NoFilterPasses
  <2>2. rows' \in Seq(TableRows) /\ own' \in Seq(Msgs) /\ copy' \in Seq(Msgs)
    BY <1>1
  <2>3. readOnly' \in BOOLEAN /\ linked' \in BOOLEAN /\ same' \in BOOLEAN /\ ~linked'
    BY <1>1
  <2> QED
    BY <1>1, <2>1, <2>2, <2>3 DEF TypeView
<1>3. ViewOf'
  <2>1. Of(<<>>, Null) /\ Len(<<>>) <= Cap
    BY BrowserAssumption DEF Of
  <2> QED
    BY <1>1, <2>1 DEF ViewOf
<1>4. Allowed'
  BY <1>1 DEF Allowed
<1>5. ASSUME late' = 0
      PROVE  Exact'
  <2>1. all' = <<>> /\ displayed' = <<>>
    BY <1>1 DEF all, displayed
  <2>2. Only(<<>>, Passing(filter')) = <<>>
    BY OnlyEmpty
  <2>3. MsgsOf(rows') = <<>>
    BY <1>1 DEF MsgsOf
  <2> QED
    BY <1>1, <1>5, <2>1, <2>2, <2>3 DEF Exact
<1> QED
  BY <1>2, <1>3, <1>4, <1>5 DEF ViewInv

\* A handler that may take the array of q out of the store leaves what the page shows of it.
LEMMA KeepView ==
  ASSUME StoreInv, ViewInv, StoreInv', NEW q \in Queues, KeepList(q),
         UNCHANGED <<current, readOnly, same, copy, filter, rows, details, broken, permission>>,
         \A r \in Queues : inst'[r] # Null /\ phase'[inst'[r]] = "up" =>
                             inst'[r] = inst[r] /\ phase[inst[r]] = "up",
         \A r \in Queues \ {q} : store'[r] = store[r] /\ (r \in stored' <=> r \in stored),
         q \in stored' => store'[q] = store[q],
         late' = 0 => late = 0 /\ store' = store
  PROVE  ViewInv'
<1>1. TypeView /\ ViewOf /\ Allowed
  BY DEF ViewInv
<1>2. stored \subseteq Queues /\ store \in [Queues -> Seq(Msgs)]
  BY DEF StoreInv, TypeStore
<1> DEFINE goes == linked /\ current = q /\ q \notin stored'
<1>3. goes => linked' = FALSE /\ own' = store[q]
  BY DEF KeepList
<1>4. ~goes => linked' = linked /\ own' = own
  BY DEF KeepList
<1> HIDE DEF goes
<1>5. /\ linked' \in BOOLEAN /\ (linked' => current' \in stored')
      /\ own' \in Seq(Msgs) /\ Of(own', current) /\ Len(own') <= Cap
  <2>1. CASE goes
    <3>1. store[q] \in Seq(Msgs) /\ Of(store[q], q) /\ Len(store[q]) <= Cap /\ current = q
      BY <1>2, <2>1 DEF StoreInv, goes
    <3> QED
      BY <1>3, <2>1, <3>1
  <2>2. CASE ~goes
    <3>1. linked => current \in stored'
      BY <1>1, <1>2, <2>2 DEF goes, TypeView
    <3> QED
      BY <1>1, <1>4, <2>2, <3>1 DEF TypeView, ViewOf
  <2> QED
    BY <2>1, <2>2
<1>6. TypeView'
  BY <1>1, <1>5 DEF TypeView
<1>7. ViewOf'
  BY <1>1, <1>5 DEF ViewOf
<1>8. Allowed'
  BY <1>1, <1>6 DEF Allowed, TypeView
<1>9. ASSUME late' = 0
      PROVE  Exact'
  <2>1. Exact /\ store' = store /\ late = 0
    BY <1>9 DEF ViewInv
  <2>2. all' = all
    <3>1. CASE goes
      BY <1>3, <3>1 DEF all, goes
    <3>2. CASE ~goes
      BY <1>4, <2>1, <3>2 DEF all
    <3> QED
      BY <3>1, <3>2
  <2>3. displayed' = displayed
    BY <2>2 DEF displayed
  <2>4. ~linked' => own' = <<>> /\ (current' # Null => store'[current'] = <<>>)
    <3>1. CASE goes
      <4>1. store'[q] = <<>>
        BY <3>1 DEF goes, StoreInv, TypeStore
      <4> QED
        BY <1>3, <2>1, <3>1, <4>1 DEF goes
    <3>2. CASE ~goes
      BY <1>4, <2>1, <3>2 DEF Exact
    <3> QED
      BY <3>1, <3>2
  <2> QED
    BY <2>1, <2>2, <2>3, <2>4 DEF Exact
<1> QED
  BY <1>6, <1>7, <1>8, <1>9 DEF ViewInv

\* Only sees of a filter what it does to the entries there are.
LEMMA OnlySame ==
  ASSUME NEW X, NEW S, NEW R, NEW s \in Seq(X), \A i \in DOMAIN s : s[i] \in S <=> s[i] \in R
  PROVE  Only(s, S) = Only(s, R)
<1>1. {i \in DOMAIN s : s[i] \in S} = {i \in DOMAIN s : s[i] \in R}
  OBVIOUS
<1> QED
  BY <1>1 DEF Only

\* The table is drawn anew from a list.
LEMMA DrawnView ==
  ASSUME StoreInv, ViewInv, UNCHANGED <<sdkVars, session, storeVars, options, late>>,
         UNCHANGED <<current, readOnly, linked, own, broken>>,
         same' \in BOOLEAN, filter' \in Filters, copy' \in Seq(Msgs), Of(copy', current),
         rows' = renderList(displayed', readOnly), details' \in Ids \cup {Null},
         late = 0 => /\ same' => filter' = NoFilter
                     /\ displayed' = Only(all, Passing(filter'))
                     /\ details' # Null => \E k \in DOMAIN displayed' : IdOf(displayed'[k]) = details'
  PROVE  ViewInv'
<1>1. TypeView /\ ViewOf /\ Allowed
  BY DEF ViewInv
<1>2. UNCHANGED <<phase, permission, inst, stored, store, late>>
  BY DEF sdkVars, storeVars
<1>3. all' = all
  BY <1>2 DEF all
<1>4. displayed' \in Seq(Msgs) /\ Of(displayed', current) /\ readOnly \in BOOLEAN
  <2>1. all \in Seq(Msgs) /\ Of(all, current)
    BY AllTypes
  <2> QED
    BY <1>1, <1>3, <2>1 DEF displayed, TypeView
<1>5. /\ rows' \in Seq(TableRows) /\ MsgsOf(rows') = displayed' /\ DOMAIN rows' = DOMAIN displayed'
      /\ \A i \in DOMAIN displayed' :
           rows'[i] = [msg |-> displayed'[i], checked |-> FALSE, canDelete |-> ~readOnly]
  BY <1>4, Rendered
<1>6. TypeView'
  BY <1>1, <1>2, <1>5 DEF TypeView
<1>7. ViewOf'
  <2>1. \A i \in DOMAIN rows' : rows'[i].msg[1] = current /\ rows'[i].canDelete = ~readOnly
    BY <1>4, <1>5 DEF Of
  <2> QED
    BY <1>1, <2>1 DEF ViewOf
<1>8. Allowed'
  BY <1>1, <1>2 DEF Allowed
<1>9. ASSUME late' = 0
      PROVE  Exact'
  <2>1. Exact /\ late = 0
    BY <1>2, <1>9 DEF ViewInv
  <2>2. details' # Null => \E i \in DOMAIN rows' : IdOf(rows'[i].msg) = details'
    BY <1>5, <2>1
  <2>3. ~linked' => own' = <<>> /\ (current' # Null => store'[current'] = <<>>)
    BY <1>2, <2>1 DEF Exact
  <2> QED
    BY <1>3, <1>5, <2>1, <2>2, <2>3 DEF Exact
<1> QED
  BY <1>6, <1>7, <1>8, <1>9 DEF ViewInv

LEMMA FilterView ==
  ASSUME StoreInv, ViewInv, NEW f \in Filters, applyFilters(f)
  PROVE  ViewInv'
<1>1. /\ filter' = f /\ same' = FALSE /\ copy' = Only(all, Passing(f))
      /\ rows' = renderList(copy', readOnly) /\ details' = Null
      /\ UNCHANGED <<sdkVars, session, storeVars, options, current, readOnly, linked, own, late, broken>>
  BY DEF applyFilters, faultVars
<1>2. all \in Seq(Msgs) /\ Of(all, current)
  BY AllTypes
<1>3. copy' \in Seq(Msgs) /\ Of(copy', current)
  <2>1. \A k \in DOMAIN copy' : \E i \in DOMAIN all : copy'[k] = all[i]
    BY <1>1, <1>2, OnlyTypes
  <2>2. copy' \in Seq(Msgs)
    BY <1>1, <1>2, OnlyTypes
  <2>3. Of(copy', current)
    BY <1>2, <2>1 DEF Of
  <2> QED
    BY <1>1, <2>2, <2>3
<1>4. displayed' = copy'
  BY <1>1 DEF displayed
<1> QED
  BY <1>1, <1>3, <1>4, DrawnView

LEMMA ClearView ==
  ASSUME StoreInv, ViewInv, clearFilters
  PROVE  ViewInv'
<1>1. /\ filter' = NoFilter /\ same' = TRUE /\ copy' = <<>>
      /\ rows' = renderList(all, readOnly)
      /\ UNCHANGED <<sdkVars, session, storeVars, options, current, readOnly, linked, own, details,
                     late, broken>>
  BY DEF clearFilters, faultVars
<1>2. all \in Seq(Msgs)
  BY AllTypes
<1>3. all' = all /\ displayed' = all
  BY <1>1 DEF all, displayed, storeVars
<1>4. copy' \in Seq(Msgs) /\ Of(copy', current) /\ filter' \in Filters /\ same' \in BOOLEAN
  BY <1>1, NoFilterPasses DEF Of
<1>5. all = Only(all, Passing(filter'))
  <2>1. \A i \in DOMAIN all : all[i] \in Passing(filter')
    BY <1>1, <1>2, NoFilterPasses, ElementOfSeq, LenProperties
  <2> QED
    BY <1>2, <2>1, OnlyAll
<1>6. ASSUME late = 0, details # Null
      PROVE  \E k \in DOMAIN all : IdOf(all[k]) = details
  <2>1. Exact
    BY <1>6 DEF ViewInv
  <2>2. PICK i \in DOMAIN rows : IdOf(rows[i].msg) = details
    BY <1>6, <2>1 DEF Exact
  <2>3. MsgsOf(rows)[i] = rows[i].msg /\ i \in DOMAIN MsgsOf(rows)
    BY DEF MsgsOf
  <2>4. i \in DOMAIN displayed /\ displayed[i] = rows[i].msg
    BY <2>1, <2>3 DEF Exact
  <2>5. displayed = Only(all, Passing(filter))
    BY <2>1 DEF Exact
  <2>6. \E k \in DOMAIN all : all[k] = displayed[i]
    BY <1>2, <2>4, <2>5, OnlyTypes
  <2> QED
    BY <2>2, <2>4, <2>6
<1>7. details' \in Ids \cup {Null}
  BY <1>1 DEF ViewInv, TypeView
<1> QED
  BY <1>1, <1>3, <1>4, <1>5, <1>6, <1>7, DrawnView

\* A step that leaves all but check boxes and details as they are.
LEMMA SameRowsView ==
  ASSUME StoreInv, ViewInv, UNCHANGED <<sdkVars, session, storeVars, options, late>>,
         UNCHANGED <<current, readOnly, linked, own, same, copy, filter, broken>>,
         rows' \in Seq(TableRows), DOMAIN rows' = DOMAIN rows,
         \A i \in DOMAIN rows : rows'[i].msg = rows[i].msg /\ rows'[i].canDelete = rows[i].canDelete,
         details' = details \/ \E i \in DOMAIN rows : details' = IdOf(rows[i].msg)
  PROVE  ViewInv'
<1>1. TypeView /\ ViewOf /\ Allowed
  BY DEF ViewInv
<1>2. UNCHANGED <<phase, permission, inst, stored, store, late>>
  BY DEF sdkVars, storeVars
<1>3. MsgsOf(rows') = MsgsOf(rows)
  BY DEF MsgsOf
<1>4. details' \in Ids \cup {Null}
  BY <1>1, RowTypes DEF TypeView
<1>5. TypeView'
  BY <1>1, <1>2, <1>4 DEF TypeView
<1>6. ViewOf'
  BY <1>1 DEF ViewOf
<1>7. Allowed'
  BY <1>1, <1>2 DEF Allowed
<1>8. all' = all /\ displayed' = displayed
  BY <1>2 DEF all, displayed
<1>9. ASSUME late' = 0
      PROVE  Exact'
  <2>1. Exact
    BY <1>2, <1>9 DEF ViewInv
  <2>2. details' # Null => \E i \in DOMAIN rows' : IdOf(rows'[i].msg) = details'
    BY <2>1 DEF Exact
  <2> QED
    BY <1>2, <1>3, <1>8, <2>1, <2>2 DEF Exact
<1> QED
  BY <1>5, <1>6, <1>7, <1>9 DEF ViewInv

LEMMA CheckView ==
  ASSUME StoreInv, ViewInv,
         \/ \E i \in DOMAIN rows : CheckRow(i)
         \/ \E c \in BOOLEAN : CheckAll(c)
         \/ \E i \in DOMAIN rows : selectMessage(i)
  PROVE  ViewInv' /\ UNCHANGED <<sdkVars, session, storeVars, options, late>>
<1>1. rows \in Seq(TableRows) /\ DOMAIN rows = 1..Len(rows) /\ \A i \in DOMAIN rows : rows[i] \in TableRows
  <2>1. rows \in Seq(TableRows)
    BY DEF ViewInv, TypeView
  <2> QED
    BY <2>1, ElementOfSeq, LenProperties
<1>2. ASSUME NEW i \in DOMAIN rows, CheckRow(i)
      PROVE  ViewInv' /\ UNCHANGED <<sdkVars, session, storeVars, options, late>>
  <2> DEFINE r == [rows[i] EXCEPT !.checked = ~@]
  <2>1. /\ rows' = [rows EXCEPT ![i] = r]
        /\ UNCHANGED <<sdkVars, session, storeVars, options, late>>
        /\ UNCHANGED <<current, readOnly, linked, own, same, copy, filter, broken>> /\ details' = details
    BY <1>2 DEF CheckRow, faultVars, listVars
  <2>2. r \in TableRows /\ r.msg = rows[i].msg /\ r.canDelete = rows[i].canDelete
    BY <1>1 DEF TableRows
  <2> HIDE DEF r
  <2>3. rows' \in Seq(TableRows) /\ DOMAIN rows' = DOMAIN rows
    BY <1>1, <2>1, <2>2
  <2>4. \A k \in DOMAIN rows : rows'[k].msg = rows[k].msg /\ rows'[k].canDelete = rows[k].canDelete
    BY <2>1, <2>2
  <2> QED
    BY <2>1, <2>3, <2>4, SameRowsView
<1>3. ASSUME NEW c \in BOOLEAN, CheckAll(c)
      PROVE  ViewInv' /\ UNCHANGED <<sdkVars, session, storeVars, options, late>>
  <2>1. /\ rows' = [k \in DOMAIN rows |-> [rows[k] EXCEPT !.checked = c]]
        /\ UNCHANGED <<sdkVars, session, storeVars, options, late>>
        /\ UNCHANGED <<current, readOnly, linked, own, same, copy, filter, broken>> /\ details' = details
    BY <1>3 DEF CheckAll, faultVars, listVars
  <2>2. \A k \in DOMAIN rows : [rows[k] EXCEPT !.checked = c] \in TableRows
    BY <1>1 DEF TableRows
  <2>3. rows' \in Seq(TableRows) /\ DOMAIN rows' = DOMAIN rows
    <3>1. Len(rows) \in Nat
      BY <1>1
    <3> QED
      BY <1>1, <2>1, <2>2, <3>1
  <2>4. \A k \in DOMAIN rows : rows'[k].msg = rows[k].msg /\ rows'[k].canDelete = rows[k].canDelete
    BY <1>1, <2>1 DEF TableRows
  <2> QED
    BY <2>1, <2>3, <2>4, SameRowsView
<1>4. ASSUME NEW i \in DOMAIN rows, selectMessage(i)
      PROVE  ViewInv' /\ UNCHANGED <<sdkVars, session, storeVars, options, late>>
  <2>1. /\ details' = IdOf(rows[i].msg) /\ rows' = rows
        /\ UNCHANGED <<sdkVars, session, storeVars, options, late>>
        /\ UNCHANGED <<current, readOnly, linked, own, same, copy, filter, broken>>
    BY <1>4 DEF selectMessage, faultVars, listVars
  <2> QED
    BY <1>1, <2>1, SameRowsView
<1> QED
  BY <1>2, <1>3, <1>4

LEMMA OfTypes ==
  ASSUME NEW q, NEW s \in Seq(Msgs)
  PROVE  Of(s, q) <=> s \in Seq({m \in Msgs : m[1] = q})
<1> DEFINE M == {m \in Msgs : m[1] = q}
<1>1. DOMAIN s = 1..Len(s) /\ Len(s) \in Nat /\ \A k \in 1..Len(s) : s[k] \in Msgs
  BY ElementOfSeq, LenProperties
<1>2. ASSUME Of(s, q)
      PROVE  s \in Seq(M)
  <2>1. \A k \in 1..Len(s) : s[k] \in M
    BY <1>1, <1>2 DEF Of
  <2> HIDE DEF M
  <2>2. s = [k \in 1..Len(s) |-> s[k]]
    BY <1>1
  <2>3. [k \in 1..Len(s) |-> s[k]] \in Seq(M)
    BY <1>1, <2>1
  <2> QED
    BY <2>2, <2>3
<1>3. ASSUME s \in Seq(M)
      PROVE  Of(s, q)
  <2>1. \A k \in 1..Len(s) : s[k] \in M
    BY <1>3, ElementOfSeq
  <2> QED
    BY <1>1, <2>1 DEF Of
<1> QED
  BY <1>2, <1>3

\* The message that leaves the window leaves the table, the filtered list and the details.
LEMMA DropOldestView ==
  ASSUME StoreInv, ViewInv, current \in Queues, current \in stored
  PROVE  LET drop == DropOldest(current)
         IN  /\ drop.rows \in Seq(TableRows)
             /\ \A k \in DOMAIN drop.rows : \E i \in DOMAIN rows : drop.rows[k] = rows[i]
             /\ drop.copy \in Seq(Msgs) /\ Of(drop.copy, current)
             /\ drop.details \in {details, Null}
             /\ late = 0 => /\ MsgsOf(drop.rows) = Only(Window(current), Passing(filter))
                            /\ ~same => drop.copy = Only(Window(current), Passing(filter))
                            /\ drop.details # Null =>
                                 \E k \in DOMAIN drop.rows : IdOf(drop.rows[k].msg) = drop.details
<1> DEFINE q == current
<1> DEFINE drop == DropOldest(q)
<1> DEFINE P == Passing(filter)
<1>1. /\ rows \in Seq(TableRows) /\ copy \in Seq(Msgs) /\ Of(copy, q) /\ q \in Queues /\ q \in stored
      /\ store[q] \in Seq(Msgs)
  BY DEF ViewInv, TypeView, ViewOf, StoreInv, TypeStore
<1>2. late = 0 => /\ MsgsOf(rows) = displayed /\ displayed = Only(store[q], P) /\ (~same => copy = displayed)
                  /\ IsInjective(displayed) /\ IsInjective(store[q])
                  /\ details # Null => \E i \in DOMAIN rows : IdOf(rows[i].msg) = details
                  /\ \A i \in DOMAIN rows, j \in DOMAIN rows : IdOf(rows[i].msg) = IdOf(rows[j].msg) => i = j
  <2>1. late = 0 => all = store[q]
    BY AllExact, BrowserAssumption
  <2>2. late = 0 => IsInjective(displayed) /\ IsInjective(store[q])
    BY <2>1, AllExact
  <2>3. late = 0 => \A i \in DOMAIN rows, j \in DOMAIN rows : IdOf(rows[i].msg) = IdOf(rows[j].msg) => i = j
    BY AllExact
  <2> QED
    BY <2>1, <2>2, <2>3 DEF ViewInv, Exact, displayed
<1>3. CASE ~AtCap(q)
  <2>1. drop.rows = rows /\ drop.copy = copy /\ drop.details = details /\ Window(q) = store[q]
    BY <1>3 DEF DropOldest, Window
  <2> HIDE DEF drop, P
  <2> QED
    BY <1>1, <1>2, <2>1 DEF drop, P
<1>4. CASE AtCap(q)
  <2> DEFINE old == Head(store[q])
  <2> DEFINE id == IdOf(old)
  <2>1. /\ drop.rows = removeMessageRow(rows, {id})
        /\ drop.copy = IF same THEN copy ELSE RemoveFirst(copy, old)
        /\ drop.details = ClearedIf(details, rows, id)
        /\ Window(q) = Tail(store[q])
    BY <1>4 DEF DropOldest, Window
  <2>2. store[q] # <<>> /\ old \in Msgs /\ old = <<q, id>>
    <3>1. store[q] # <<>> /\ old \in Msgs /\ old = store[q][1] /\ 1 \in DOMAIN store[q]
      BY <1>1, <1>4, WindowTypes
    <3>2. old[1] = q
      BY <1>1, <3>1 DEF StoreInv, Of
    <3> QED
      BY <3>1, <3>2 DEF Msgs, IdOf
  <2> HIDE DEF drop, P, old, id
  <2>3. /\ drop.rows \in Seq(TableRows)
        /\ \A k \in DOMAIN drop.rows : \E i \in DOMAIN rows : drop.rows[k] = rows[i]
    <3>1. /\ removeMessageRow(rows, {id}) \in Seq(TableRows)
          /\ \A k \in DOMAIN removeMessageRow(rows, {id}) :
               \E i \in DOMAIN rows : removeMessageRow(rows, {id})[k] = rows[i]
      <4> DEFINE one == {id}
      <4> HIDE DEF one
      <4>1. rows \in Seq(TableRows)
        BY <1>1
      <4>2. /\ removeMessageRow(rows, one) \in Seq(TableRows)
            /\ \A k \in DOMAIN removeMessageRow(rows, one) :
                 \E i \in DOMAIN rows : removeMessageRow(rows, one)[k] = rows[i]
        BY <4>1, RowsLeft
      <4> QED
        BY <4>2 DEF one
    <3> QED
      BY <2>1, <3>1
  <2>4. drop.copy \in Seq(Msgs) /\ Of(drop.copy, q)
    <3> DEFINE M == {m \in Msgs : m[1] = q}
    <3>1. copy \in Seq(M)
      BY <1>1, OfTypes
    <3> DEFINE c == RemoveFirst(copy, old)
    <3>2. c \in Seq(Msgs) /\ c \in Seq(M)
      <4> HIDE DEF M
      <4> QED
        BY <1>1, <3>1, RemoveFirstTypes
    <3> HIDE DEF c
    <3>3. Of(c, q)
      BY <3>2, OfTypes
    <3> QED
      BY <1>1, <2>1, <3>2, <3>3 DEF c
  <2>5. drop.details \in {details, Null}
    BY <2>1 DEF ClearedIf
  <2>6. ASSUME late = 0
        PROVE  /\ MsgsOf(drop.rows) = Only(Window(q), P)
               /\ ~same => drop.copy = Only(Window(q), P)
               /\ drop.details # Null => \E k \in DOMAIN drop.rows : IdOf(drop.rows[k].msg) = drop.details
    <3>1. /\ displayed \in Seq(Msgs) /\ Of(displayed, q)
      BY AllTypes
    <3>2. MsgsOf(drop.rows) = Only(displayed, {m \in Msgs : IdOf(m) \notin {id}})
      BY <1>1, <1>2, <2>1, <2>6, RowsRemoved
    <3>3. Only(displayed, {m \in Msgs : IdOf(m) \notin {id}}) = Only(displayed, Msgs \ {old})
      <4> DEFINE S == {m \in Msgs : IdOf(m) \notin {id}}
      <4>1. ASSUME NEW k \in DOMAIN displayed
            PROVE  displayed[k] \in S <=> displayed[k] \in Msgs \ {old}
        <5>1. displayed[k] \in Msgs /\ displayed[k][1] = q
          BY <3>1, ElementOfSeq, LenProperties DEF Of
        <5>2. displayed[k] = <<q, IdOf(displayed[k])>>
          BY <5>1 DEF Msgs, IdOf
        <5>3. displayed[k] = old <=> IdOf(displayed[k]) = id
          BY <2>2, <5>2
        <5> QED
          BY <5>1, <5>3
      <4> HIDE DEF S
      <4>2. Only(displayed, S) = Only(displayed, Msgs \ {old})
        BY <3>1, <4>1, OnlySame
      <4> QED
        BY <4>2 DEF S
    <3>4. Only(displayed, Msgs \ {old}) = Only(Window(q), P)
      <4>1. Only(store[q], Msgs \ {old}) = Tail(store[q])
        BY <1>1, <1>2, <2>2, <2>6, OnlyTail DEF old
      <4>2. Only(Only(store[q], P), Msgs \ {old}) = Only(Only(store[q], Msgs \ {old}), P)
        BY <1>1, OnlyCommutes
      <4> QED
        BY <1>2, <2>1, <2>6, <4>1, <4>2
    <3>5. ~same => drop.copy = Only(Window(q), P)
      <4>1. IsInjective(displayed) => RemoveFirst(displayed, old) = Only(displayed, Msgs \ {old})
        BY <3>1, RemoveFirstOnly
      <4> QED
        BY <1>2, <2>1, <2>6, <3>4, <4>1
    <3>6. ASSUME drop.details # Null
          PROVE  \E k \in DOMAIN drop.rows : IdOf(drop.rows[k].msg) = drop.details
      <4>1. details # Null /\ drop.details = details
        BY <2>5, <3>6
      <4>2. PICK i \in DOMAIN rows : IdOf(rows[i].msg) = details
        BY <1>2, <2>6, <4>1
      <4>3. details # id
        BY <2>1, <3>6, <4>1, <4>2 DEF ClearedIf
      <4>4. i \in DOMAIN displayed /\ displayed[i] = rows[i].msg
        BY <1>2, <2>6 DEF MsgsOf
      <4>5. displayed[i] \in Msgs \ {old}
        <5>1. displayed[i] \in Msgs
          BY <3>1, <4>4, ElementOfSeq, LenProperties
        <5>2. displayed[i] # old
          BY <4>2, <4>3, <4>4 DEF id
        <5> QED
          BY <5>1, <5>2
      <4>6. PICK k \in DOMAIN Only(displayed, Msgs \ {old}) : Only(displayed, Msgs \ {old})[k] = displayed[i]
        <5> DEFINE S == Msgs \ {old}
        <5>1. displayed \in Seq(Msgs) /\ i \in DOMAIN displayed /\ displayed[i] \in S
          BY <3>1, <4>4, <4>5
        <5> HIDE DEF S
        <5>2. \A j \in DOMAIN displayed :
                displayed[j] \in S =>
                  \E k \in DOMAIN Only(displayed, S) : Only(displayed, S)[k] = displayed[j]
          BY <5>1, OnlyTypes
        <5>3. \E k \in DOMAIN Only(displayed, S) : Only(displayed, S)[k] = displayed[i]
          BY <5>1, <5>2
        <5> QED
          BY <5>3 DEF S
      <4>7. MsgsOf(drop.rows) = Only(displayed, Msgs \ {old})
        BY <3>2, <3>3
      <4>8. k \in DOMAIN drop.rows /\ drop.rows[k].msg = displayed[i]
        BY <4>6, <4>7 DEF MsgsOf
      <4> QED
        BY <4>1, <4>2, <4>4, <4>8
    <3> QED
      BY <3>2, <3>3, <3>4, <3>5, <3>6
  <2> QED
    BY <2>3, <2>4, <2>5, <2>6 DEF drop, P
<1> QED
  BY <1>3, <1>4

LEMMA MessageView ==
  ASSUME StoreInv, ViewInv, StoreInv', NEW q \in Queues, NEW m \in Msgs, m[1] = q, onMessage(q, m),
         UNCHANGED <<phase, permission, inst, current, readOnly, filter>>,
         \A r \in Queues : store'[r] = IF r = q /\ r \in stored THEN Append(Window(r), m) ELSE store[r],
         late' = 0 => late = 0 /\ q \in stored
  PROVE  ViewInv'
<1>1. TypeView /\ ViewOf /\ Allowed
  BY DEF ViewInv
<1>2. stored' = stored
  BY DEF onMessage, ingestMessage
<1>3. Allowed'
  BY <1>1 DEF Allowed
<1>4. Null \notin Queues /\ Cap \in Nat
  BY BrowserAssumption
<1>5. CASE current # q
  <2>1. UNCHANGED <<linked, own, same, copy, rows, details, broken>>
    BY <1>5 DEF onMessage, listVars
  <2>2. TypeView' /\ ViewOf'
    BY <1>1, <1>2, <2>1 DEF TypeView, ViewOf
  <2>3. ASSUME late' = 0
        PROVE  Exact'
    <3>1. Exact
      BY <2>3 DEF ViewInv
    <3>2. current # Null => current \in Queues /\ store'[current] = store[current]
      BY <1>1, <1>5 DEF TypeView
    <3>3. linked => current # Null
      BY <1>1, <1>4 DEF TypeView, StoreInv, TypeStore
    <3>4. all' = all /\ displayed' = displayed
      BY <2>1, <3>2, <3>3 DEF all, displayed
    <3> QED
      BY <2>1, <3>1, <3>2, <3>4 DEF Exact
  <2> QED
    BY <1>3, <2>2, <2>3 DEF ViewInv
<1>6. CASE current = q /\ q \notin stored
  <2>1. UNCHANGED <<linked, own, same, copy, rows, details>> /\ broken' = TRUE
    BY <1>6 DEF onMessage, listVars
  <2>2. TypeView' /\ ViewOf'
    BY <1>1, <1>2, <2>1 DEF TypeView, ViewOf
  <2> QED
    BY <1>3, <1>6, <2>2 DEF ViewInv
<1>7. CASE current = q /\ q \in stored
  <2> DEFINE drop == DropOldest(q)
  <2> DEFINE P == Passing(filter)
  <2> DEFINE shows == shouldShowMessage(filter, m)
  <2> DEFINE base == IF same THEN own ELSE drop.copy
  <2> DEFINE row == createRow(m, readOnly)
  <2>1. /\ linked' = TRUE /\ own' = <<>> /\ same' = (same /\ linked)
        /\ copy' = CASE same' -> <<>> [] ~same' /\ shows -> Append(base, m) [] OTHER -> base
        /\ rows' = IF shows THEN Append(drop.rows, row) ELSE drop.rows
        /\ details' = drop.details /\ broken' = broken
    BY <1>7 DEF onMessage
  <2>2. /\ drop.rows \in Seq(TableRows)
        /\ \A k \in DOMAIN drop.rows : \E i \in DOMAIN rows : drop.rows[k] = rows[i]
        /\ drop.copy \in Seq(Msgs) /\ Of(drop.copy, q)
        /\ drop.details \in {details, Null}
        /\ late = 0 => /\ MsgsOf(drop.rows) = Only(Window(q), P)
                       /\ ~same => drop.copy = Only(Window(q), P)
                       /\ drop.details # Null =>
                            \E k \in DOMAIN drop.rows : IdOf(drop.rows[k].msg) = drop.details
    BY <1>7, DropOldestView
  <2>3. row \in TableRows /\ row.msg = m /\ row.canDelete = ~readOnly
    BY <1>1 DEF createRow, TableRows, TypeView
  <2>4. shows <=> m \in P
    BY DEF Passing
  <2>5. linked \in BOOLEAN /\ same \in BOOLEAN /\ readOnly \in BOOLEAN
    BY <1>1 DEF TypeView
  <2>6. same' \in BOOLEAN /\ (same' <=> same /\ linked)
    BY <2>1, <2>5
  <2>7. base \in Seq(Msgs) /\ Of(base, q)
    BY <1>1, <1>7, <2>2 DEF TypeView, ViewOf
  <2> HIDE DEF drop, P, shows, base, row
  <2>8. copy' = IF same' THEN <<>> ELSE IF shows THEN Append(base, m) ELSE base
    BY <2>1, <2>6
  <2>9. copy' \in Seq(Msgs) /\ Of(copy', q)
    <3> DEFINE M == {x \in Msgs : x[1] = q}
    <3>1. base \in Seq(M)
      BY <2>7, OfTypes
    <3>2. copy' \in Seq(Msgs)
      BY <2>7, <2>8
    <3>3. copy' \in Seq(M)
      <4>1. m \in M
        OBVIOUS
      <4> HIDE DEF M
      <4> QED
        BY <2>8, <3>1, <4>1
    <3> QED
      BY <3>2, <3>3, OfTypes
  <2>10. rows' \in Seq(TableRows)
    BY <2>1, <2>2, <2>3
  <2>11. \A k \in DOMAIN rows' : rows'[k].msg[1] = q /\ rows'[k].canDelete = ~readOnly
    <3>1. \A k \in DOMAIN drop.rows : drop.rows[k].msg[1] = q /\ drop.rows[k].canDelete = ~readOnly
      BY <1>1, <1>7, <2>2 DEF ViewOf
    <3> DEFINE u == Append(drop.rows, row)
    <3>2. /\ DOMAIN u = 1..(Len(drop.rows) + 1) /\ DOMAIN drop.rows = 1..Len(drop.rows)
          /\ Len(drop.rows) \in Nat /\ u[Len(drop.rows) + 1] = row
          /\ \A k \in 1..Len(drop.rows) : u[k] = drop.rows[k]
      BY <2>2, <2>3
    <3> HIDE DEF u
    <3>3. \A k \in DOMAIN u : u[k].msg[1] = q /\ u[k].canDelete = ~readOnly
      BY <2>3, <3>1, <3>2
    <3> QED
      BY <2>1, <3>1, <3>3 DEF u
  <2>12. TypeView'
    <3>1. details' \in Ids \cup {Null}
      BY <1>1, <2>1, <2>2 DEF TypeView
    <3>2. own' \in Seq(Msgs) /\ linked' \in BOOLEAN
      BY <2>1
    <3> QED
      BY <1>1, <1>2, <1>7, <2>1, <2>6, <2>9, <2>10, <3>1, <3>2 DEF TypeView
  <2>13. ViewOf'
    <3>1. Of(<<>>, q) /\ Len(<<>>) <= Cap
      BY <1>4 DEF Of
    <3> QED
      BY <1>7, <2>1, <2>9, <2>11, <3>1 DEF ViewOf
  <2>14. ASSUME late' = 0
         PROVE  Exact'
    <3>1. Exact /\ late = 0 /\ Delivered
      BY <2>14 DEF ViewInv, StoreInv
    <3> DEFINE K == Window(q)
    <3>2. K \in Seq(Msgs)
      BY <1>7, WindowTypes
    <3>3. all' = Append(K, m)
      BY <1>7, <2>1 DEF all
    <3>4. MsgsOf(drop.rows) = Only(K, P) /\ (~same => drop.copy = Only(K, P))
      BY <2>2, <3>1
    <3>5. ~linked => own = <<>> /\ store[q] = <<>>
      BY <1>4, <1>7, <3>1 DEF Exact
    <3>6. ~linked => K = <<>>
      <4>1. store[q] = <<>> => ~AtCap(q)
        BY <1>7, WindowTypes
      <4> QED
        BY <3>5, <4>1 DEF Window
    <3> HIDE DEF K
    <3>7. Only(all', P) = IF shows THEN Append(Only(K, P), m) ELSE Only(K, P)
      BY <2>4, <3>2, <3>3, OnlyAppend
    <3>8. MsgsOf(rows') = Only(all', P)
      <4>1. MsgsOf(Append(drop.rows, row)) = Append(MsgsOf(drop.rows), m)
        BY <2>2, <2>3, MsgsOfAppend
      <4> QED
        BY <2>1, <3>4, <3>7, <4>1
    <3>9. displayed' = Only(all', P)
      <4>1. CASE same'
        <5>1. filter = NoFilter
          BY <2>6, <3>1, <4>1 DEF Exact
        <5>2. P = Msgs
          BY <5>1, NoFilterPasses DEF P
        <5>3. all' \in Seq(Msgs)
          BY <3>2, <3>3, AppendProperties
        <5>4. \A k \in DOMAIN all' : all'[k] \in P
          BY <5>2, <5>3, ElementOfSeq, LenProperties
        <5>5. Only(all', P) = all'
          BY <5>3, <5>4, OnlyAll
        <5> QED
          BY <4>1, <5>5 DEF displayed
      <4>2. CASE ~same'
        <5>1. base = Only(K, P)
          <6>1. CASE same
            <7>1. base = <<>> /\ K = <<>>
              BY <2>5, <2>6, <3>5, <3>6, <4>2, <6>1 DEF base
            <7> QED
              BY <7>1, OnlyEmpty
          <6>2. CASE ~same
            BY <3>4, <6>2 DEF base
          <6> QED
            BY <6>1, <6>2
        <5>2. copy' = Only(all', P)
          BY <2>8, <3>7, <4>2, <5>1
        <5> QED
          BY <4>2, <5>2 DEF displayed
      <4> QED
        BY <4>1, <4>2
    <3>10. same' => filter' = NoFilter
      BY <2>6, <3>1 DEF Exact
    <3>11. details' # Null => \E k \in DOMAIN rows' : IdOf(rows'[k].msg) = details'
      <4> DEFINE d == drop.rows
      <4> DEFINE u == Append(d, row)
      <4>1. d \in Seq(TableRows)
        BY <2>2
      <4>2. \A k \in DOMAIN d : k \in DOMAIN u /\ u[k] = d[k]
        BY <2>3, <4>1
      <4>3. details' # Null => \E k \in DOMAIN d : IdOf(d[k].msg) = details'
        BY <2>1, <2>2, <3>1
      <4>4. rows' = u \/ rows' = d
        BY <2>1
      <4> HIDE DEF d, u
      <4> QED
        BY <4>2, <4>3, <4>4
    <3> QED
      BY <2>1, <3>1, <3>8, <3>9, <3>10, <3>11 DEF Exact, P
  <2> QED
    BY <1>3, <2>12, <2>13, <2>14 DEF ViewInv
<1> QED
  BY <1>5, <1>6, <1>7

-----------------------------------------------------------------------------
(* Deletions.                                                              *)

\* The ids are of rows of the table.
OfRows(ids) == \A id \in ids : \E i \in DOMAIN rows : IdOf(rows[i].msg) = id

\* What goes is what was on show, and only a browser that is up can make it go.
LEMMA DeletedShown ==
  ASSUME StoreInv, ViewInv, current \in Queues, NEW ids, OfRows(ids), NEW failing \in Removable(ids),
         deleteMessages(ids, failing)
  PROVE  /\ removed' = removed \cup {<<current, id>> : id \in ids \ failing}
         /\ \A id \in ids \ failing : \E i \in DOMAIN rows : rows[i].msg = <<current, id>>
         /\ inst[current] # Null /\ inst[current] \in Browsers /\ phase[inst[current]] = "up"
<1>1. /\ inst[current] # Null /\ ids \ failing # {}
      /\ removed' = removed \cup {<<queueOf[inst[current]], id>> : id \in ids \ failing}
  BY DEF deleteMessages
<1>2. inst[current] \in Browsers /\ queueOf[inst[current]] = current
  BY <1>1 DEF StoreInv, Bindings, Used
<1>3. phase[inst[current]] = "up"
  BY <1>1 DEF Removable
<1>4. ASSUME NEW id \in ids \ failing
      PROVE  \E i \in DOMAIN rows : rows[i].msg = <<current, id>>
  <2>1. PICK i \in DOMAIN rows : IdOf(rows[i].msg) = id
    BY <1>4 DEF OfRows
  <2>2. rows[i].msg = <<current, IdOf(rows[i].msg)>>
    BY RowTypes
  <2> QED
    BY <2>1, <2>2
<1> QED
  BY <1>1, <1>2, <1>3, <1>4

LEMMA DeleteStore ==
  ASSUME StoreInv, ViewInv, current \in Queues, NEW ids, OfRows(ids), NEW failing \in Removable(ids),
         deleteMessages(ids, failing)
  PROVE  StoreInv'
<1> DEFINE done == ids \ failing
<1> DEFINE keep == {m \in Msgs : IdOf(m) \notin done}
<1> DEFINE kept == Only(all, keep)
<1>1. /\ store' = [store EXCEPT ![current] = kept]
      /\ UNCHANGED <<phase, queueOf, permission, cursor, session, inst, stored, options, late>>
      /\ current \in stored
  BY DEF deleteMessages, WriteBack, faultVars
<1>2. /\ removed' = removed \cup {<<current, id>> : id \in done}
      /\ \A id \in done : \E i \in DOMAIN rows : rows[i].msg = <<current, id>>
  BY DeletedShown
<1>3. removed' \subseteq Msgs
  <2>1. \A id \in done : <<current, id>> \in Msgs
    BY <1>2, RowTypes
  <2> QED
    BY <1>2, <2>1 DEF StoreInv, TypeStore
<1>4. all \in Seq(Msgs) /\ Of(all, current) /\ Len(all) <= Cap /\ Len(all) \in Nat /\ Cap \in Nat
  BY AllTypes, LenProperties, BrowserAssumption
<1> HIDE DEF keep
<1>5. /\ kept \in Seq(Msgs) /\ Len(kept) <= Len(all) /\ (IsInjective(all) => IsInjective(kept))
      /\ \A k \in DOMAIN kept : \E i \in DOMAIN all : kept[k] = all[i] /\ all[i] \in keep
  BY <1>4, OnlyTypes
<1> HIDE DEF kept
<1>6. Of(kept, current) /\ Len(kept) <= Cap
  <2>1. Of(kept, current)
    BY <1>4, <1>5 DEF Of
  <2>2. Len(kept) \in Nat
    BY <1>5, LenProperties
  <2> QED
    BY <1>4, <1>5, <2>1, <2>2
<1>7. store \in [Queues -> Seq(Msgs)]
  BY DEF StoreInv, TypeStore
<1>8. store'[current] = kept /\ \A r \in Queues \ {current} : store'[r] = store[r]
  BY <1>1, <1>7
<1>9. TypeStore'
  <2>1. store' \in [Queues -> Seq(Msgs)]
    BY <1>1, <1>5, <1>7
  <2>2. \A r \in Queues \ stored' : store'[r] = <<>>
    BY <1>1, <1>8 DEF StoreInv, TypeStore
  <2> QED
    BY <1>1, <1>3, <2>1, <2>2 DEF StoreInv, TypeStore
<1>10. Bindings'
  BY <1>1 DEF StoreInv, Bindings, Used, Live, Bound
<1>11. \A r \in Queues : Of(store'[r], r) /\ Len(store'[r]) <= Cap
  BY <1>6, <1>8 DEF StoreInv
<1>12. ASSUME late' = 0
       PROVE  Delivered'
  <2>1. Delivered /\ late = 0
    BY <1>1, <1>12 DEF StoreInv
  <2>2. all = store[current] /\ IsInjective(all)
    BY <2>1, AllExact, BrowserAssumption
  <2>3. \A r \in Queues : store'[r] # <<>> => inst'[r] # Null
    <3>1. inst[current] # Null
      BY DeletedShown
    <3> QED
      BY <1>1, <1>8, <2>1, <3>1 DEF Delivered
  <2>4. ASSUME NEW r \in Queues, NEW k \in DOMAIN store'[r]
        PROVE  store'[r][k][2] \in cursor'[inst'[r]]
    <3>1. CASE r = current
      <4>1. PICK i \in DOMAIN store[current] : kept[k] = store[current][i]
        BY <1>5, <1>8, <2>2, <2>4, <3>1
      <4> QED
        BY <1>1, <1>8, <2>1, <3>1, <4>1 DEF Delivered
    <3>2. CASE r # current
      BY <1>1, <1>8, <2>1, <2>4, <3>2 DEF Delivered
    <3> QED
      BY <3>1, <3>2
  <2>5. \A b \in Browsers : phase'[b] \in {"unused", "connecting"} => cursor'[b] = {}
    BY <1>1, <2>1 DEF Delivered
  <2>6. ASSUME NEW r \in Queues
        PROVE  IsInjective(store'[r])
    BY <1>5, <1>8, <2>1, <2>2 DEF Delivered
  <2>7. ASSUME NEW r \in Queues, NEW k \in DOMAIN store'[r]
        PROVE  store'[r][k] \notin removed'
    <3>1. CASE r = current
      <4>1. PICK i \in DOMAIN store[current] : kept[k] = store[current][i] /\ store[current][i] \in keep
        BY <1>5, <1>8, <2>2, <2>7, <3>1
      <4>2. store[current][i] \notin removed
        <5>1. removed \cap ToSet(store[current]) = {}
          BY <2>1 DEF Delivered
        <5> QED
          BY <5>1 DEF ToSet
      <4>3. \A id \in done : store[current][i] # <<current, id>>
        BY <4>1 DEF keep, IdOf
      <4> QED
        BY <1>2, <1>8, <3>1, <4>1, <4>2, <4>3
    <3>2. CASE r # current
      <4>1. store'[r] = store[r] /\ store[r][k][1] = r
        BY <1>8, <2>7, <3>2 DEF StoreInv, Of
      <4>2. store[r][k] \notin removed
        <5>1. removed \cap ToSet(store[r]) = {}
          BY <2>1 DEF Delivered
        <5> QED
          BY <2>7, <4>1, <5>1 DEF ToSet
      <4>3. \A id \in done : store[r][k] # <<current, id>>
        BY <3>2, <4>1
      <4> QED
        BY <1>2, <4>1, <4>2, <4>3
    <3> QED
      BY <3>1, <3>2
  <2>8. \A r \in Queues : removed' \cap ToSet(store'[r]) = {}
    BY <2>7 DEF ToSet
  <2> QED
    BY <2>3, <2>4, <2>5, <2>6, <2>8 DEF Delivered
<1> QED
  BY <1>1, <1>9, <1>10, <1>11, <1>12 DEF StoreInv

LEMMA DeleteView ==
  ASSUME StoreInv, ViewInv, current \in Queues, NEW ids, OfRows(ids), NEW failing \in Removable(ids),
         deleteMessages(ids, failing)
  PROVE  ViewInv'
<1> DEFINE done == ids \ failing
<1> DEFINE keep == {m \in Msgs : IdOf(m) \notin done}
<1> DEFINE P == Passing(filter)
<1> DEFINE left == removeMessageRow(rows, done)
<1>1. /\ rows' = left /\ details' = (IF details \in done THEN Null ELSE details)
      /\ store' = [store EXCEPT ![current] = Only(all, keep)]
      /\ linked' = TRUE /\ own' = <<>> /\ same' = FALSE /\ copy' = Only(displayed, keep)
      /\ UNCHANGED <<phase, permission, inst, stored, current, readOnly, filter, late, broken>>
      /\ current \in stored
  BY DEF deleteMessages, WriteBack, faultVars
<1>2. TypeView /\ ViewOf /\ Allowed /\ rows \in Seq(TableRows)
  BY DEF ViewInv, TypeView
<1>3. left \in Seq(TableRows) /\ \A k \in DOMAIN left : \E i \in DOMAIN rows : left[k] = rows[i]
  <2> HIDE DEF done
  <2> QED
    BY <1>2, RowsLeft
<1>4. all \in Seq(Msgs) /\ displayed \in Seq(Msgs) /\ Of(displayed, current)
  BY AllTypes
<1>5. ASSUME late = 0
      PROVE  /\ MsgsOf(left) = Only(displayed, keep)
             /\ Only(displayed, keep) = Only(Only(all, keep), P)
  <2>1. MsgsOf(rows) = displayed /\ displayed = Only(all, P)
    BY <1>5 DEF ViewInv, Exact
  <2>2. MsgsOf(left) = Only(MsgsOf(rows), keep)
    <3>1. \A i \in DOMAIN rows, j \in DOMAIN rows : IdOf(rows[i].msg) = IdOf(rows[j].msg) => i = j
      BY <1>5, AllExact
    <3> HIDE DEF done
    <3> QED
      BY <1>2, <3>1, RowsRemoved
  <2>3. Only(Only(all, P), keep) = Only(Only(all, keep), P)
    <3> HIDE DEF keep, P
    <3> QED
      BY <1>4, OnlyCommutes
  <2> QED
    BY <2>1, <2>2, <2>3
<1> HIDE DEF keep, P, left
<1>6. copy' \in Seq(Msgs) /\ Of(copy', current)
  <2>1. /\ copy' \in Seq(Msgs)
        /\ \A k \in DOMAIN copy' : \E i \in DOMAIN displayed : copy'[k] = displayed[i]
    BY <1>1, <1>4, OnlyTypes
  <2> QED
    BY <1>4, <2>1 DEF Of
<1>7. TypeView'
  <2>1. own' \in Seq(Msgs) /\ linked' \in BOOLEAN /\ same' \in BOOLEAN
    <3>1. own' = <<>> /\ linked' = TRUE /\ same' = FALSE
      BY <1>1
    <3>2. <<>> \in Seq(Msgs)
      OBVIOUS
    <3> QED
      BY <3>1, <3>2
  <2>2. details' \in Ids \cup {Null}
    BY <1>1, <1>2 DEF TypeView
  <2> QED
    BY <1>1, <1>2, <1>3, <1>6, <2>1, <2>2 DEF TypeView
<1>8. ViewOf'
  <2>1. Of(<<>>, current) /\ Len(<<>>) <= Cap
    BY BrowserAssumption DEF Of
  <2>2. \A k \in DOMAIN left : left[k].msg[1] = current /\ left[k].canDelete = ~readOnly
    BY <1>2, <1>3 DEF ViewOf
  <2> QED
    BY <1>1, <1>6, <2>1, <2>2 DEF ViewOf
<1>9. Allowed'
  BY <1>1, <1>2 DEF Allowed
<1>10. ASSUME late' = 0
       PROVE  Exact'
  <2>1. Exact /\ late = 0
    BY <1>1, <1>10 DEF ViewInv
  <2>2. all' = Only(all, keep)
    <3>1. store'[current] = Only(all, keep)
      BY <1>1 DEF StoreInv, TypeStore
    <3> QED
      BY <1>1, <3>1 DEF all
  <2>3. displayed' = Only(displayed, keep)
    BY <1>1 DEF displayed
  <2>4. MsgsOf(rows') = displayed' /\ displayed' = Only(all', Passing(filter'))
    BY <1>1, <1>5, <2>1, <2>2, <2>3 DEF P
  <2>5. ASSUME details' # Null
        PROVE  \E k \in DOMAIN rows' : IdOf(rows'[k].msg) = details'
    <3>1. details' = details /\ details \notin done /\ details # Null
      BY <1>1, <2>5
    <3>2. PICK i \in DOMAIN rows : IdOf(rows[i].msg) = details
      BY <2>1, <3>1 DEF Exact
    <3>3. i \in DOMAIN displayed /\ displayed[i] = rows[i].msg
      BY <2>1 DEF Exact, MsgsOf
    <3>4. displayed[i] \in keep
      BY <3>1, <3>2, <3>3, RowTypes DEF keep
    <3>5. \A j \in DOMAIN displayed :
            displayed[j] \in keep =>
              \E k \in DOMAIN Only(displayed, keep) : Only(displayed, keep)[k] = displayed[j]
      BY <1>4, OnlyTypes
    <3>6. PICK k \in DOMAIN displayed' : displayed'[k] = displayed[i]
      BY <2>3, <3>3, <3>4, <3>5
    <3>7. k \in DOMAIN rows' /\ rows'[k].msg = displayed[i]
      BY <2>4, <3>6 DEF MsgsOf
    <3> QED
      BY <3>1, <3>2, <3>3, <3>7
  <2> QED
    BY <1>1, <2>1, <2>4, <2>5 DEF Exact
<1> QED
  BY <1>7, <1>8, <1>9, <1>10 DEF ViewInv

\* A deletion by the button for what is checked, or by a row's own.
LEMMA DeletionIs ==
  ASSUME StoreInv, ViewInv, handleBulkDelete \/ \E i \in DOMAIN rows : handleDelete(i)
  PROVE  /\ current \in Queues /\ ~readOnly
         /\ \E ids : OfRows(ids) /\ \E f \in Removable(ids) : deleteMessages(ids, f)
<1>1. current \in Queues \cup {Null} /\ readOnly \in BOOLEAN
  BY DEF ViewInv, TypeView
<1>2. CASE handleBulkDelete
  <2>1. OfRows(getSelectedMessageIds)
    BY DEF OfRows, getSelectedMessageIds
  <2>2. /\ current # Null /\ ~readOnly
        /\ \E f \in Removable(getSelectedMessageIds) : deleteMessages(getSelectedMessageIds, f)
    BY <1>2 DEF handleBulkDelete, CanBulkDelete
  <2> QED
    BY <1>1, <2>1, <2>2
<1>3. ASSUME NEW i \in DOMAIN rows, handleDelete(i)
      PROVE  /\ current \in Queues /\ ~readOnly
             /\ \E ids : OfRows(ids) /\ \E f \in Removable(ids) : deleteMessages(ids, f)
  <2>1. OfRows({IdOf(rows[i].msg)})
    BY DEF OfRows
  <2>2. /\ current # Null /\ rows[i].canDelete
        /\ \E f \in Removable({IdOf(rows[i].msg)}) : deleteMessages({IdOf(rows[i].msg)}, f)
    BY <1>3 DEF handleDelete
  <2>3. rows[i].canDelete = ~readOnly
    BY DEF ViewInv, ViewOf
  <2> QED
    BY <1>1, <2>1, <2>2, <2>3
<1> QED
  BY <1>2, <1>3

-----------------------------------------------------------------------------
(* The steps.                                                              *)

LEMMA BrowserInvInit ==
  ASSUME BrowserInit
  PROVE  BrowserInv
<1>1. /\ phase = [b \in Browsers |-> "unused"] /\ queueOf = [b \in Browsers |-> Null]
      /\ permission = [b \in Browsers |-> "unknown"]
      /\ cursor = [b \in Browsers |-> {}] /\ removed = {} /\ session = FALSE
      /\ inst = [q \in Queues |-> Null] /\ stored = {} /\ store = [q \in Queues |-> <<>>]
      /\ options = <<>> /\ late = 0
  BY DEF BrowserInit
<1>2. /\ current = Null /\ readOnly = FALSE
      /\ linked = FALSE /\ own = <<>> /\ same = TRUE /\ copy = <<>>
      /\ filter = NoFilter /\ rows = <<>> /\ details = Null /\ broken = FALSE
  BY DEF BrowserInit
<1>3. MaxBrowsers \in Nat /\ Cap \in Nat /\ MaxBindings \in Nat
  BY BrowserAssumption
<1>4. TypeStore
  <2>1. /\ phase \in [Browsers -> Phases] /\ queueOf \in [Browsers -> Queues \cup {Null}]
        /\ permission \in [Browsers -> {"unknown", "ro", "rw"}]
        /\ cursor \in [Browsers -> SUBSET Nat] /\ inst \in [Queues -> {Null} \cup Browsers]
    BY <1>1 DEF Phases
  <2>2. store \in [Queues -> Seq(Msgs)] /\ \A q \in Queues \ stored : store[q] = <<>>
    BY <1>1
  <2>3. options \in Seq(Queues)
    BY <1>1
  <2>4. removed \subseteq Msgs /\ stored \subseteq Queues /\ session \in BOOLEAN
    BY <1>1
  <2>5. late \in 0..MaxBrowsers
    <3>1. late = 0
      BY <1>1
    <3> QED
      BY <1>3, <3>1
  <2> QED
    BY <2>1, <2>2, <2>3, <2>4, <2>5 DEF TypeStore
<1>5. Bindings
  <2>1. Used = {} /\ Live = {} /\ Bound(inst) = {}
    BY <1>1 DEF Used, Live, Bound
  <2>2. Used = 1..0 /\ 0 \in 0..MaxBrowsers
    BY <1>3, <2>1
  <2>3. Cardinality(Bound(inst)) <= MaxBindings
    BY <1>3, <2>1, FS_EmptySet
  <2> QED
    BY <1>1, <2>1, <2>2, <2>3 DEF Bindings
<1>6. Delivered
  BY <1>1 DEF Delivered, IsInjective
<1>7. \A q \in Queues : Of(store[q], q) /\ Len(store[q]) <= Cap
  BY <1>1, <1>3 DEF Of
<1>8. StoreInv
  BY <1>1, <1>4, <1>5, <1>6, <1>7 DEF StoreInv
<1>9. TypeView
  <2>1. rows \in Seq(TableRows) /\ own \in Seq(Msgs) /\ copy \in Seq(Msgs)
    BY <1>2
  <2>2. filter \in Filters
    BY <1>2, NoFilterPasses
  <2>3. readOnly \in BOOLEAN /\ linked \in BOOLEAN /\ same \in BOOLEAN /\ broken \in BOOLEAN /\ ~linked
    BY <1>2
  <2> QED
    BY <1>2, <2>1, <2>2, <2>3 DEF TypeView
<1>10. ViewOf /\ Allowed
  BY <1>2, <1>3 DEF ViewOf, Allowed, Of
<1>11. Exact
  <2>1. all = <<>> /\ displayed = <<>>
    BY <1>2 DEF all, displayed
  <2>2. MsgsOf(rows) = <<>>
    BY <1>2 DEF MsgsOf
  <2>3. Only(all, Passing(filter)) = <<>>
    BY <2>1, OnlyEmpty
  <2> QED
    BY <1>2, <2>1, <2>2, <2>3 DEF Exact
<1> QED
  BY <1>8, <1>9, <1>10, <1>11 DEF ViewInv, BrowserInv

LEMMA ConnectStep ==
  ASSUME BrowserInv, Connected \/ ClientDisconnected
  PROVE  BrowserInv'
<1>1. StoreInv /\ ViewInv
  BY DEF BrowserInv
<1>2. CASE Connected
  <2>1. StoreInv'
    BY <1>1, <1>2, ConnectedStore
  <2>2. UNCHANGED <<phase, permission, inst, stored, store, current, readOnly, linked, own, same, copy,
                    filter, rows, details, late, broken>>
    BY <1>2 DEF Connected, sdkVars, storeVars, viewVars, listVars, faultVars
  <2>3. ViewInv'
    BY <1>1, <2>2 DEF ViewInv, TypeView, ViewOf, Allowed, Exact, all, displayed
  <2> QED
    BY <2>1, <2>3 DEF BrowserInv
<1>3. CASE ClientDisconnected
  <2>1. StoreInv' /\ UNCHANGED <<late, broken>>
    BY <1>1, <1>3, ClientDisconnectedStore DEF ClientDisconnected, faultVars
  <2>2. handleDropdownChange(Null, inst', stored', store')
    BY <1>3 DEF ClientDisconnected
  <2>3. readOnly \in BOOLEAN /\ broken' \in BOOLEAN /\ (late' = 0 => ~broken')
    BY <1>1, <2>1 DEF ViewInv, TypeView, Exact
  <2>4. ViewInv'
    BY <2>1, <2>2, <2>3, DropdownView
  <2> QED
    BY <2>1, <2>4 DEF BrowserInv
<1> QED
  BY <1>2, <1>3

LEMMA UnbindStep ==
  ASSUME BrowserInv, handleUnbindClick
  PROVE  BrowserInv'
<1>1. StoreInv /\ ViewInv
  BY DEF BrowserInv
<1>2. /\ current # Null /\ disconnectBrowser(current) /\ options' = RemoveFirst(options, current)
      /\ UNCHANGED <<queueOf, permission, cursor, removed, session, late, broken>>
      /\ IF options' # <<>>
         THEN handleDropdownChange(Head(options'), inst', stored', store')
         ELSE resetQueueSelection
  BY DEF handleUnbindClick, faultVars
<1>3. current \in Queues /\ readOnly \in BOOLEAN /\ broken' \in BOOLEAN /\ (late' = 0 => ~broken')
  BY <1>1, <1>2 DEF ViewInv, TypeView, Exact
<1>4. options \in Seq(Queues) /\ late \in 0..MaxBrowsers
  BY <1>1 DEF StoreInv, TypeStore
<1>5. options' \in Seq(Queues)
  BY <1>2, <1>4, RemoveFirstTypes
<1>6. StoreInv'
  BY <1>1, <1>2, <1>3, <1>4, <1>5, DisconnectStore
<1>7. CASE options' # <<>>
  <2>1. Head(options') \in Queues
    BY <1>5, <1>7
  <2>2. ViewInv'
    <3> DEFINE q == Head(options')
    <3>1. q \in Queues \cup {Null} /\ handleDropdownChange(q, inst', stored', store')
      BY <1>2, <1>7, <2>1
    <3> HIDE DEF q
    <3> QED
      BY <1>3, <1>6, <3>1, DropdownView
  <2> QED
    BY <1>6, <2>2 DEF BrowserInv
<1>8. CASE options' = <<>>
  <2>1. ViewInv'
    BY <1>2, <1>3, <1>6, <1>8, ResetView
  <2> QED
    BY <1>6, <2>1 DEF BrowserInv
<1> QED
  BY <1>7, <1>8

LEMMA DeleteStep ==
  ASSUME BrowserInv, handleBulkDelete \/ \E i \in DOMAIN rows : handleDelete(i)
  PROVE  BrowserInv'
<1>1. StoreInv /\ ViewInv
  BY DEF BrowserInv
<1>2. current \in Queues /\ \E ids : OfRows(ids) /\ \E f \in Removable(ids) : deleteMessages(ids, f)
  BY <1>1, DeletionIs
<1>3. PICK ids : OfRows(ids) /\ \E f \in Removable(ids) : deleteMessages(ids, f)
  BY <1>2
<1>4. PICK f \in Removable(ids) : deleteMessages(ids, f)
  BY <1>3
<1>5. StoreInv'
  BY <1>1, <1>2, <1>3, <1>4, DeleteStore
<1>6. ViewInv'
  BY <1>1, <1>2, <1>3, <1>4, DeleteView
<1> QED
  BY <1>5, <1>6 DEF BrowserInv

LEMMA ViewStep ==
  ASSUME BrowserInv,
         \/ clearFilters \/ (\E f \in Filters : applyFilters(f))
         \/ (\E i \in DOMAIN rows : CheckRow(i) \/ selectMessage(i)) \/ (\E c \in BOOLEAN : CheckAll(c))
  PROVE  BrowserInv'
<1>1. StoreInv /\ ViewInv
  BY DEF BrowserInv
<1>2. ViewInv'
  BY <1>1, FilterView, ClearView, CheckView
<1>3. UNCHANGED <<sdkVars, session, storeVars, options, late>>
  <2>1. CASE clearFilters
    BY <2>1 DEF clearFilters, faultVars
  <2>2. CASE \E f \in Filters : applyFilters(f)
    BY <2>2 DEF applyFilters, faultVars
  <2>3. CASE (\E i \in DOMAIN rows : CheckRow(i) \/ selectMessage(i)) \/ (\E c \in BOOLEAN : CheckAll(c))
    BY <1>1, <2>3, CheckView
  <2> QED
    BY <2>1, <2>2, <2>3
<1>4. StoreInv'
  BY <1>1, <1>3, StoreSame
<1> QED
  BY <1>2, <1>4 DEF BrowserInv

LEMMA SelectStep ==
  ASSUME BrowserInv, NEW q \in Queues, SelectQueue(q)
  PROVE  BrowserInv'
<1>1. StoreInv /\ ViewInv
  BY DEF BrowserInv
<1>2. /\ UNCHANGED <<sdkVars, session, storeVars, options, late, broken>>
      /\ handleDropdownChange(q, inst, stored, store)
  BY DEF SelectQueue, faultVars
<1>3. StoreInv'
  BY <1>1, <1>2, StoreSame
<1>4. inst' = inst /\ stored' = stored /\ store' = store
  BY <1>2 DEF storeVars
<1>5. handleDropdownChange(q, inst', stored', store')
  BY <1>2, <1>4 DEF handleDropdownChange, PermissionOf
<1>6. readOnly \in BOOLEAN /\ broken' \in BOOLEAN /\ (late' = 0 => ~broken')
  BY <1>1, <1>2 DEF ViewInv, TypeView, Exact
<1>7. ViewInv'
  BY <1>3, <1>5, <1>6, DropdownView
<1> QED
  BY <1>3, <1>7 DEF BrowserInv

LEMMA BindStep ==
  ASSUME BrowserInv, NEW q \in Queues, Bind(q)
  PROVE  BrowserInv'
<1>1. StoreInv /\ ViewInv
  BY DEF BrowserInv
<1>2. /\ handleBindClick(q) /\ KeepList(q) /\ UNCHANGED <<session, options, late>>
      /\ UNCHANGED <<current, readOnly, same, copy, filter, rows, details, broken>>
  BY DEF Bind, faultVars
<1>3. /\ StoreInv' /\ UNCHANGED permission
      /\ \A r \in Queues : (inst'[r] = inst[r]) \/ (inst[r] = Null /\ phase'[inst'[r]] # "up")
      /\ \A r \in Queues : inst[r] # Null => phase'[inst[r]] = phase[inst[r]]
      /\ \A r \in Queues \ {q} : store'[r] = store[r] /\ (r \in stored' <=> r \in stored)
      /\ q \in stored' => store'[q] = store[q]
      /\ late = 0 => store' = store
  BY <1>1, <1>2, CreateStore
<1>4. \A r \in Queues : inst'[r] # Null /\ phase'[inst'[r]] = "up" =>
                          inst'[r] = inst[r] /\ phase[inst[r]] = "up"
  BY <1>3
<1>5. late' = 0 => late = 0 /\ store' = store
  BY <1>2, <1>3
<1>6. ViewInv'
  BY <1>1, <1>2, <1>3, <1>4, <1>5, KeepView
<1> QED
  BY <1>3, <1>6 DEF BrowserInv

LEMMA UpStep ==
  ASSUME BrowserInv, NEW b \in Browsers, BrowserUp(b)
  PROVE  BrowserInv'
<1>1. StoreInv /\ ViewInv
  BY DEF BrowserInv
<1>2. StoreInv' /\ queueOf[b] \in Queues
  BY <1>1, BrowserUpStore
<1>3. /\ UNCHANGED <<inst, stored, store, broken>> /\ (InTime(b, "connecting") \/ Late(b, "aborted"))
      /\ handleDropdownChange(queueOf[b], inst, stored, store)
  BY DEF BrowserUp, storeVars
<1>4. late' = 0 => late = 0
  BY <1>1, <1>3, EventTime
<1>5. handleDropdownChange(queueOf[b], inst', stored', store')
  BY <1>3 DEF handleDropdownChange, PermissionOf
<1>6. readOnly \in BOOLEAN /\ broken' \in BOOLEAN /\ (late' = 0 => ~broken')
  BY <1>1, <1>3, <1>4 DEF ViewInv, TypeView, Exact
<1>7. ViewInv'
  <2> DEFINE q == queueOf[b]
  <2>1. q \in Queues \cup {Null} /\ handleDropdownChange(q, inst', stored', store')
    BY <1>2, <1>5
  <2> HIDE DEF q
  <2> QED
    BY <1>2, <1>6, <2>1, DropdownView
<1> QED
  BY <1>2, <1>7 DEF BrowserInv

LEMMA FailedStep ==
  ASSUME BrowserInv, NEW b \in Browsers, BrowserFailed(b)
  PROVE  BrowserInv'
<1>1. StoreInv /\ ViewInv
  BY DEF BrowserInv
<1> DEFINE q == queueOf[b]
<1>2. /\ InTime(b, "connecting") \/ Late(b, "aborted")
      /\ disconnectBrowser(q) /\ KeepList(q)
      /\ UNCHANGED <<queueOf, permission, cursor, removed, session, options, current,
                     readOnly, same, copy, filter, rows, details, broken>>
  BY DEF BrowserFailed
<1>3. /\ phase[b] \in {"connecting", "aborted"} /\ late' \in {late, late + 1} /\ late' \in 0..MaxBrowsers
      /\ late' = 0 => late = 0 /\ phase[b] = "connecting"
  BY <1>1, <1>2, EventTime
<1>4. q \in Queues
  BY <1>1, <1>3 DEF StoreInv, Bindings, Used
<1>5. options' \in Seq(Queues)
  BY <1>1, <1>2 DEF StoreInv, TypeStore
<1>6. stored' = stored \ {q}
  BY <1>2 DEF disconnectBrowser
<1> HIDE DEF q
<1>7. /\ StoreInv'
      /\ \A r \in Queues : inst'[r] = IF r = q THEN Null ELSE inst[r]
      /\ \A r \in Queues : store'[r] = IF r = q THEN <<>> ELSE store[r]
      /\ \A r \in Queues \ {q} : inst[r] # Null => phase'[inst[r]] = phase[inst[r]]
  BY <1>1, <1>2, <1>3, <1>4, <1>5, DisconnectStore
<1>8. \A r \in Queues : inst'[r] # Null /\ phase'[inst'[r]] = "up" =>
                          inst'[r] = inst[r] /\ phase[inst[r]] = "up"
  BY <1>4, <1>7
<1>9. ASSUME late' = 0
      PROVE  late = 0 /\ store' = store
  <2>1. late = 0 /\ Delivered /\ inst[q] = b /\ cursor[b] = {}
    BY <1>1, <1>3, <1>9, LiveKnown DEF StoreInv, Delivered, q
  <2>2. store[q] = <<>>
    <3>1. store[q] \in Seq(Msgs) /\ \A k \in DOMAIN store[q] : store[q][k][2] \in cursor[b]
      BY <1>1, <1>4, <2>1 DEF StoreInv, TypeStore, Delivered
    <3>2. DOMAIN store[q] = {}
      BY <2>1, <3>1
    <3>3. Len(store[q]) = 0
      <4>1. DOMAIN store[q] = 1..Len(store[q]) /\ Len(store[q]) \in Nat
        BY <3>1, LenProperties
      <4>2. 1 \notin 1..Len(store[q])
        BY <3>2, <4>1
      <4>3. \A n \in Nat : 1 \notin 1..n => n = 0
        OBVIOUS
      <4> QED
        BY <4>1, <4>2, <4>3
    <3> QED
      BY <3>1, <3>3, EmptySeq
  <2>3. store \in [Queues -> Seq(Msgs)] /\ store' \in [Queues -> Seq(Msgs)]
    BY <1>1, <1>7 DEF StoreInv, TypeStore
  <2>4. \A r \in Queues : store'[r] = store[r]
    BY <1>7, <2>2
  <2> QED
    BY <2>1, <2>3, <2>4
<1>10. \A r \in Queues \ {q} : store'[r] = store[r] /\ (r \in stored' <=> r \in stored)
  BY <1>6, <1>7
<1>11. q \notin stored'
  BY <1>6
<1>12. ViewInv'
  BY <1>1, <1>2, <1>4, <1>7, <1>8, <1>9, <1>10, <1>11, KeepView
<1> QED
  BY <1>7, <1>12 DEF BrowserInv

LEMMA MessageStep ==
  ASSUME BrowserInv, NEW b \in Browsers, Message(b)
  PROVE  BrowserInv'
<1>1. StoreInv /\ ViewInv
  BY DEF BrowserInv
<1> DEFINE q == queueOf[b]
<1>2. /\ StoreInv' /\ q \in Queues
      /\ late' = 0 => late = 0 /\ q \in stored
      /\ \E m \in Msgs :
           /\ m[1] = q /\ onMessage(q, m)
           /\ \A r \in Queues : store'[r] = IF r = q /\ r \in stored THEN Append(Window(r), m) ELSE store[r]
  BY <1>1, MessageStore
<1>3. UNCHANGED <<phase, permission, inst, current, readOnly, filter>>
  BY DEF Message
<1> HIDE DEF q
<1>4. PICK m \in Msgs :
        /\ m[1] = q /\ onMessage(q, m)
        /\ \A r \in Queues : store'[r] = IF r = q /\ r \in stored THEN Append(Window(r), m) ELSE store[r]
  BY <1>2
<1>5. ViewInv'
  BY <1>1, <1>2, <1>3, <1>4, MessageView
<1> QED
  BY <1>2, <1>5 DEF BrowserInv

LEMMA BrowserInvStep ==
  ASSUME BrowserInv, [BrowserNext]_browserVars
  PROVE  BrowserInv'
<1>1. CASE BrowserNext
  BY <1>1, ConnectStep, UnbindStep, DeleteStep, ViewStep, SelectStep, BindStep, UpStep, FailedStep,
     MessageStep DEF BrowserNext
<1>2. CASE UNCHANGED browserVars
  <2>1. UNCHANGED <<sdkVars, session, storeVars, options, viewVars, faultVars>>
    BY <1>2 DEF browserVars
  <2>2. /\ UNCHANGED <<phase, queueOf, permission, cursor, removed>> /\ UNCHANGED <<inst, stored, store>>
        /\ UNCHANGED <<current, readOnly, listVars, filter, rows, details>> /\ UNCHANGED <<late, broken>>
    BY <2>1 DEF sdkVars, storeVars, viewVars, faultVars
  <2>3. UNCHANGED <<linked, own, same, copy>>
    BY <2>2 DEF listVars
  <2>4. StoreInv'
    BY <2>1, <2>2, StoreSame DEF BrowserInv
  <2>5. ViewInv'
    BY <2>2, <2>3 DEF BrowserInv, ViewInv, TypeView, ViewOf, Allowed, Exact, all, displayed
  <2> QED
    BY <2>4, <2>5 DEF BrowserInv
<1> QED
  BY <1>1, <1>2

-----------------------------------------------------------------------------
(* The theorems.                                                           *)

\* The page never leaves the invariant: what it keeps of a queue is what the browser bound to it
\* delivered, in order and once, and what it shows is what it keeps.
THEOREM BrowserInvariant == BrowserSpec => []BrowserInv
<1>1. BrowserInit => BrowserInv
  BY BrowserInvInit
<1>2. BrowserInv /\ [BrowserNext]_browserVars => BrowserInv'
  BY BrowserInvStep
<1> QED
  BY <1>1, <1>2, PTL DEF BrowserSpec

\* Every variable of the page keeps its type.
THEOREM BrowserTypeCorrect == BrowserSpec => []BrowserTypeOK
<1>1. BrowserInv => BrowserTypeOK
  BY DEF BrowserInv, StoreInv, ViewInv, TypeStore, TypeView, BrowserTypeOK
<1> QED
  BY <1>1, BrowserInvariant, PTL

\* The table, the filter and the details of the Queue Browser page follow the store, for any
\* queues, cap and filter, as long as no browser speaks after disconnect() was called on it.
THEOREM ShownStored == BrowserSpec => []ShownIsStored
<1>1. BrowserInv => ShownIsStored
  <2> SUFFICES ASSUME BrowserInv, late = 0
               PROVE  /\ [i \in DOMAIN rows |-> rows[i].msg] = displayed
                      /\ displayed = Only(all, Passing(filter))
                      /\ all = IF current = Null THEN <<>> ELSE store[current]
                      /\ details # Null => \E i \in DOMAIN rows : IdOf(rows[i].msg) = details
                      /\ \A q \in Queues : IsInjective(store[q]) /\ removed \cap ToSet(store[q]) = {}
                      /\ ~broken
    BY DEF ShownIsStored
  <2>1. StoreInv /\ ViewInv /\ Exact /\ Delivered
    BY DEF BrowserInv, StoreInv, ViewInv
  <2>2. all = IF current = Null THEN <<>> ELSE store[current]
    BY <2>1, AllExact
  <2> QED
    BY <2>1, <2>2 DEF Exact, Delivered, MsgsOf
<1> QED
  BY <1>1, BrowserInvariant, PTL

\* Whatever the number of browsers, no more of them live than may be bound and the page can end each;
\* no array of the store outgrows its cap.
THEOREM LimitsKept == BrowserSpec => []WithinLimits
<1>1. BrowserInv => WithinLimits
  <2> SUFFICES ASSUME BrowserInv
               PROVE  WithinLimits
    OBVIOUS
  <2>1. StoreInv
    BY DEF BrowserInv
  <2>2. \A b \in Live : session /\ inst[queueOf[b]] = b /\ queueOf[b] \in Queues /\ b # Null
    BY <2>1, LiveKnown DEF Live
  <2>3. Cardinality(Live) <= Cardinality(Bound(inst)) /\ IsFiniteSet(Live) /\ IsFiniteSet(Bound(inst))
    <3> DEFINE f == [b \in Live |-> queueOf[b]]
    <3>1. f \in [Live -> Bound(inst)]
      BY <2>2 DEF Bound
    <3>2. \A b, c \in Live : queueOf[b] = queueOf[c] => b = c
      BY <2>2
    <3>3. f \in Injection(Live, Bound(inst))
      BY <3>1, <3>2 DEF Injection, IsInjective
    <3>4. IsFiniteSet(Bound(inst))
      BY <2>1, UsedCount
    <3> HIDE DEF f
    <3> QED
      BY <3>3, <3>4, FS_Injection
  <2>4. Cardinality(Live) <= MaxBindings
    <3>1. /\ Cardinality(Live) \in Nat /\ Cardinality(Bound(inst)) \in Nat /\ MaxBindings \in Nat
          /\ Cardinality(Bound(inst)) <= MaxBindings
      BY <2>1, <2>3, FS_CardinalityType, BrowserAssumption DEF StoreInv, Bindings
    <3> QED
      BY <2>3, <3>1
  <2> QED
    BY <2>1, <2>2, <2>4 DEF WithinLimits, StoreInv
<1> QED
  BY <1>1, BrowserInvariant, PTL

\* The page removes from a broker only what its table shows of the selected queue, and from no
\* queue that the broker made read-only.
THEOREM DeletesShown == BrowserSpec => DeletesWhatIsShown
<1>1. BrowserInv /\ [BrowserNext]_browserVars =>
        [\A m \in removed' \ removed :
            /\ m[1] = current /\ permission[inst[current]] = "rw"
            /\ \E i \in DOMAIN rows : rows[i].msg = m]_browserVars
  <2> SUFFICES ASSUME BrowserInv, BrowserNext, NEW m \in removed' \ removed
               PROVE  /\ m[1] = current /\ permission[inst[current]] = "rw"
                      /\ \E i \in DOMAIN rows : rows[i].msg = m
    OBVIOUS
  <2>1. StoreInv /\ ViewInv
    BY DEF BrowserInv
  <2>2. handleBulkDelete \/ \E i \in DOMAIN rows : handleDelete(i)
    <3>1. UNCHANGED sdkVars => removed' = removed
      BY DEF sdkVars
    <3>2. \A q \in Queues : Bind(q) => removed' = removed
      BY <3>1 DEF Bind, handleBindClick, createBrowser
    <3>3. Connected \/ ClientDisconnected \/ handleUnbindClick \/ clearFilters => removed' = removed
      BY <3>1 DEF Connected, ClientDisconnected, handleUnbindClick, clearFilters
    <3>4. \A q \in Queues : SelectQueue(q) => removed' = removed
      BY <3>1 DEF SelectQueue
    <3>5. \A b \in Browsers : BrowserUp(b) \/ BrowserFailed(b) \/ Message(b) => removed' = removed
      BY DEF BrowserUp, BrowserFailed, Message
    <3>6. \A f \in Filters : applyFilters(f) => removed' = removed
      BY <3>1 DEF applyFilters
    <3>7. \A i \in DOMAIN rows : CheckRow(i) \/ selectMessage(i) => removed' = removed
      BY <3>1 DEF CheckRow, selectMessage
    <3>8. \A c \in BOOLEAN : CheckAll(c) => removed' = removed
      BY <3>1 DEF CheckAll
    <3> QED
      BY <3>2, <3>3, <3>4, <3>5, <3>6, <3>7, <3>8 DEF BrowserNext
  <2>3. /\ current \in Queues /\ ~readOnly
        /\ \E ids : OfRows(ids) /\ \E f \in Removable(ids) : deleteMessages(ids, f)
    BY <2>1, <2>2, DeletionIs
  <2>4. PICK ids : OfRows(ids) /\ \E f \in Removable(ids) : deleteMessages(ids, f)
    BY <2>3
  <2>5. PICK f \in Removable(ids) : deleteMessages(ids, f)
    BY <2>4
  <2>6. /\ removed' = removed \cup {<<current, id>> : id \in ids \ f}
        /\ \A id \in ids \ f : \E i \in DOMAIN rows : rows[i].msg = <<current, id>>
        /\ inst[current] # Null /\ inst[current] \in Browsers /\ phase[inst[current]] = "up"
    BY <2>1, <2>3, <2>4, <2>5, DeletedShown
  <2>7. permission[inst[current]] = "rw"
    <3>1. permission[inst[current]] \in {"ro", "rw"}
      BY <2>1, <2>6 DEF StoreInv
    <3>2. current # Null
      BY <2>3, BrowserAssumption
    <3>3. readOnly <=> permission[inst[current]] = "ro"
      BY <2>1, <2>6, <3>2 DEF ViewInv, Allowed
    <3> QED
      BY <2>3, <3>1, <3>3
  <2>8. PICK id \in ids \ f : m = <<current, id>>
    BY <2>6
  <2> QED
    BY <2>6, <2>7, <2>8
<1> QED
  BY <1>1, BrowserInvariant, PTL DEF BrowserSpec, DeletesWhatIsShown
=============================================================================
