----------------------------- MODULE Forwarding -----------------------------
(***************************************************************************)
(* The queue browser's forward dialog (ui-forward.js, handleForwardSend of *)
(* ui-events.ts, forwardMessage of service.ts) on top of the publisher.    *)
(*                                                                         *)
(* Every click on Send starts a loop over the dialog's messages that sends *)
(* one message, sleeps, and sends the next; the answers arrive meanwhile.  *)
(* A message keeps its correlation value for the life of the dialog, so a  *)
(* resend uses its key again: the key of a call <<i, n>>, message i sent   *)
(* by click n, is i.                                                       *)
(*                                                                         *)
(* Bounds: Clicks sends, one dialog per member of Dialogs, one broker      *)
(* session that may end.  Message texts, icons and the counter are left    *)
(* out; a destination is only "the original one" or "the one typed in".    *)
(***************************************************************************)
EXTENDS Naturals, Sequences

CONSTANTS Items,     \* messages, each in one dialog
          Dialogs,   \* the sequence of dialogs the user opens, each a sequence of items
          MaxClicks, \* bound on clicks on Send
          NoDest,    \* messages without an original destination
          None

\* No message is in two dialogs.
ASSUME ForwardingAssumption ==
  /\ MaxClicks \in Nat
  /\ Dialogs \in Seq(Seq(Items))
  /\ \A d, e \in DOMAIN Dialogs : \A p \in DOMAIN Dialogs[d], q \in DOMAIN Dialogs[e] :
       Dialogs[d][p] = Dialogs[e][q] => d = e
  /\ None \notin Items \X (1..MaxClicks)

Clicks == 1..MaxClicks
Sends == Items \X Clicks
ItemOf == [c \in Sends |-> c[1]]

VARIABLES pending, timers, result, wire, accepted, refused, disposed,
          dialog,   \* index of the dialog whose messages state.forwardQueue holds
          open,     \* the dialog is on the screen
          status,   \* item -> what its row shows
          button,   \* Send is enabled
          loops,    \* click -> the dialog it sends, its position, and the destination type
          clicks,   \* clicks on Send so far
          running   \* the loop that has the thread (0: none, events may come)

pubVars == <<pending, timers, result, wire, accepted, refused, disposed>>
vars == <<pending, timers, result, wire, accepted, refused, disposed,
          dialog, open, status, button, loops, clicks, running>>

Pub == INSTANCE Publisher WITH Calls <- Sends, Keys <- Items, KeyOf <- ItemOf, NoCall <- None

Idle == [dialog |-> 0, pos |-> 1, original |-> FALSE]
Done == {"SUCCESS", "FAILED"}

\* state.forwardQueue; empty until a dialog is opened.
forwardQueue == IF dialog = 0 THEN <<>> ELSE Dialogs[dialog]
Shown == {forwardQueue[p] : p \in 1..Len(forwardQueue)}

Init ==
  /\ Pub!Init
  /\ dialog = 0
  /\ open = FALSE
  /\ status = [i \in Items |-> "QUEUED"]
  /\ button = FALSE
  /\ loops = [n \in Clicks |-> Idle]
  /\ clicks = 0
  /\ running = 0

-----------------------------------------------------------------------------
\* updateForwardItemStatus for each item of S in one task: only messages in
\* the current queue are found.  checkForwardCompletion then sets the button
\* when every message of the queue shows SUCCESS or FAILED, and otherwise
\* leaves it alone.
BugUpdateStatus(S, s) ==
  /\ status' = [i \in Items |-> IF i \in S \cap Shown THEN s ELSE status[i]]
  /\ UNCHANGED button

UpdateStatus(S, s) ==
  /\ status' = [i \in Items |-> IF i \in S \cap Shown THEN s ELSE status[i]]
  /\ button' = IF \A i \in Shown : status'[i] \in Done
               THEN \E i \in Shown : status'[i] = "FAILED"
               ELSE button

\* The `then' of the calls the publisher's step has settled.
Settled == {c \in Sends : result[c] = "waiting" /\ result'[c] # "waiting"}

BugThenUpdate ==
  LET S == {c[1] : c \in {d \in Settled : result'[d] # "timeout"}}
  IN  IF S = {}
      THEN UNCHANGED <<status, button>>
      ELSE UpdateStatus(S, IF \E c \in Settled : result'[c] = "ok" THEN "SUCCESS" ELSE "FAILED")

ThenUpdate ==
  LET S == {c[1] : c \in Settled}
  IN  IF S = {}
      THEN UNCHANGED <<status, button>>
      ELSE UpdateStatus(S, IF \E c \in Settled : result'[c] = "ok" THEN "SUCCESS" ELSE "FAILED")

dialogVars == <<dialog, open, loops, clicks, running>>

-----------------------------------------------------------------------------
\* showForwardModal: a new queue, every message QUEUED under a new key, Send enabled.
showForwardModal ==
  /\ running = 0 /\ ~open /\ dialog < Len(Dialogs)
  /\ dialog' = dialog + 1
  /\ open' = TRUE
  /\ button' = TRUE
  /\ UNCHANGED <<status, loops, clicks, running>> /\ UNCHANGED pubVars

\* closeForwardModal: the queue and the loops that walk it stay as they are.
closeForwardModal ==
  /\ running = 0 /\ open
  /\ open' = FALSE
  /\ UNCHANGED <<dialog, status, button, loops, clicks, running>> /\ UNCHANGED pubVars

\* handleForwardSend up to its loop: Send is disabled and the loop starts.
handleForwardSend ==
  /\ running = 0 /\ open /\ button /\ clicks < MaxClicks
  /\ clicks' = clicks + 1
  /\ button' = FALSE
  /\ \E original \in BOOLEAN :
       loops' = [loops EXCEPT ![clicks + 1] =
                   [dialog |-> dialog, pos |-> 1, original |-> original]]
  /\ running' = clicks + 1
  /\ UNCHANGED <<dialog, open, status>> /\ UNCHANGED pubVars

\* One pass of the loop.  A message that succeeded, and one without an original
\* destination when that is asked for, take `continue': the loop keeps the thread.
QueueOf(n) == Dialogs[loops[n].dialog]
ItemAt(n) == QueueOf(n)[loops[n].pos]
Walking(n) == loops[n].dialog # 0 /\ loops[n].pos <= Len(QueueOf(n))
Advance(n) == loops' = [loops EXCEPT ![n].pos = @ + 1]

BugSucceeded(n) == status[ItemAt(n)] = "SUCCESS" /\ running = n

Succeeded(n) == status[ItemAt(n)] = "SUCCESS"

SkipSucceeded(n) ==
  /\ Succeeded(n)
  /\ running' = n
  /\ UNCHANGED <<status, button>> /\ UNCHANGED pubVars

SkipNoDestination(n) ==
  /\ ~Succeeded(n)
  /\ loops[n].original /\ ItemAt(n) \in NoDest
  /\ UpdateStatus({ItemAt(n)}, "FAILED")
  /\ running' = n
  /\ UNCHANGED pubVars

\* The row shows SENDING and the message is sent; a send that settles at once
\* (session.send threw, the publisher is disposed or gone) turns it to FAILED.
SendItem(n) ==
  /\ ~Succeeded(n)
  /\ ~(loops[n].original /\ ItemAt(n) \in NoDest)
  /\ Pub!Send(<<ItemAt(n), n>>)
  /\ UpdateStatus({ItemAt(n)}, IF result'[<<ItemAt(n), n>>] = "waiting" THEN "SENDING" ELSE "FAILED")
  /\ running' = 0

LoopStep(n) ==
  /\ running \in {0, n} /\ Walking(n)
  /\ SkipSucceeded(n) \/ SkipNoDestination(n) \/ SendItem(n)
  /\ Advance(n)
  /\ UNCHANGED <<dialog, open, clicks>>

\* The loop that had the thread has come to its end.
LoopEnds(n) ==
  /\ running = n /\ ~Walking(n)
  /\ running' = 0
  /\ UNCHANGED <<dialog, open, status, button, loops, clicks>> /\ UNCHANGED pubVars

\* The publisher's own events, each followed by the `then' it causes.
BrokerAnswers(c) ==
  /\ running = 0
  /\ Pub!Ack(c) \/ Pub!Reject(c)
  /\ ThenUpdate
  /\ UNCHANGED dialogVars

Timeout(c) ==
  /\ running = 0
  /\ Pub!TimerFires(c)
  /\ ThenUpdate
  /\ UNCHANGED dialogVars

\* client:disconnected: the service disposes the publisher; later sends fail.
Disconnected ==
  /\ running = 0
  /\ Pub!Dispose
  /\ ThenUpdate
  /\ UNCHANGED dialogVars

Next ==
  \/ showForwardModal \/ closeForwardModal \/ handleForwardSend
  \/ \E n \in Clicks : LoopStep(n) \/ LoopEnds(n)
  \/ \E c \in Sends : BrokerAnswers(c) \/ Timeout(c)
  \/ Disconnected

\* setTimeout runs what it was given: the loops' pauses and the send timers.
Fairness ==
  /\ \A n \in Clicks : WF_vars(LoopStep(n)) /\ WF_vars(LoopEnds(n))
  /\ \A c \in Sends : WF_vars(Timeout(c))

SafeSpec == Init /\ [][Next]_vars
Spec == SafeSpec /\ Fairness

-----------------------------------------------------------------------------
\* The publisher's variables are typed as its module says; a loop has a dialog to walk.
TypeOK ==
  /\ Pub!TypeOK
  /\ dialog \in 0..Len(Dialogs) /\ open \in BOOLEAN /\ button \in BOOLEAN
  /\ status \in [Items -> {"QUEUED", "SENDING"} \cup Done]
  /\ loops \in [Clicks -> [dialog : 0..Len(Dialogs), pos : Nat \ {0}, original : BOOLEAN]]
  /\ clicks \in 0..MaxClicks /\ running \in 0..MaxClicks

\* A row shows SUCCESS only for a message the broker has acknowledged in one
\* of its sends, however answers, timeouts and resends overlap.
SuccessIsAccepted ==
  \A i \in Items : status[i] = "SUCCESS" => \E n \in Clicks : <<i, n>> \in accepted

\* user-guide.md: successful messages keep their green check and are not
\* forwarded again, not even by an older loop that still walks the queue.
SuccessIsFinal ==
  [][\A i \in Items : (status[i] = "SUCCESS") =>
       /\ status'[i] = "SUCCESS"
       /\ \A n \in Clicks : (result[<<i, n>>] = "idle") => (result'[<<i, n>>] = "idle")]_vars

\* A row that shows the spinner has a call in flight whose entry the publisher
\* still holds, so some answer or timer will settle it.
SpinnerIsBacked ==
  \A i \in Shown : status[i] = "SENDING" =>
    /\ pending[i] # None
    /\ pending[i] \in timers

\* After a click the dialog always reaches an end: Send is enabled again, for
\* this dialog or the next, or every message has succeeded.
SendingEnds == ~button ~> (button \/ \A i \in Shown : status[i] = "SUCCESS")
=============================================================================
