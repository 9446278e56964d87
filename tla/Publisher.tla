------------------------------ MODULE Publisher ------------------------------
(***************************************************************************)
(* The acknowledged publisher (core/services/solace-publisher.ts): every   *)
(* send is entered in the map `pending' under its correlation key, with a  *)
(* timer; the broker's ACK or REJECT, the timer, a synchronous failure of  *)
(* session.send, rejectAllPending and dispose race to settle it.           *)
(*                                                                         *)
(* A call is one invocation of send.  Its key is chosen by the caller: the *)
(* queue copy leaves it to generateUuid, the forward dialog supplies one   *)
(* per message and uses it again when it resends (module Forwarding).      *)
(* Content, destination and delivery mode of the message do not matter     *)
(* here.  The promise's `then' runs in the microtask that follows, so a    *)
(* settled result is visible before any other event.                       *)
(***************************************************************************)
EXTENDS Naturals

CONSTANTS Calls,     \* the invocations of send
          Keys,      \* correlation keys
          KeyOf,     \* the key of each call
          NoCall     \* no entry under a key

VARIABLES pending,   \* key -> the call whose entry is in the map, or NoCall
          timers,    \* calls whose timer is armed
          result,    \* call -> what its promise settled with
          wire,      \* calls sent that the broker has not answered
          accepted,  \* calls the broker acknowledged (history)
          refused,   \* calls the broker rejected (history)
          disposed

vars == <<pending, timers, result, wire, accepted, refused, disposed>>

Outcomes == {"ok", "rejected", "timeout", "failed", "dropped"}

InFlight == {c \in Calls : result[c] = "waiting"}

\* A promise keeps the first value it is resolved with.
Settle(cs, r) ==
  result' = [c \in Calls |-> IF c \in cs /\ result[c] = "waiting" THEN r ELSE result[c]]

isPending(k) == pending[k] # NoCall

Init ==
  /\ pending = [k \in Keys |-> NoCall]
  /\ timers = {}
  /\ result = [c \in Calls |-> "idle"]
  /\ wire = {}
  /\ accepted = {}
  /\ refused = {}
  /\ disposed = FALSE

-----------------------------------------------------------------------------
\* send: after dispose it answers at once.  Otherwise the timer is armed and
\* the entry set, over any entry of that key, before session.send is tried; if
\* that throws, the timer is cleared and whatever the key holds is deleted.
SendDisposed(c) ==
  /\ disposed
  /\ result' = [result EXCEPT ![c] = "dropped"]
  /\ UNCHANGED <<pending, timers, wire>>

SendAccepted(c) ==
  /\ ~disposed
  /\ pending' = [pending EXCEPT ![KeyOf[c]] = c]
  /\ timers' = timers \cup {c}
  /\ wire' = wire \cup {c}
  /\ result' = [result EXCEPT ![c] = "waiting"]

SendThrows(c) ==
  /\ ~disposed
  /\ pending' = [pending EXCEPT ![KeyOf[c]] = NoCall]
  /\ result' = [result EXCEPT ![c] = "failed"]
  /\ UNCHANGED <<timers, wire>>

Send(c) ==
  /\ result[c] = "idle"
  /\ SendDisposed(c) \/ SendAccepted(c) \/ SendThrows(c)
  /\ UNCHANGED <<accepted, refused, disposed>>

\* The entry under the key of c, if any, is settled with r and its own timer
\* cleared: ackListener and rejectListener.
BugAnyEntry(c, r) ==
  IF InFlight = {}
  THEN UNCHANGED <<pending, timers, result>>
  ELSE \E e \in InFlight :
         /\ pending' = [pending EXCEPT ![KeyOf[e]] = NoCall]
         /\ timers' = timers \ {e}
         /\ Settle({e}, r)

Answer(c, r) ==
  LET e == pending[KeyOf[c]]
  IN  IF e = NoCall
      THEN UNCHANGED <<pending, timers, result>>
      ELSE /\ pending' = [pending EXCEPT ![KeyOf[c]] = NoCall]
           /\ timers' = timers \ {e}
           /\ Settle({e}, r)

Ack(c) ==
  /\ c \in wire
  /\ wire' = wire \ {c}
  /\ accepted' = accepted \cup {c}
  /\ Answer(c, "ok")
  /\ UNCHANGED <<refused, disposed>>

BugReject(c) ==
  /\ c \in wire
  /\ wire' = wire \ {c}
  /\ refused' = refused \cup {c}
  /\ Answer(c, "ok")
  /\ UNCHANGED <<accepted, disposed>>

Reject(c) ==
  /\ c \in wire
  /\ wire' = wire \ {c}
  /\ refused' = refused \cup {c}
  /\ Answer(c, "rejected")
  /\ UNCHANGED <<accepted, disposed>>

\* The timer of c reads the entry by key and does not look whose it is: it
\* settles that call, deletes the entry and leaves the entry's own timer armed.
\* With no entry `pending.get(key)!' is undefined and the callback throws.
BugTimerFires(c) ==
  /\ c \in timers
  /\ timers' = timers \ {c}
  /\ pending' = [pending EXCEPT ![KeyOf[c]] = NoCall]
  /\ UNCHANGED <<result, wire, accepted, refused, disposed>>

TimerFires(c) ==
  /\ c \in timers
  /\ timers' = timers \ {c}
  /\ pending' = [pending EXCEPT ![KeyOf[c]] = NoCall]
  /\ Settle({pending[KeyOf[c]]}, "timeout")
  /\ UNCHANGED <<wire, accepted, refused, disposed>>

\* Settles every entry of the map; timers of calls that lost their entry stay.
DropAll ==
  /\ Settle({pending[k] : k \in Keys}, "dropped")
  /\ timers' = timers \ {pending[k] : k \in Keys}
  /\ pending' = [k \in Keys |-> NoCall]

rejectAllPending ==
  /\ DropAll
  /\ UNCHANGED <<wire, accepted, refused, disposed>>

\* A second dispose returns at once.  The listeners are detached, so answers
\* that still arrive find nobody; the map is empty from here on either way.
Dispose ==
  /\ ~disposed
  /\ disposed' = TRUE
  /\ DropAll
  /\ UNCHANGED <<wire, accepted, refused>>

-----------------------------------------------------------------------------
\* The publisher under callers that never send with a key in flight: the queue
\* copy, whose keys are fresh, and a first send of the forward dialog, whose
\* keys are checked with isPending when it opens.
Call(c) == ~isPending(KeyOf[c]) /\ Send(c)

Next ==
  \/ \E c \in Calls : Call(c) \/ Ack(c) \/ Reject(c) \/ TimerFires(c)
  \/ rejectAllPending
  \/ Dispose

\* The browser runs a timer that is armed; the broker owes nothing.
Fairness == \A c \in Calls : WF_vars(TimerFires(c))

SafeSpec == Init /\ [][Next]_vars
Spec == SafeSpec /\ Fairness

-----------------------------------------------------------------------------
TypeOK ==
  /\ pending \in [Keys -> Calls \cup {NoCall}]
  /\ timers \subseteq Calls
  /\ result \in [Calls -> {"idle", "waiting"} \cup Outcomes]
  /\ wire \subseteq Calls
  /\ accepted \subseteq Calls
  /\ refused \subseteq Calls
  /\ disposed \in BOOLEAN

\* The comment on the timer callback: every path that removes an entry clears
\* its timer first, so a timer that fires finds its own call's entry.
TimerFindsEntry == \A c \in timers : pending[KeyOf[c]] = c

\* An unsettled promise has its entry in the map, and an entry belongs to an
\* unsettled promise: nothing hangs, and no callback fires twice.
EntriesAreInFlight == \A c \in Calls : pending[KeyOf[c]] = c <=> result[c] = "waiting"

\* dispose leaves nothing behind: no entry, no armed timer, no open promise.
DisposedIsEmpty ==
  disposed => /\ \A k \in Keys : ~isPending(k)
              /\ timers = {}
              /\ InFlight = {}

\* No other call is made under the key of c.
OwnKey(c) == \A d \in Calls : KeyOf[d] = KeyOf[c] => d = c

\* A call with a key of its own (generateUuid) settles as acknowledged only if
\* the broker acknowledged it and as rejected only if the broker rejected it,
\* whatever answers the calls under other keys get late or never.
RightAnswer ==
  \A c \in Calls : OwnKey(c) => /\ result[c] = "ok" => c \in accepted
                                /\ result[c] = "rejected" => c \in refused

\* send's promise always settles, whatever the broker does.
EverySendSettles ==
  \A c \in Calls : result[c] = "waiting" ~> result[c] \in Outcomes

ASSUME PublisherAssumption == KeyOf \in [Calls -> Keys] /\ NoCall \notin Calls
=============================================================================
