---------------------------- MODULE VerifySource ----------------------------
(***************************************************************************)
(* The verification of the source queue before a run (service-verify.ts):  *)
(* through SEMP in two calls, the second one only for the newest message   *)
(* id, or without SEMP by browsing the queue and counting until it is      *)
(* quiet.  The caller may abort it at any time, the queue may change while *)
(* it is being looked at, and the browse path has two timers.              *)
(*                                                                         *)
(* Message ids are numbers that grow with each message spooled.  Sizes and *)
(* quotas are left out; errors are kept as kinds.  Time is counted in      *)
(* ticks: IdleTicks is the 2 s idle timer, BindTicks the 10 s bind timer.  *)
(*                                                                         *)
(* Bounds: MaxId messages are ever spooled.                                *)
(***************************************************************************)
EXTENDS Integers, FiniteSets

CONSTANTS IdleTicks, BindTicks, MaxId, None

ASSUME VerifyAssumption ==
  /\ IdleTicks \in Nat \ {0} /\ BindTicks \in Nat /\ BindTicks > IdleTicks
  /\ MaxId \in Nat
  /\ None \notin Int

Ids == 1..MaxId
Oldest(S) == CHOOSE i \in S : \A j \in S : i <= j
Newest(S) == CHOOSE i \in S : \A j \in S : j <= i

\* The others-permission field and the SDK's permission, after normalizeAccessType.
Access == {"no-access", "read-only", "read-write", None}
ErrorKinds == {"cancelled", "http", "semp", "malformed", "execute", "not found",
               "newest", "no session", "bind failed", "timed out"}

VARIABLES spool,   \* ids on the source queue
          nextId,  \* the id the next message gets
          exists,  \* the queue exists
          counted, \* history: the messages that the result's count is of
          via,     \* the path taken
          pc,      \* where the verification stands
          aborted, \* the caller's signal
          result,  \* the VerifyResult under construction
          cursor,  \* last id the browser delivered
          browser, \* none, asked to bind, up
          tally,   \* the browse path's own count, oldest and newest
          idle,    \* ticks left on the idle timer, None when it is not armed
          bind     \* ticks left on the bind timer, None when it is not armed

queueVars == <<spool, nextId, exists, counted>>
browseVars == <<cursor, browser, tally, idle, bind>>
vars ==
  <<spool, nextId, exists, counted, via, pc, aborted, result, cursor, browser, tally, idle, bind>>

EmptyResult == [sourceOk |-> FALSE, messageCount |-> None, oldest |-> None, newest |-> None,
                access |-> None, errors |-> {}]
NoTally == [count |-> 0, oldest |-> None, newest |-> None]

Init ==
  /\ \E n \in 0..MaxId : spool = 1..n /\ nextId = n + 1
  /\ exists \in BOOLEAN
  /\ (~exists) => (spool = {})
  /\ counted = {}
  /\ via \in {"semp", "queue-browser"}
  /\ pc = "start"
  /\ aborted = FALSE
  /\ result = EmptyResult
  /\ cursor = 0
  /\ browser = "none"
  /\ tally = NoTally
  /\ idle = None
  /\ bind = None

Failed(e) == result' = [result EXCEPT !.sourceOk = FALSE, !.errors = @ \cup {e}]
Unfinished == pc # "done"
bound == browser = "up"

-----------------------------------------------------------------------------
(* Through SEMP.                                                           *)

\* The detail call goes out unless the signal is already aborted.
SempStart ==
  /\ via = "semp" /\ pc = "start"
  /\ pc' = "detail"
  /\ UNCHANGED <<result, via, aborted>> /\ UNCHANGED queueVars /\ UNCHANGED browseVars

\* It fails over HTTP, on the network, in the XML, in its execute-result, or by
\* naming no queue.
DetailFails ==
  /\ pc = "detail"
  /\ \/ \E e \in {"http", "semp", "malformed", "execute"} : Failed(e)
     \/ ~exists /\ Failed("not found")
  /\ pc' = "done"
  /\ UNCHANGED <<via, aborted>> /\ UNCHANGED queueVars /\ UNCHANGED browseVars

\* What the info block says of the queue as it is now.
SpoolInfo == [messageCount |-> Cardinality(spool),
              oldest |-> IF spool = {} THEN None ELSE Oldest(spool)]

\* The queue is there; its info block may be missing.
DetailArrives ==
  /\ pc = "detail" /\ exists
  /\ \/ \E a \in Access :
          result' = [result EXCEPT !.sourceOk = TRUE, !.access = a,
                                   !.messageCount = SpoolInfo.messageCount,
                                   !.oldest = SpoolInfo.oldest]
     \/ result' = [result EXCEPT !.sourceOk = TRUE]
  /\ pc' = "newest"
  /\ counted' = spool
  /\ UNCHANGED <<spool, nextId, exists, via, aborted>> /\ UNCHANGED browseVars

\* Mutant: the supplementary call takes the id at the wrong end of the list.
BugNewestArrives ==
  /\ pc = "newest"
  /\ \/ UNCHANGED result
     \/ spool # {} /\ result' = [result EXCEPT !.newest = Oldest(spool)]
  /\ pc' = "done"
  /\ UNCHANGED <<via, aborted>> /\ UNCHANGED queueVars /\ UNCHANGED browseVars

\* The second call is best effort: an answer that cannot be used leaves the id
\* unknown, and a network error is recorded, but the queue stays verified.
NewestArrives ==
  /\ pc = "newest"
  /\ \/ UNCHANGED result
     \/ spool # {} /\ result' = [result EXCEPT !.newest = Newest(spool)]
     \/ result' = [result EXCEPT !.errors = @ \cup {"newest"}]
  /\ pc' = "done"
  /\ UNCHANGED <<via, aborted>> /\ UNCHANGED queueVars /\ UNCHANGED browseVars

\* Mutant: an abort is recorded, but what the first call found is kept.
BugSempAborted ==
  /\ aborted /\ pc \in {"detail", "newest"}
  /\ result' = [result EXCEPT !.errors = @ \cup {"cancelled"}]
  /\ pc' = "done"
  /\ UNCHANGED <<via, aborted>> /\ UNCHANGED queueVars /\ UNCHANGED browseVars

\* An abort rejects the call that is out; either way the queue is not verified.
SempAborted ==
  /\ aborted /\ pc \in {"detail", "newest"}
  /\ Failed("cancelled")
  /\ pc' = "done"
  /\ UNCHANGED <<via, aborted>> /\ UNCHANGED queueVars /\ UNCHANGED browseVars

-----------------------------------------------------------------------------
(* By browsing.                                                            *)

\* settle: the first caller wins; it disarms both timers and disconnects.  A timer
\* that has just fired is not armed either.
Settle(ok, e) ==
  /\ IF pc = "done"
     THEN UNCHANGED <<result, pc>>
     ELSE /\ result' = [result EXCEPT !.sourceOk = ok,
                                      !.messageCount = IF ok THEN tally.count ELSE @,
                                      !.oldest = IF ok THEN tally.oldest ELSE @,
                                      !.newest = IF ok THEN tally.newest ELSE @,
                                      !.errors = @ \cup e]
          /\ pc' = "done"
  /\ idle' = None /\ bind' = None

resetIdleTimer == idle' = IdleTicks

\* Mutant: no bind timer.
BugBrowseStart ==
  /\ via = "queue-browser" /\ pc = "start"
  /\ UNCHANGED result /\ pc' = "browse" /\ browser' = "asked"
  /\ UNCHANGED <<via, aborted, cursor, tally, idle, bind>> /\ UNCHANGED queueVars

\* Without a session there is nothing to browse with; otherwise the bind timer
\* is armed and the bind asked for, which may throw at once.
BrowseStart ==
  /\ via = "queue-browser" /\ pc = "start"
  /\ \/ /\ \E e \in {"no session", "bind failed"} : Failed(e)
        /\ pc' = "done"
        /\ UNCHANGED <<browser, bind>>
     \/ /\ pc' = "browse" /\ browser' = "asked" /\ bind' = BindTicks
        /\ UNCHANGED result
  /\ UNCHANGED <<via, aborted, cursor, tally, idle>> /\ UNCHANGED queueVars

\* UP may still come after the verification has timed out or been aborted; it
\* then writes the permission into a result that is already handed over.
BrowserUp ==
  /\ browser = "asked" /\ exists
  /\ browser' = "up"
  /\ \E a \in {"read-only", "read-write", None} : result' = [result EXCEPT !.access = a]
  /\ resetIdleTimer
  /\ UNCHANGED <<via, pc, aborted, cursor, tally, bind>> /\ UNCHANGED queueVars

ConnectFailed ==
  /\ pc = "browse" /\ browser = "asked"
  /\ Settle(FALSE, {"bind failed"})
  /\ UNCHANGED <<via, aborted, cursor, browser, tally>> /\ UNCHANGED queueVars

\* Mutant: a browser that goes down before it was bound is taken for a success.
BugBrowserDown ==
  /\ pc = "browse"
  /\ Settle(TRUE, {})
  /\ UNCHANGED <<via, aborted, cursor, browser, tally>> /\ UNCHANGED queueVars

\* Going down after UP ends the count where it stands.
BrowserDown ==
  /\ pc = "browse"
  /\ IF bound THEN Settle(TRUE, {}) ELSE Settle(FALSE, {"bind failed"})
  /\ UNCHANGED <<via, aborted, cursor, browser, tally>> /\ UNCHANGED queueVars

\* The next message of the queue.  One that arrives after the settle is still
\* counted and arms the idle timer again.
Undelivered == {i \in spool : i > cursor}

Message ==
  /\ bound /\ Undelivered # {}
  /\ cursor' = Oldest(Undelivered)
  /\ tally' = [count |-> tally.count + 1,
               oldest |-> IF tally.oldest = None THEN cursor' ELSE tally.oldest,
               newest |-> cursor']
  /\ counted' = IF Unfinished THEN counted \cup {cursor'} ELSE counted
  /\ resetIdleTimer
  /\ UNCHANGED <<spool, nextId, exists, via, pc, aborted, result, browser, bind>>

IdleFires ==
  /\ idle = 0
  /\ Settle(TRUE, {})
  /\ UNCHANGED <<via, aborted, cursor, browser, tally>> /\ UNCHANGED queueVars

BindTimerFires ==
  /\ bind = 0
  /\ Settle(FALSE, {"timed out"})
  /\ UNCHANGED <<via, aborted, cursor, browser, tally>> /\ UNCHANGED queueVars

BrowseAborted ==
  /\ aborted /\ pc = "browse"
  /\ Settle(FALSE, {"cancelled"})
  /\ UNCHANGED <<via, aborted, cursor, browser, tally>> /\ UNCHANGED queueVars

-----------------------------------------------------------------------------
(* The caller, the queue and time.                                         *)

\* An abort takes effect at once: nothing else happens before the step it causes.
Abort ==
  /\ Unfinished /\ ~aborted
  /\ aborted' = TRUE
  /\ UNCHANGED <<via, pc, result>> /\ UNCHANGED queueVars /\ UNCHANGED browseVars

AbortedStart ==
  /\ aborted /\ pc = "start"
  /\ Failed("cancelled")
  /\ pc' = "done"
  /\ UNCHANGED <<via, aborted>> /\ UNCHANGED queueVars /\ UNCHANGED browseVars

OtherPublishes ==
  /\ exists /\ nextId <= MaxId
  /\ spool' = spool \cup {nextId} /\ nextId' = nextId + 1
  /\ UNCHANGED <<exists, counted, via, pc, aborted, result>> /\ UNCHANGED browseVars

OtherConsumes ==
  /\ \E i \in spool : spool' = spool \ {i}
  /\ UNCHANGED <<exists, nextId, counted, via, pc, aborted, result>> /\ UNCHANGED browseVars

\* Time passes only when no timer is due.
Left(t) == IF t = None THEN None ELSE t - 1

Tick ==
  /\ idle # 0 /\ bind # 0 /\ (idle # None \/ bind # None)
  /\ idle' = Left(idle) /\ bind' = Left(bind)
  /\ UNCHANGED <<via, pc, aborted, result, cursor, browser, tally>> /\ UNCHANGED queueVars

Next ==
  \/ aborted /\ Unfinished /\ (AbortedStart \/ SempAborted \/ BrowseAborted)
  \/ /\ ~(aborted /\ Unfinished)
     /\ \/ SempStart \/ DetailFails \/ DetailArrives \/ NewestArrives
        \/ BrowseStart \/ BrowserUp \/ ConnectFailed \/ BrowserDown \/ Message
        \/ IdleFires \/ BindTimerFires
        \/ Abort \/ OtherPublishes \/ OtherConsumes \/ Tick

\* Time goes on, due timers run, and an abort is acted upon.
Fairness ==
  /\ WF_vars(Tick) /\ WF_vars(IdleFires) /\ WF_vars(BindTimerFires)
  /\ WF_vars(AbortedStart) /\ WF_vars(SempAborted) /\ WF_vars(BrowseAborted)

SafeSpec == Init /\ [][Next]_vars
Spec == SafeSpec /\ Fairness

-----------------------------------------------------------------------------
TypeOK ==
  /\ spool \subseteq Ids /\ nextId \in 1..(MaxId + 1)
  /\ exists \in BOOLEAN /\ counted \subseteq Ids /\ aborted \in BOOLEAN
  /\ browser \in {"none", "asked", "up"}
  /\ via \in {"semp", "queue-browser"}
  /\ pc \in {"start", "detail", "newest", "browse", "done"}
  /\ result.sourceOk \in BOOLEAN
  /\ result.messageCount \in 0..MaxId \cup {None}
  /\ result.oldest \in Ids \cup {None} /\ result.newest \in Ids \cup {None}
  /\ result.access \in Access /\ result.errors \subseteq ErrorKinds
  /\ cursor \in 0..MaxId
  /\ tally.count \in 0..MaxId
  /\ tally.oldest \in Ids \cup {None} /\ tally.newest \in Ids \cup {None}
  /\ idle \in 0..IdleTicks \cup {None} /\ bind \in 0..BindTicks \cup {None}

\* A verification that was aborted never reports a verified queue, at whichever
\* call, message or timer the abort falls.
CancelledIsNotOk == (aborted /\ pc = "done") => ~result.sourceOk

\* A queue is verified only if it exists; by browsing, only after a bind.
VerifiedExists ==
  (pc = "done" /\ result.sourceOk) => exists /\ (via = "queue-browser" => bound)

\* The result handed to the caller is final, although messages, the idle timer
\* and even UP may still come: only the permission of a queue that was not
\* verified can change.
SettledIsFinal ==
  [][(pc = "done") =>
        /\ pc' = "done"
        /\ result.sourceOk => result' = result
        /\ result' = [result EXCEPT !.access = result'.access]]_vars

\* A run starts at the oldest and stops at the newest message of the result, and the queue
\* changes between the call that counts and the call that asks for the newest, or while it is
\* browsed: still every message that was counted and not consumed since lies between the two,
\* and the two are in order.
CountLiesBetween ==
  (pc = "done" /\ result.sourceOk /\ result.messageCount # None) =>
     /\ result.messageCount = Cardinality(counted)
     /\ counted # {} => result.oldest # None
     /\ \A i \in counted \cap spool :
          result.oldest <= i /\ (result.newest # None => i <= result.newest)
     /\ (result.oldest # None /\ result.newest # None) => result.oldest <= result.newest

\* What the browse path reports is at most what lies between its oldest and its
\* newest, and it knows both whenever it has counted anything.
BrowsedRange ==
  (pc = "done" /\ via = "queue-browser" /\ result.sourceOk) =>
     IF result.messageCount = 0
     THEN result.oldest = None /\ result.newest = None
     ELSE result.messageCount <= result.newest - result.oldest + 1

\* Browsing always comes to an end, however many messages keep coming.
BrowseEnds == (pc = "browse") ~> (pc = "done")
=============================================================================
