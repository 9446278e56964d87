---------------------------- MODULE Connections ----------------------------
(***************************************************************************)
(* The primary Solace connection: the session factory                      *)
(* (core/services/solace-client.ts), the Connections page that drives it   *)
(* with its Connect button (modules/connections/module.ts), the event bus  *)
(* through which the other modules learn of the session, and the handoff   *)
(* `connection:check-connection' by which they ask for another VPN.        *)
(*                                                                         *)
(* Every SDK session is told apart, because all handlers of the factory    *)
(* share one variable `session': an event of an old session acts on        *)
(* whatever session is there by then.  An emit on the bus runs its         *)
(* handlers before it returns, so a hook and all that its events cause are *)
(* one action.                                                             *)
(*                                                                         *)
(* Bound: the factory creates at most MaxSessions sessions.                *)
(***************************************************************************)
EXTENDS Naturals

CONSTANTS Vpns,         \* names of message VPNs
          Blank,        \* an empty VPN field
          MaxSessions,
          None

ASSUME ConnectionsAssumption ==
  /\ Blank \notin Vpns /\ None \notin Vpns
  /\ MaxSessions \in Nat /\ None \notin Nat

Sessions == 1..MaxSessions

VARIABLES
  \* the SDK: what became of each session, and its VPN
  sdk, vpnOf,
  session,      \* the factory's session, or None
  \* AppState
  isConnected, selectedVpn,
  solaceConnection,  \* its VPN
  lastAttempt,  \* VPN of lastSolaceAttempt, or None
  held,         \* the session the other modules were given, or None
  vpnField,     \* elSolVpn.value
  formOk,       \* the other fields of the form are valid
  op,           \* the request in progress: what it waits for, and the VPN wanted
  served,       \* history: the last finish event, VPN wanted and VPN connected
  meddled       \* history: the form or the button was used under way

sdkVars == <<sdk, vpnOf, session>>
appVars == <<isConnected, selectedVpn, solaceConnection, lastAttempt, held>>
vars == <<sdkVars, appVars, vpnField, formOk, op, served, meddled>>

Phases == {"unused", "connecting", "up", "closing", "gone"}
Live(s) == sdk[s] \in {"connecting", "up"}
Idle == [waits |-> "none", vpn |-> None]
InProgress == op # Idle

Init ==
  /\ sdk = [s \in Sessions |-> "unused"] /\ vpnOf = [s \in Sessions |-> None]
  /\ session = None
  /\ isConnected = FALSE /\ selectedVpn = None /\ solaceConnection = None
  /\ lastAttempt = None /\ held = None
  /\ vpnField \in Vpns \cup {Blank} /\ formOk \in BOOLEAN
  /\ op = Idle /\ served = None /\ meddled = FALSE

-----------------------------------------------------------------------------
(* The factory.  st and cur are the sessions and the factory's own one as  *)
(* the calling handler has left them.                                      *)

Fresh(s) == sdk[s] = "unused" /\ \A t \in Sessions : t < s => sdk[t] # "unused"

\* Mutant: the session that is replaced is left as it is.
BugDisconnected(st, cur) == st

Disconnected(st, cur) == IF cur = None THEN st ELSE [st EXCEPT ![cur] = "closing"]

Disposed(st, cur) == IF cur = None THEN st ELSE [st EXCEPT ![cur] = "gone"]

\* An event of s that ends in cleanup(): s is gone, and so is the factory's
\* session, whichever that is.
Cleanup(st, s) ==
  /\ sdk' = Disposed([st EXCEPT ![s] = "gone"], session)
  /\ session' = None
  /\ UNCHANGED vpnOf

\* connect: the old session is told to disconnect and forgotten; then a new one
\* is created, or createSession throws, or session.connect does.
connect(st, cur, v) ==
  \/ \E s \in Sessions : /\ Fresh(s)
                         /\ sdk' = [Disconnected(st, cur) EXCEPT ![s] = "connecting"]
                         /\ session' = s
                         /\ vpnOf' = [vpnOf EXCEPT ![s] = v]
  \/ /\ sdk' = Disposed(st, cur)
     /\ session' = None /\ UNCHANGED vpnOf
  \/ \E s \in Sessions : /\ Fresh(s)
                         /\ sdk' = [Disconnected(st, cur) EXCEPT ![s] = "gone"]
                         /\ session' = None
                         /\ vpnOf' = [vpnOf EXCEPT ![s] = v]

\* The Connect button while not connected: a form that does not validate stops it.
ConnectWith(st, cur, v, attempt) ==
  IF formOk /\ v # Blank
  THEN lastAttempt' = v /\ connect(st, cur, v)
  ELSE lastAttempt' = attempt /\ sdk' = st /\ session' = cur /\ UNCHANGED vpnOf

-----------------------------------------------------------------------------
(* The page.                                                               *)

Meddle == meddled' = (meddled \/ InProgress)

\* The Connect button reads Disconnect while connected; it is never disabled.
btnSolace ==
  /\ Meddle
  /\ IF isConnected
     THEN /\ sdk' = Disconnected(sdk, session)
          /\ UNCHANGED <<session, vpnOf, lastAttempt>>
     ELSE ConnectWith(sdk, session, vpnField, lastAttempt)
  /\ UNCHANGED <<isConnected, selectedVpn, solaceConnection, held, vpnField, formOk, op,
                 served>>

\* The fields can be edited while not connected, Load and Reset clicked at any time.
editForm ==
  /\ \/ /\ ~isConnected
        /\ vpnField' \in Vpns \cup {Blank} /\ formOk' \in BOOLEAN
     \/ vpnField' \in Vpns /\ formOk' = TRUE
     \/ vpnField' = Blank /\ formOk' = FALSE
  /\ meddled' = (meddled \/ InProgress \/ session # None)
  /\ UNCHANGED <<op, served>> /\ UNCHANGED sdkVars /\ UNCHANGED appVars

\* `connection:check-connection' while another one is in progress is ignored.
\* While not connected: connect, and wait for the next session.
AutoConnect(v) ==
  /\ ~InProgress /\ ~isConnected
  /\ vpnField' = v
  /\ op' = [waits |-> "connect", vpn |-> v]
  /\ ConnectWith(sdk, session, v, lastAttempt)
  /\ UNCHANGED <<isConnected, selectedVpn, solaceConnection, held, formOk, served, meddled>>

\* On the wanted VPN already, as the form has it.
AlreadyThere(v) ==
  /\ ~InProgress /\ isConnected /\ vpnField = v
  /\ served' = [wanted |-> v, got |-> selectedVpn]
  /\ UNCHANGED <<vpnField, formOk, op, meddled>> /\ UNCHANGED sdkVars /\ UNCHANGED appVars

\* The user agrees to the switch: disconnect, and wait for that.
SwitchVpn(v) ==
  /\ ~InProgress /\ isConnected /\ vpnField # v
  /\ op' = [waits |-> "disconnect", vpn |-> v]
  /\ sdk' = Disconnected(sdk, session)
  /\ UNCHANGED <<session, vpnOf, vpnField, formOk, served, meddled>> /\ UNCHANGED appVars

\* Mutant: the timer only reports.
BugTimerFires == InProgress /\ UNCHANGED vars

\* The 10 s or the 30 s timer gives the request up.
TimerFires ==
  /\ InProgress
  /\ op' = Idle
  /\ UNCHANGED <<vpnField, formOk, served, meddled>> /\ UNCHANGED sdkVars /\ UNCHANGED appVars

-----------------------------------------------------------------------------
(* SDK events.                                                             *)

\* Mutant: the VPN is read from the form once the session is up.
BugUpVpn(s) == IF vpnField = Blank THEN None ELSE vpnField

\* The VPN a session was created for.
UpVpn(s) == vpnOf[s]

\* UP_NOTICE: AppState, the bus, and with it the request that waits.
UpNotice(s) ==
  /\ sdk[s] = "connecting"
  /\ sdk' = [sdk EXCEPT ![s] = "up"]
  /\ isConnected' = TRUE /\ selectedVpn' = UpVpn(s)
  /\ solaceConnection' = lastAttempt
  /\ held' = session
  /\ IF op.waits = "connect"
     THEN served' = [wanted |-> op.vpn, got |-> UpVpn(s)] /\ op' = Idle
     ELSE UNCHANGED <<served, op>>
  /\ UNCHANGED <<session, vpnOf, lastAttempt, vpnField, formOk, meddled>>

\* CONNECT_FAILED_ERROR: the page shows it, and nobody else is told.
ConnectFailed(s) ==
  /\ sdk[s] = "connecting"
  /\ Cleanup(sdk, s)
  /\ UNCHANGED <<vpnField, formOk, op, served, meddled>> /\ UNCHANGED appVars

\* Mutant: the new VPN is not written into the field first.
BugWanted == vpnField

\* The VPN to connect to once the disconnect that was waited for has happened.
Wanted == op.vpn

\* DISCONNECTED, asked for or not: AppState and the bus; a VPN switch goes on to
\* connect, and a request that waited for a connection is given up.
SessionDisconnected(s) ==
  /\ sdk[s] \in {"up", "closing"}
  /\ isConnected' = FALSE /\ selectedVpn' = None /\ solaceConnection' = None
  /\ held' = None
  /\ IF op.waits = "disconnect"
     THEN /\ vpnField' = Wanted
          /\ op' = [op EXCEPT !.waits = "connect"]
          /\ ConnectWith(Disposed([sdk EXCEPT ![s] = "gone"], session), None, Wanted, None)
     ELSE /\ op' = Idle
          /\ lastAttempt' = None
          /\ Cleanup(sdk, s)
          /\ UNCHANGED vpnField
  /\ UNCHANGED <<formOk, served, meddled>>

Next ==
  \/ btnSolace \/ editForm
  \/ \E v \in Vpns : AutoConnect(v) \/ AlreadyThere(v) \/ SwitchVpn(v)
  \/ TimerFires
  \/ \E s \in Sessions : UpNotice(s) \/ ConnectFailed(s) \/ SessionDisconnected(s)

\* Only setTimeout is fair: the SDK and the broker may stay silent.
Fairness == WF_vars(TimerFires)

SafeSpec == Init /\ [][Next]_vars
Spec == SafeSpec /\ Fairness

-----------------------------------------------------------------------------
TypeOK ==
  /\ sdk \in [Sessions -> Phases] /\ vpnOf \in [Sessions -> Vpns \cup {None}]
  /\ session \in Sessions \cup {None} /\ held \in Sessions \cup {None}
  /\ isConnected \in BOOLEAN
  /\ selectedVpn \in Vpns \cup {None} /\ solaceConnection \in Vpns \cup {None}
  /\ lastAttempt \in Vpns \cup {None}
  /\ vpnField \in Vpns \cup {Blank} /\ formOk \in BOOLEAN
  /\ op \in [waits : {"disconnect", "connect"}, vpn : Vpns] \cup {Idle}
  /\ served \in [wanted : Vpns, got : Vpns] \cup {None}
  /\ meddled \in BOOLEAN

\* No session is lost sight of: one that is connecting or up is the one that the
\* Disconnect button, and the next connect, will close.
NoStraySession == \A s \in Sessions : Live(s) => s = session

\* The page and the modules behind the bus agree with the factory: connected
\* means that they hold its session, that it did come up, and that its VPN is the
\* one that AppState names and that the credentials it publishes are for.
ModulesFollow ==
  IF isConnected
  THEN /\ held # None /\ held = session /\ sdk[held] \in {"up", "closing"}
       /\ selectedVpn = vpnOf[held] /\ solaceConnection = vpnOf[held]
  ELSE held = None /\ selectedVpn = None /\ solaceConnection = None

\* module.ts 89-91: onConnected only ever fires after an attempt was recorded, and
\* the one recorded is for the session that came up.
AttemptIsKnown ==
  \A s \in Sessions : sdk[s] = "connecting" => lastAttempt = vpnOf[s]

\* As long as the user keeps off the form and the button meanwhile, a module that
\* asked for a VPN is told to go on only when that VPN is connected.
PoliteHandoff == (served # None /\ ~meddled) => served.wanted = served.got

\* module.ts 546-549: a request is always over some time.
RequestEnds == InProgress ~> ~InProgress
=============================================================================
