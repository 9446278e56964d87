------------------------- MODULE ConnectionsProofs --------------------------
(***************************************************************************)
(* The connection's invariants for any VPNs and any number of sessions.    *)
(* What AppState and the modules hold rests on what is true of the SDK     *)
(* sessions behind the factory's one variable: only that one is live, and  *)
(* the last recorded attempt is for it.                                    *)
(***************************************************************************)
EXTENDS Connections, TLAPS

SdkTypes ==
  /\ sdk \in [Sessions -> Phases] /\ vpnOf \in [Sessions -> Vpns \cup {None}]
  /\ session \in Sessions \cup {None}
  /\ lastAttempt \in Vpns \cup {None}

\* The factory never keeps a session that is gone.
SessionKept == session # None => sdk[session] \in {"connecting", "up", "closing"}

\* Every session was created for some VPN.
VpnsKnown == \A s \in Sessions : sdk[s] # "unused" => vpnOf[s] \in Vpns

SdkInv == SdkTypes /\ NoStraySession /\ AttemptIsKnown /\ SessionKept /\ VpnsKnown

IInv == TypeOK /\ SdkInv /\ ModulesFollow

-----------------------------------------------------------------------------
LEMMA NoneIsNoSession == None \notin Sessions
  BY ConnectionsAssumption DEF Sessions

\* What disposing of the factory's session leaves, after an event of s.
LEMMA AllQuiet ==
  ASSUME SdkInv, NEW s \in Sessions, sdk[s] # "unused"
  PROVE  LET st == Disposed([sdk EXCEPT ![s] = "gone"], session)
         IN  /\ st \in [Sessions -> Phases]
             /\ \A t \in Sessions : st[t] \notin {"connecting", "up"}
             /\ \A t \in Sessions : st[t] = "unused" <=> sdk[t] = "unused"
<1> DEFINE left == [sdk EXCEPT ![s] = "gone"]
<1>1. /\ left \in [Sessions -> Phases]
      /\ \A t \in Sessions : left[t] \in {"connecting", "up"} => t = session
      /\ \A t \in Sessions : left[t] = "unused" <=> sdk[t] = "unused"
      /\ session # None => session \in Sessions /\ sdk[session] # "unused"
  BY DEF SdkInv, SdkTypes, NoStraySession, Live, SessionKept, Phases
<1> HIDE DEF left
<1>2. CASE session = None
  BY <1>1, <1>2, NoneIsNoSession DEF Disposed, left
<1>3. CASE session # None
  <2>1. Disposed(left, session) = [left EXCEPT ![session] = "gone"]
    BY <1>3 DEF Disposed
  <2> QED
    BY <1>1, <1>3, <2>1 DEF Phases, left
<1> QED
  BY <1>2, <1>3

\* Whatever handler clicks Connect, with the sessions as it leaves them.
LEMMA Connecting ==
  ASSUME SdkInv,
         NEW st \in [Sessions -> Phases], NEW cur \in Sessions \cup {None},
         NEW v \in Vpns \cup {Blank}, NEW a \in Vpns \cup {None},
         \A s \in Sessions : st[s] = "unused" <=> sdk[s] = "unused",
         \A s \in Sessions : st[s] \in {"connecting", "up"} => s = cur,
         cur # None => st[cur] \in {"connecting", "up", "closing"},
         \A s \in Sessions : st[s] = "connecting" => a = vpnOf[s],
         ConnectWith(st, cur, v, a)
  PROVE  SdkInv'
<1> USE ConnectionsAssumption DEF Phases
<1>1. CASE ~(formOk /\ v # Blank)
  BY <1>1 DEF ConnectWith, SdkInv, SdkTypes, NoStraySession, Live, AttemptIsKnown,
              SessionKept, VpnsKnown
<1>2. CASE formOk /\ v # Blank
  <2> DEFINE ended == Disconnected(st, cur)
  <2>1. v \in Vpns /\ lastAttempt' = v /\ connect(st, cur, v)
    BY <1>2 DEF ConnectWith
  <2>2. /\ ended \in [Sessions -> Phases]
        /\ \A s \in Sessions : ended[s] \notin {"connecting", "up"}
        /\ \A s \in Sessions : ended[s] = "unused" <=> sdk[s] = "unused"
    <3>1. CASE cur = None
      BY <3>1, NoneIsNoSession DEF Disconnected
    <3>2. CASE cur \in Sessions
      BY <3>2, NoneIsNoSession DEF Disconnected
    <3> QED
      BY <3>1, <3>2
  <2>3. /\ Disposed(st, cur) \in [Sessions -> Phases]
        /\ \A s \in Sessions : Disposed(st, cur)[s] \notin {"connecting", "up"}
        /\ \A s \in Sessions : Disposed(st, cur)[s] = "unused" <=> sdk[s] = "unused"
    <3>1. CASE cur = None
      BY <3>1, NoneIsNoSession DEF Disposed
    <3>2. CASE cur \in Sessions
      BY <3>2, NoneIsNoSession DEF Disposed
    <3> QED
      BY <3>1, <3>2
  <2> HIDE DEF ended
  <2>4. ASSUME NEW s \in Sessions, NEW phase \in {"connecting", "gone"},
               Fresh(s), sdk' = [ended EXCEPT ![s] = phase],
               session' = IF phase = "gone" THEN None ELSE s,
               vpnOf' = [vpnOf EXCEPT ![s] = v]
        PROVE  SdkInv'
    BY <2>1, <2>2, <2>4 DEF Fresh, SdkInv, SdkTypes, NoStraySession, Live, AttemptIsKnown,
              SessionKept, VpnsKnown
  <2>5. ASSUME sdk' = Disposed(st, cur), session' = None, UNCHANGED vpnOf
        PROVE  SdkInv'
    BY <2>1, <2>3, <2>5 DEF SdkInv, SdkTypes, NoStraySession, Live, AttemptIsKnown,
              SessionKept, VpnsKnown
  <2> QED
    BY <2>1, <2>4, <2>5 DEF connect, ended
<1> QED
  BY <1>1, <1>2

\* An event that ends in cleanup() leaves no live session.
LEMMA Cleaning ==
  ASSUME SdkInv, NEW s \in Sessions, sdk[s] # "unused", Cleanup(sdk, s),
         lastAttempt' \in {lastAttempt, None}
  PROVE  SdkInv'
<1> USE ConnectionsAssumption DEF Phases
<1>1. /\ sdk' \in [Sessions -> Phases]
      /\ \A t \in Sessions : sdk'[t] \notin {"connecting", "up"}
      /\ \A t \in Sessions : sdk'[t] = "unused" <=> sdk[t] = "unused"
  BY AllQuiet DEF Cleanup
<1> QED
  BY <1>1 DEF Cleanup, SdkInv, SdkTypes, NoStraySession, Live, AttemptIsKnown,
              SessionKept, VpnsKnown

\* The SDK sessions stay in order under every step.
LEMMA SdkStep == IInv /\ [Next]_vars => SdkInv'
<1> USE ConnectionsAssumption DEF Phases
<1> SUFFICES ASSUME IInv, [Next]_vars
             PROVE  SdkInv'
  OBVIOUS
<1>0. SdkInv /\ TypeOK /\ ModulesFollow
  BY DEF IInv
<1>a. /\ \A s \in Sessions : sdk[s] \in {"connecting", "up"} => s = session
      /\ session # None => sdk[session] \in {"connecting", "up", "closing"}
      /\ \A s \in Sessions : sdk[s] = "connecting" => lastAttempt = vpnOf[s]
      /\ sdk \in [Sessions -> Phases] /\ session \in Sessions \cup {None}
      /\ lastAttempt \in Vpns \cup {None}
  BY <1>0 DEF SdkInv, SdkTypes, NoStraySession, Live, AttemptIsKnown, SessionKept
<1>d. ASSUME sdk' = Disconnected(sdk, session), UNCHANGED <<session, vpnOf, lastAttempt>>
      PROVE  SdkInv'
  BY <1>a, <1>0, <1>d DEF Disconnected, SdkInv, SdkTypes, NoStraySession, Live,
                          AttemptIsKnown, SessionKept, VpnsKnown
<1>1. CASE btnSolace
  <2>1. CASE isConnected
    BY <1>1, <2>1, <1>d DEF btnSolace
  <2>2. CASE ~isConnected
    <3>1. ConnectWith(sdk, session, vpnField, lastAttempt) /\ vpnField \in Vpns \cup {Blank}
      BY <1>1, <2>2, <1>0 DEF btnSolace, TypeOK
    <3> QED
      BY <3>1, <1>a, <1>0, Connecting
  <2> QED
    BY <2>1, <2>2
<1>2. ASSUME NEW v \in Vpns, AutoConnect(v)
      PROVE  SdkInv'
  BY <1>2, <1>a, <1>0, Connecting DEF AutoConnect
<1>3. ASSUME NEW v \in Vpns, SwitchVpn(v)
      PROVE  SdkInv'
  BY <1>3, <1>d DEF SwitchVpn, appVars
<1>4. ASSUME UNCHANGED <<sdk, vpnOf, session, lastAttempt>>
      PROVE  SdkInv'
  BY <1>0, <1>4 DEF SdkInv, SdkTypes, NoStraySession, Live, AttemptIsKnown, SessionKept,
                    VpnsKnown
<1>5. ASSUME NEW s \in Sessions, UpNotice(s)
      PROVE  SdkInv'
  BY <1>5, <1>a, <1>0 DEF UpNotice, SdkInv, SdkTypes, NoStraySession, Live,
                          AttemptIsKnown, SessionKept, VpnsKnown
<1>6. ASSUME NEW s \in Sessions, ConnectFailed(s)
      PROVE  SdkInv'
  BY <1>6, <1>0, Cleaning DEF ConnectFailed, appVars
<1>7. ASSUME NEW s \in Sessions, SessionDisconnected(s)
      PROVE  SdkInv'
  <2>1. CASE op.waits = "disconnect"
    <3> DEFINE st == Disposed([sdk EXCEPT ![s] = "gone"], session)
    <3>1. op.vpn \in Vpns
      BY <1>0, <2>1 DEF TypeOK, Idle
    <3>2. ConnectWith(st, None, op.vpn, None)
      BY <1>7, <2>1 DEF SessionDisconnected, Wanted
    <3>3. /\ st \in [Sessions -> Phases]
          /\ \A t \in Sessions : st[t] \notin {"connecting", "up"}
          /\ \A t \in Sessions : st[t] = "unused" <=> sdk[t] = "unused"
      BY <1>7, <1>0, AllQuiet DEF SessionDisconnected
    <3> HIDE DEF st
    <3> QED
      BY <3>1, <3>2, <3>3, <1>0, Connecting
  <2>2. CASE op.waits # "disconnect"
    BY <1>7, <2>2, <1>0, Cleaning DEF SessionDisconnected
  <2> QED
    BY <2>1, <2>2
<1>8. CASE editForm \/ TimerFires \/ (\E v \in Vpns : AlreadyThere(v)) \/ UNCHANGED vars
  BY <1>8, <1>4 DEF editForm, TimerFires, AlreadyThere, vars, sdkVars, appVars
<1> QED
  BY <1>1, <1>2, <1>3, <1>5, <1>6, <1>7, <1>8 DEF Next

\* What AppState and the modules know stays right.
LEMMA ModulesStep == IInv /\ [Next]_vars => ModulesFollow'
<1> USE ConnectionsAssumption, NoneIsNoSession DEF Phases
<1> SUFFICES ASSUME IInv, [Next]_vars
             PROVE  ModulesFollow'
  OBVIOUS
<1>0. SdkInv /\ TypeOK /\ ModulesFollow
  BY DEF IInv
<1>a. /\ \A s \in Sessions : sdk[s] \in {"connecting", "up"} => s = session
      /\ \A s \in Sessions : sdk[s] = "connecting" => lastAttempt = vpnOf[s]
      /\ sdk \in [Sessions -> Phases] /\ session \in Sessions \cup {None}
      /\ isConnected => held = session /\ session \in Sessions
  BY <1>0 DEF SdkInv, SdkTypes, NoStraySession, Live, AttemptIsKnown, ModulesFollow
<1>d. ASSUME sdk' = Disconnected(sdk, session),
             UNCHANGED <<session, vpnOf, isConnected, selectedVpn, solaceConnection, held>>
      PROVE  ModulesFollow'
  BY <1>a, <1>0, <1>d DEF Disconnected, ModulesFollow
<1>n. ASSUME ~isConnected, UNCHANGED <<isConnected, selectedVpn, solaceConnection, held>>
      PROVE  ModulesFollow'
  BY <1>0, <1>n DEF ModulesFollow
<1>1. CASE btnSolace
  BY <1>1, <1>d, <1>n DEF btnSolace
<1>2. ASSUME NEW v \in Vpns, AutoConnect(v)
      PROVE  ModulesFollow'
  BY <1>2, <1>n DEF AutoConnect
<1>3. ASSUME NEW v \in Vpns, SwitchVpn(v)
      PROVE  ModulesFollow'
  BY <1>3, <1>d DEF SwitchVpn, appVars
<1>5. ASSUME NEW s \in Sessions, UpNotice(s)
      PROVE  ModulesFollow'
  BY <1>5, <1>a DEF UpNotice, UpVpn, ModulesFollow
<1>6. ASSUME NEW s \in Sessions, ConnectFailed(s)
      PROVE  ModulesFollow'
  <2>1. s = session /\ ~isConnected
    BY <1>6, <1>a, <1>0 DEF ConnectFailed, ModulesFollow
  <2> QED
    BY <2>1, <1>6, <1>n DEF ConnectFailed, appVars
<1>7. ASSUME NEW s \in Sessions, SessionDisconnected(s)
      PROVE  ModulesFollow'
  BY <1>7 DEF SessionDisconnected, ModulesFollow
<1>8. CASE editForm \/ TimerFires \/ (\E v \in Vpns : AlreadyThere(v)) \/ UNCHANGED vars
  BY <1>8, <1>0 DEF editForm, TimerFires, AlreadyThere, vars, sdkVars, appVars, ModulesFollow
<1> QED
  BY <1>1, <1>2, <1>3, <1>5, <1>6, <1>7, <1>8 DEF Next

\* The types of what the SDK sessions are not concerned with.
LEMMA TypeStep == IInv /\ [Next]_vars /\ SdkInv' => TypeOK'
<1> USE ConnectionsAssumption DEF Phases
<1> SUFFICES ASSUME IInv, [Next]_vars, SdkInv'
             PROVE  TypeOK'
  OBVIOUS
<1>0. SdkInv /\ TypeOK /\ ModulesFollow
  BY DEF IInv
<1>t. SdkTypes'
  BY DEF SdkInv
<1>1. CASE btnSolace
  BY <1>1, <1>0, <1>t DEF btnSolace, Meddle, TypeOK, SdkTypes
<1>2. ASSUME NEW v \in Vpns, AutoConnect(v)
      PROVE  TypeOK'
  BY <1>2, <1>0, <1>t DEF AutoConnect, TypeOK, SdkTypes
<1>3. ASSUME NEW v \in Vpns, SwitchVpn(v)
      PROVE  TypeOK'
  BY <1>3, <1>0, <1>t DEF SwitchVpn, appVars, TypeOK, SdkTypes
<1>4. ASSUME NEW v \in Vpns, AlreadyThere(v)
      PROVE  TypeOK'
  <2>1. selectedVpn \in Vpns
    <3>1. held \in Sessions /\ selectedVpn = vpnOf[held] /\ sdk[held] # "unused"
      BY <1>4, <1>0 DEF AlreadyThere, ModulesFollow, TypeOK
    <3> QED
      BY <3>1, <1>0 DEF SdkInv, VpnsKnown
  <2> QED
    BY <1>4, <2>1, <1>0 DEF AlreadyThere, sdkVars, appVars, TypeOK
<1>5. ASSUME NEW s \in Sessions, UpNotice(s)
      PROVE  TypeOK'
  <2>1. vpnOf[s] \in Vpns
    BY <1>5, <1>0 DEF UpNotice, SdkInv, VpnsKnown
  <2>2. op.waits = "connect" => op.vpn \in Vpns
    BY <1>0 DEF TypeOK, Idle
  <2>3. op' \in [waits : {"disconnect", "connect"}, vpn : Vpns] \cup {Idle}
    BY <1>5, <1>0 DEF UpNotice, TypeOK
  <2>4. served' \in [wanted : Vpns, got : Vpns] \cup {None}
    BY <1>5, <1>0, <2>1, <2>2 DEF UpNotice, UpVpn, TypeOK
  <2> QED
    BY <1>5, <2>1, <2>3, <2>4, <1>0, <1>t DEF UpNotice, UpVpn, TypeOK, SdkTypes
<1>6. ASSUME NEW s \in Sessions, ConnectFailed(s)
      PROVE  TypeOK'
  BY <1>6, <1>0, <1>t DEF ConnectFailed, appVars, TypeOK, SdkTypes
<1>7. ASSUME NEW s \in Sessions, SessionDisconnected(s)
      PROVE  TypeOK'
  <2>1. CASE op.waits = "disconnect"
    <3>1. op \in [waits : {"disconnect", "connect"}, vpn : Vpns]
      BY <2>1, <1>0 DEF TypeOK, Idle
    <3>2. op' \in [waits : {"disconnect", "connect"}, vpn : Vpns] /\ vpnField' \in Vpns
      BY <3>1, <1>7, <2>1 DEF SessionDisconnected, Wanted
    <3> QED
      BY <3>2, <1>7, <1>0, <1>t DEF SessionDisconnected, TypeOK, SdkTypes
  <2>2. CASE op.waits # "disconnect"
    BY <2>2, <1>7, <1>0, <1>t DEF SessionDisconnected, TypeOK, SdkTypes
  <2> QED
    BY <2>1, <2>2
<1>8. CASE editForm
  BY <1>8, <1>0 DEF editForm, sdkVars, appVars, TypeOK
<1>9. CASE TimerFires \/ UNCHANGED vars
  BY <1>9, <1>0 DEF TimerFires, vars, sdkVars, appVars, TypeOK
<1> QED
  BY <1>1, <1>2, <1>3, <1>4, <1>5, <1>6, <1>7, <1>8, <1>9 DEF Next

\* The inductive invariant.
THEOREM Invariant == SafeSpec => []IInv
<1>1. Init => IInv
  BY ConnectionsAssumption
     DEF Init, IInv, TypeOK, SdkInv, SdkTypes, NoStraySession, Live, AttemptIsKnown,
         SessionKept, VpnsKnown, ModulesFollow, Phases, Idle
<1>2. IInv /\ [Next]_vars => IInv'
  BY SdkStep, ModulesStep, TypeStep DEF IInv
<1> QED
  BY <1>1, <1>2, PTL DEF SafeSpec

\* Every variable keeps its type.
THEOREM TypeCorrect == SafeSpec => []TypeOK
<1>1. IInv => TypeOK
  BY DEF IInv
<1> QED
  BY <1>1, Invariant, PTL

\* At most one SDK session is connecting or up, and the factory knows it.
THEOREM OneSession == SafeSpec => []NoStraySession
<1>1. IInv => NoStraySession
  BY DEF IInv, SdkInv
<1> QED
  BY <1>1, Invariant, PTL

\* The other modules hold the factory's session exactly while it is connected.
THEOREM ModulesHoldSession == SafeSpec => []ModulesFollow
<1>1. IInv => ModulesFollow
  BY DEF IInv
<1> QED
  BY <1>1, Invariant, PTL

\* onConnected always finds the attempt of the session that came up.
THEOREM AttemptKnown == SafeSpec => []AttemptIsKnown
<1>1. IInv => AttemptIsKnown
  BY DEF IInv, SdkInv
<1> QED
  BY <1>1, Invariant, PTL

-----------------------------------------------------------------------------
\* As long as nobody meddles, the form, the session and the request agree.
Agree ==
  ~meddled => /\ session # None => formOk /\ vpnOf[session] = vpnField
              /\ op.waits = "connect" => vpnField = op.vpn
              /\ served # None => served.wanted = served.got

\* A click on Connect ends with no session, a session for the VPN given, or, if
\* the form does not validate, with the session there was.
LEMMA Clicking ==
  ASSUME SdkTypes, NEW st, NEW cur, NEW v, NEW a, ConnectWith(st, cur, v, a)
  PROVE  \/ session' = None
         \/ formOk /\ session' \in Sessions /\ vpnOf'[session'] = v
         \/ ~(formOk /\ v # Blank) /\ session' = cur /\ UNCHANGED vpnOf
  BY DEF ConnectWith, connect, SdkTypes

LEMMA AgreeStep == IInv /\ Agree /\ [Next]_vars => Agree'
<1> USE ConnectionsAssumption, NoneIsNoSession
<1> SUFFICES ASSUME IInv, Agree, [Next]_vars, ~meddled'
             PROVE  /\ session' # None => formOk' /\ vpnOf'[session'] = vpnField'
                    /\ op'.waits = "connect" => vpnField' = op'.vpn
                    /\ served' # None => served'.wanted = served'.got
  BY DEF Agree
<1>0. SdkInv /\ SdkTypes /\ TypeOK /\ ModulesFollow
  BY DEF IInv, SdkInv
<1>m. ~meddled
  BY DEF Next, btnSolace, Meddle, editForm, AutoConnect, AlreadyThere, SwitchVpn, TimerFires,
         UpNotice, ConnectFailed, SessionDisconnected, vars
<1>a. /\ session # None => formOk /\ vpnOf[session] = vpnField
      /\ op.waits = "connect" => vpnField = op.vpn
      /\ served # None => served.wanted = served.got
  BY <1>m DEF Agree
<1>v. session # None => vpnField # Blank
  BY <1>a, <1>0 DEF SdkInv, VpnsKnown, SessionKept, SdkTypes
<1>1. CASE btnSolace
  <2>1. CASE isConnected
    BY <1>1, <2>1, <1>a DEF btnSolace
  <2>2. CASE ~isConnected
    <3>1. ConnectWith(sdk, session, vpnField, lastAttempt)
          /\ UNCHANGED <<vpnField, formOk, op, served>>
      BY <1>1, <2>2 DEF btnSolace
    <3> QED
      BY <3>1, <1>a, <1>0, <1>v, Clicking
  <2> QED
    BY <2>1, <2>2
<1>2. ASSUME NEW v \in Vpns, AutoConnect(v)
      PROVE  /\ session' # None => formOk' /\ vpnOf'[session'] = vpnField'
             /\ op'.waits = "connect" => vpnField' = op'.vpn
             /\ served' # None => served'.wanted = served'.got
  <2>1. ConnectWith(sdk, session, v, lastAttempt) /\ v # Blank
    BY <1>2 DEF AutoConnect
  <2>2. session' # None => formOk /\ vpnOf'[session'] = v
    BY <2>1, <1>0, <1>a, Clicking
  <2> QED
    BY <1>2, <2>2, <1>a DEF AutoConnect
<1>3. ASSUME NEW v \in Vpns, SwitchVpn(v)
      PROVE  /\ session' # None => formOk' /\ vpnOf'[session'] = vpnField'
             /\ op'.waits = "connect" => vpnField' = op'.vpn
             /\ served' # None => served'.wanted = served'.got
  BY <1>3, <1>a DEF SwitchVpn, appVars
<1>4. ASSUME NEW v \in Vpns, AlreadyThere(v)
      PROVE  /\ session' # None => formOk' /\ vpnOf'[session'] = vpnField'
             /\ op'.waits = "connect" => vpnField' = op'.vpn
             /\ served' # None => served'.wanted = served'.got
  <2>1. held = session /\ session # None /\ selectedVpn = vpnOf[held]
    BY <1>4, <1>0 DEF AlreadyThere, ModulesFollow
  <2> QED
    BY <1>4, <2>1, <1>a DEF AlreadyThere, sdkVars
<1>5. ASSUME NEW s \in Sessions, UpNotice(s)
      PROVE  /\ session' # None => formOk' /\ vpnOf'[session'] = vpnField'
             /\ op'.waits = "connect" => vpnField' = op'.vpn
             /\ served' # None => served'.wanted = served'.got
  <2>1. s = session
    BY <1>5, <1>0 DEF UpNotice, SdkInv, NoStraySession, Live
  <2> QED
    BY <1>5, <2>1, <1>a DEF UpNotice, UpVpn, Idle
<1>6. ASSUME NEW s \in Sessions, ConnectFailed(s)
      PROVE  /\ session' # None => formOk' /\ vpnOf'[session'] = vpnField'
             /\ op'.waits = "connect" => vpnField' = op'.vpn
             /\ served' # None => served'.wanted = served'.got
  BY <1>6, <1>a DEF ConnectFailed, Cleanup
<1>7. ASSUME NEW s \in Sessions, SessionDisconnected(s)
      PROVE  /\ session' # None => formOk' /\ vpnOf'[session'] = vpnField'
             /\ op'.waits = "connect" => vpnField' = op'.vpn
             /\ served' # None => served'.wanted = served'.got
  <2>1. CASE op.waits = "disconnect"
    <3> DEFINE st == Disposed([sdk EXCEPT ![s] = "gone"], session)
    <3>1. /\ op \in [waits : {"disconnect", "connect"}, vpn : Vpns]
          /\ vpnField' = op.vpn /\ op'.vpn = op.vpn
          /\ UNCHANGED <<formOk, served>>
          /\ ConnectWith(st, None, op.vpn, None)
      BY <2>1, <1>7, <1>0 DEF SessionDisconnected, Wanted, TypeOK, Idle
    <3> HIDE DEF st
    <3>2. session' # None => formOk /\ vpnOf'[session'] = op.vpn
      BY <3>1, <1>0, Clicking
    <3> QED
      BY <3>1, <3>2, <1>a
  <2>2. CASE op.waits # "disconnect"
    BY <2>2, <1>7, <1>a DEF SessionDisconnected, Cleanup, Idle
  <2> QED
    BY <2>1, <2>2
<1>8. CASE editForm
  <2>1. ~InProgress /\ session = None
    BY <1>8 DEF editForm
  <2>2. op' = Idle /\ session' = None /\ served' = served
    BY <2>1, <1>8 DEF editForm, InProgress, sdkVars
  <2> QED
    BY <2>2, <1>a DEF Idle
<1>9. CASE TimerFires \/ UNCHANGED vars
  BY <1>9, <1>a DEF TimerFires, Idle, vars, sdkVars
<1> QED
  BY <1>1, <1>2, <1>3, <1>4, <1>5, <1>6, <1>7, <1>8, <1>9 DEF Next

\* Left alone, the handoff only ever goes on to the VPN that was asked for.
THEOREM HandoffRight == SafeSpec => []PoliteHandoff
<1>1. Init => Agree
  BY DEF Init, Agree, Idle
<1>2. Agree => PoliteHandoff
  BY DEF Agree, PoliteHandoff
<1> QED
  BY <1>1, <1>2, AgreeStep, Invariant, PTL DEF SafeSpec
=============================================================================
