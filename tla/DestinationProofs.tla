-------------------------- MODULE DestinationProofs --------------------------
(***************************************************************************)
(* Where a run publishes, for any brokers and VPNs and any number of       *)
(* destination sessions.  The gates and the buttons need next to nothing.  *)
(* That an unslipped run goes where the dialog said rests on a chain: the  *)
(* session in use was asked for what the form still says, the form agrees  *)
(* with the primary broker, the dialog with the form, and Next with there  *)
(* being a session at all.                                                 *)
(***************************************************************************)
EXTENDS Destination, TLAPS

\* Only the factory's session is connecting or up.
OneLive == \A s \in Sessions : sdk[s] \in {"connecting", "up"} => s = session

\* The page's session is up and the factory's own, or on its way down; and one that is up
\* is the page's.
DestKept ==
  /\ destSession # None =>
       \/ sdk[destSession] = "closing"
       \/ destSession = session /\ sdk[session] = "up"
  /\ session # None /\ sdk[session] = "up" => destSession = session

\* The form is filled in where it may be used.
Filled == sol # None \/ ~Same => form \in Places

\* Every session was created for some place.
PlacesKnown == \A s \in Sessions : sdk[s] # "unused" => placeOf[s] \in Places

\* The factory's session was created.
SessionUsed == session # None => sdk[session] # "unused"

\* There is a run only while the dialog runs it.
RunInDialog == phase # "run" => run = None

\* The button of a session that is up offers to disconnect it.
UpOffers == session # None /\ sdk[session] = "up" => btnSol = "Disconnect"

Shape == OneLive /\ DestKept /\ Filled /\ PlacesKnown /\ SessionUsed /\ RunInDialog /\ UpOffers

IInv == TypeOK /\ Shape /\ ButtonsAreBacked /\ GatesAreFresh

\* Unless something slipped, form, session, dialog and Next agree.  The form may disagree with
\* the primary broker only while no session can be asked for: with Same broker on and Same VPN
\* off, its host is open for an edit only after a run, which leaves a session to disconnect.
FormAgrees == primaryHost # None /\ ~Same /\ btnSol = "Connect" => Agrees
HostIsLocked == sameBroker /\ ~sameVpn /\ btnSol # "Disconnect" => hostLocked
RunHasSession == phase = "run" /\ sameBroker /\ ~sameVpn => btnSol = "Disconnect"
HostGuarded == HostIsLocked /\ RunHasSession
AskedFor == InUse => ~Same /\ Agrees /\ placeOf[session] = form
NextHasSession == next \/ phase # "form" => sameVpn \/ destSession # None
DialogTells ==
  phase = "confirm" =>
    /\ shown.vpn = IF Same THEN sol.vpn ELSE form.vpn
    /\ ~sameBroker => shown.host = form.host
RunTold ==
  run # None /\ ~Misled =>
    /\ run.to.vpn = shown.vpn
    /\ run.to.host = IF run.sameBroker THEN run.broker ELSE shown.host

Parts == FormAgrees /\ HostGuarded /\ AskedFor /\ NextHasSession /\ DialogTells /\ RunTold
InTune == ~slipped => Parts

-----------------------------------------------------------------------------
LEMMA NoneIsNoSession == None \notin Sessions
  BY DestinationAssumption DEF Sessions

\* Nothing is no place.
LEMMA NoneIsNoPlace == None \notin Places
  BY DestinationAssumption

\* The primary's broker is one of the brokers, if there is any.
LEMMA PrimaryTyped ==
  ASSUME sol \in Places \cup {None}, sempHost \in Brokers \cup {None}
  PROVE  /\ primaryHost \in Brokers \cup {None}
         /\ sol # None => primaryHost = sol.host /\ primaryHost # None
  BY DestinationAssumption, NoneIsNoPlace DEF primaryHost, Places

\* The form as the refresh leaves it.
LEMMA Synced ==
  ASSUME NEW f \in [host : Brokers \cup {Blank}, vpn : Vpns \cup {Blank}],
         sol' \in Places \cup {None}, sempHost' \in Brokers \cup {None},
         syncDestFormFromSnapshot(f)
  PROVE  /\ form' \in [host : Brokers \cup {Blank}, vpn : Vpns \cup {Blank}]
         /\ ~(sameBroker' /\ primaryHost' # None) => form' = f
         /\ sameBroker' /\ primaryHost' # None => form'.host = primaryHost'
         /\ sameBroker' /\ primaryHost' # None /\ ~sameVpn' => form'.vpn = f.vpn
         /\ sameBroker' /\ primaryHost' # None /\ sameVpn' /\ sol' # None => form'.vpn = sol'.vpn
<1>1. primaryHost' \in Brokers \cup {None}
  BY DestinationAssumption DEF primaryHost, Places
<1>2. PrefilledVpn(f) \in Vpns \cup {Blank}
  BY DestinationAssumption DEF PrefilledVpn, Places
<1> QED
  BY <1>1, <1>2, DestinationAssumption DEF syncDestFormFromSnapshot, PrefilledVpn

\* What the refreshes and exemptions assign is Boolean.
LEMMA PickTyped == refreshDestPickVisible => pickVisible' \in BOOLEAN
  BY DEF refreshDestPickVisible

LEMMA NextTyped == refreshStartEnabled => next' \in BOOLEAN /\ forced' \in BOOLEAN
  BY DEF refreshStartEnabled

LEMMA LocksTyped ==
  ASSUME NEW ACTION ticked, sameBroker' \in BOOLEAN, sameVpn' \in BOOLEAN, applyDestPrefill(ticked)
  PROVE  /\ hostLocked' \in BOOLEAN /\ vpnLocked' \in BOOLEAN
         /\ boxChecked' \in BOOLEAN /\ boxDisabled' \in BOOLEAN
  BY DEF applyDestPrefill

LEMMA SlipTyped ==
  ASSUME NEW ACTION c, Slip(c) \/ SlipUnlessSettled(c)
  PROVE  slipped' \in BOOLEAN
  BY DEF Slip, SlipUnlessSettled

\* Every variable keeps its type.
LEMMA TypeStep == IInv /\ [Next]_vars => TypeOK'
<1> SUFFICES ASSUME IInv, [Next]_vars
             PROVE  TypeOK'
  OBVIOUS
<1> USE DestinationAssumption, NoneIsNoSession, PickTyped, NextTyped, LocksTyped, SlipTyped
<1>0. TypeOK /\ Shape
  BY DEF IInv
<1>d. Disconnected \in [Sessions -> {"unused", "connecting", "up", "closing", "gone"}]
  BY <1>0 DEF Disconnected, TypeOK
<1>1. CASE PrimaryEvent
  <2>1. /\ sol' \in Places \cup {None} /\ sempHost' \in Brokers \cup {None}
        /\ sameBroker' \in BOOLEAN /\ sameVpn' \in BOOLEAN
    BY <1>1, <1>0 DEF PrimaryEvent, TypeOK
  <2>2. form' \in [host : Brokers \cup {Blank}, vpn : Vpns \cup {Blank}]
    BY <1>1, <1>0, <2>1, Synced DEF PrimaryEvent, Refresh, TypeOK
  <2>3. /\ hostLocked' \in BOOLEAN /\ vpnLocked' \in BOOLEAN /\ boxChecked' \in BOOLEAN
        /\ boxDisabled' \in BOOLEAN /\ pickVisible' \in BOOLEAN
        /\ next' \in BOOLEAN /\ forced' \in BOOLEAN /\ slipped' \in BOOLEAN
    <3>1. applyDestPrefill(boxChecked) /\ refreshStartEnabled /\ refreshDestPickVisible
      BY <1>1 DEF PrimaryEvent, Refresh
    <3>2. slipped' \in BOOLEAN
      BY <1>1 DEF PrimaryEvent, SlipUnlessSettled
    <3> QED
      BY <2>1, <3>1, <3>2
  <2> QED
    BY <1>1, <1>0, <2>1, <2>2, <2>3 DEF PrimaryEvent, solVars, sempVars, dialogVars, TypeOK
<1>18. CASE VpnSwitched
  <2>1. named' \in BOOLEAN /\ next' \in BOOLEAN /\ forced' \in BOOLEAN
    BY <1>18, <1>0 DEF VpnSwitched, TypeOK
  <2> QED
    BY <1>18, <1>0, <2>1
       DEF VpnSwitched, primaryVars, formVars, solVars, sempVars, boxVars, dialogVars, TypeOK
<1>2. CASE btnDestSolConnect
  <2>0. slipped' \in BOOLEAN
    BY <1>2 DEF btnDestSolConnect
  <2>1. CASE btnSol = "Disconnect"
    BY <1>2, <2>0, <2>1, <1>0, <1>d
       DEF btnDestSolConnect, primaryVars, formVars, sempVars, gateVars, boxVars, nextVars,
           dialogVars, TypeOK
  <2>2. CASE btnSol # "Disconnect"
    <3>1. form \in Places
      BY <1>2, <1>0 DEF btnDestSolConnect, Shape, Filled, FormReachable
    <3>2. PICK s \in Sessions :
            /\ placeOf' = [placeOf EXCEPT ![s] = form]
            /\ \/ /\ sdk' = [Disconnected EXCEPT ![s] = "connecting"] /\ session' = s
                  /\ btnSol' = "Connecting"
               \/ /\ sdk' = [Disconnected EXCEPT ![s] = "gone"] /\ session' = None
                  /\ btnSol' = "Connect"
      BY <1>2, <2>2 DEF btnDestSolConnect, connectDestSol
    <3> QED
      BY <1>2, <2>0, <1>0, <1>d, <3>1, <3>2
         DEF btnDestSolConnect, primaryVars, formVars, sempVars, gateVars, boxVars, nextVars,
             dialogVars, TypeOK
  <2> QED
    BY <2>1, <2>2
<1>3. CASE btnDestSempConnect
  <2>1. sameBroker' \in BOOLEAN /\ sameVpn' \in BOOLEAN
    BY <1>3, <1>0 DEF btnDestSempConnect, formVars, TypeOK
  <2>2. /\ destSempCtx' \in BOOLEAN /\ hostLocked' \in BOOLEAN /\ vpnLocked' \in BOOLEAN
        /\ boxChecked' \in BOOLEAN /\ boxDisabled' \in BOOLEAN /\ pickVisible' \in BOOLEAN
    BY <1>3, <1>0, <2>1 DEF btnDestSempConnect, sempDisconnected, boxVars, TypeOK
  <2>3. probes' \in 0..MaxProbes /\ btnSemp' \in {"Connect", "Connecting", "Disconnect"}
    BY <1>3, <1>0 DEF btnDestSempConnect, sempDisconnected, TypeOK
  <2> QED
    BY <1>3, <1>0, <2>2, <2>3
       DEF btnDestSempConnect, primaryVars, formVars, solVars, nextVars, dialogVars, TypeOK
<1>4. CASE SempAnswers
  <2>1. /\ destSempCtx' \in BOOLEAN /\ hostLocked' \in BOOLEAN /\ pickVisible' \in BOOLEAN
    BY <1>4, <1>0 DEF SempAnswers, TypeOK
  <2>2. probes' \in 0..MaxProbes /\ btnSemp' \in {"Connect", "Connecting", "Disconnect"}
    BY <1>4, <1>0 DEF SempAnswers, TypeOK
  <2> QED
    BY <1>4, <1>0, <2>1, <2>2
       DEF SempAnswers, primaryVars, formVars, solVars, boxVars, nextVars, dialogVars, TypeOK
<1>5. ASSUME NEW s \in Sessions, UpNotice(s)
      PROVE  TypeOK'
  BY <1>5, <1>0
     DEF UpNotice, primaryVars, formVars, boxVars, sempVars, dialogVars, TypeOK
<1>6. ASSUME NEW s \in Sessions, ConnectFailed(s)
      PROVE  TypeOK'
  BY <1>6, <1>0
     DEF ConnectFailed, Cleanup, primaryVars, formVars, sempVars, gateVars, boxVars, nextVars,
         dialogVars, TypeOK
<1>7. ASSUME NEW s \in Sessions, SessionDisconnected(s)
      PROVE  TypeOK'
  BY <1>7, <1>0
     DEF SessionDisconnected, Cleanup, primaryVars, formVars, sempVars, dialogVars, TypeOK
<1>8. CASE Toggle
  <2>1. form' \in [host : Brokers \cup {Blank}, vpn : Vpns \cup {Blank}]
    BY <1>8, <1>0, Synced DEF Toggle, Refresh, primaryVars, TypeOK
  <2>2. sameBroker' \in BOOLEAN /\ sameVpn' \in BOOLEAN
    BY <1>8, <1>0 DEF Toggle, TypeOK
  <2>3. /\ hostLocked' \in BOOLEAN /\ vpnLocked' \in BOOLEAN /\ boxChecked' \in BOOLEAN
        /\ boxDisabled' \in BOOLEAN /\ pickVisible' \in BOOLEAN
        /\ next' \in BOOLEAN /\ forced' \in BOOLEAN /\ slipped' \in BOOLEAN
    BY <1>8, <2>2 DEF Toggle, Refresh
  <2>4. destSempCtx' \in BOOLEAN
    BY <1>8 DEF Toggle, sempDisconnected
  <2>5. /\ sdk' \in [Sessions -> {"unused", "connecting", "up", "closing", "gone"}]
        /\ btnSol' \in {"Connect", "Connecting", "Disconnect"}
        /\ btnSemp' \in {"Connect", "Connecting", "Disconnect"} /\ probes' \in 0..MaxProbes
    BY <1>8, <1>0, <1>d DEF Toggle, sempDisconnected, disposeDestSol, TypeOK
  <2> QED
    BY <1>8, <1>0, <2>1, <2>2, <2>3, <2>4, <2>5 DEF Toggle, primaryVars, dialogVars, TypeOK
<1>9. CASE EditPlace
  <2>1. form' \in [host : Brokers \cup {Blank}, vpn : Vpns \cup {Blank}]
    BY <1>9, <1>0 DEF EditPlace, TypeOK
  <2> QED
    BY <1>9, <1>0, <2>1
       DEF EditPlace, primaryVars, solVars, sempVars, gateVars, boxVars, nextVars, dialogVars,
           TypeOK
<1>10. CASE destTypeToggle
  <2>1. isQueue' \in BOOLEAN /\ pickVisible' \in BOOLEAN
    BY <1>10, <1>0 DEF destTypeToggle, TypeOK
  <2> QED
    BY <1>10, <1>0, <2>1
       DEF destTypeToggle, primaryVars, formVars, solVars, sempVars, boxVars, nextVars,
           dialogVars, TypeOK
<1>17. CASE EditNames
  <2>1. named' \in BOOLEAN /\ next' \in BOOLEAN /\ forced' \in BOOLEAN
    BY <1>17, <1>0 DEF EditNames, TypeOK
  <2> QED
    BY <1>17, <1>0, <2>1
       DEF EditNames, primaryVars, formVars, solVars, sempVars, boxVars, dialogVars, TypeOK
<1>11. ASSUME NEW v \in Vpns, btnDestPick(v)
       PROVE  TypeOK'
  <2>1. CASE v # form.vpn
    <3>1. form' \in [host : Brokers \cup {Blank}, vpn : Vpns \cup {Blank}]
      <4> DEFINE f == [form EXCEPT !.vpn = v]
      <4>1. f \in [host : Brokers \cup {Blank}, vpn : Vpns \cup {Blank}]
        BY <1>0 DEF TypeOK
      <4>2. syncDestFormFromSnapshot(f) /\ sol' = sol /\ sempHost' = sempHost
        BY <1>11, <2>1 DEF btnDestPick, Refresh, primaryVars
      <4> HIDE DEF f
      <4> QED
        BY <4>1, <4>2, <1>0, Synced DEF TypeOK
    <3>2. sameBroker' \in BOOLEAN /\ sameVpn' \in BOOLEAN
      BY <1>11, <2>1, <1>0 DEF btnDestPick, TypeOK
    <3>3. /\ hostLocked' \in BOOLEAN /\ vpnLocked' \in BOOLEAN /\ boxChecked' \in BOOLEAN
          /\ boxDisabled' \in BOOLEAN /\ pickVisible' \in BOOLEAN
          /\ next' \in BOOLEAN /\ forced' \in BOOLEAN /\ slipped' \in BOOLEAN
      BY <1>11, <2>1, <3>2 DEF btnDestPick, Refresh
    <3> QED
      BY <1>11, <1>0, <3>1, <3>2, <3>3
         DEF btnDestPick, primaryVars, solVars, sempVars, dialogVars, TypeOK
  <2>2. CASE v = form.vpn
    BY <1>11, <2>2, <1>0
       DEF btnDestPick, primaryVars, solVars, sempVars, boxVars, dialogVars, TypeOK
  <2> QED
    BY <2>1, <2>2
<1>12. CASE openCopyModal
  <2>1. form \in Places /\ sol \in Places /\ sempHost \in Brokers \cup {None}
    BY <1>12, <1>0 DEF openCopyModal, FormReachable, Shape, Filled, TypeOK
  <2>2. buildDestSummary \in [host : Brokers \cup {None}, vpn : Vpns]
    BY <2>1 DEF buildDestSummary, Places
  <2> QED
    BY <1>12, <1>0, <2>2
       DEF openCopyModal, primaryVars, formVars, solVars, sempVars, gateVars, boxVars, nextVars,
           TypeOK
<1>13. CASE CancelCloses
  BY <1>13, <1>0
     DEF CancelCloses, primaryVars, formVars, solVars, sempVars, gateVars, boxVars, nextVars, TypeOK
<1>14. CASE handleModalStart
  <2>1. sol \in Places /\ sol.host \in Brokers
    BY <1>14, <1>0 DEF handleModalStart, TypeOK, Places
  <2>2. destSession # None => placeOf[destSession] \in Places
    BY <1>0 DEF Shape, DestKept, PlacesKnown, TypeOK
  <2>3. run' \in Runs
    <3>1. sameBroker \in BOOLEAN /\ sameVpn \in BOOLEAN /\ (destSession = None) \in BOOLEAN
      BY <1>0 DEF TypeOK
    <3> QED
      BY <1>14, <2>1, <2>2, <3>1 DEF handleModalStart, Runs
  <2>4. /\ hostLocked' \in BOOLEAN /\ vpnLocked' \in BOOLEAN /\ boxDisabled' \in BOOLEAN
        /\ next' \in BOOLEAN /\ forced' \in BOOLEAN /\ slipped' \in BOOLEAN
    BY <1>14 DEF handleModalStart
  <2> QED
    BY <1>14, <1>0, <2>3, <2>4
       DEF handleModalStart, primaryVars, formVars, solVars, sempVars, TypeOK
<1>15. CASE RunEnds
  <2>1. /\ hostLocked' \in BOOLEAN /\ vpnLocked' \in BOOLEAN /\ boxDisabled' \in BOOLEAN
        /\ next' \in BOOLEAN /\ forced' \in BOOLEAN
    BY <1>15 DEF RunEnds
  <2> QED
    BY <1>15, <1>0, <2>1
     DEF RunEnds, primaryVars, formVars, solVars, sempVars, TypeOK
<1>16. CASE UNCHANGED vars
  BY <1>16, <1>0
     DEF vars, primaryVars, formVars, solVars, sempVars, gateVars, boxVars, nextVars, dialogVars,
         TypeOK
<1> QED
  BY <1>1, <1>2, <1>3, <1>4, <1>5, <1>6, <1>7, <1>8, <1>9, <1>10, <1>11, <1>12, <1>13, <1>14,
     <1>15, <1>16, <1>17, <1>18 DEF Next
-----------------------------------------------------------------------------
\* The SDK sessions and what is known of them, under each way they change.
Known == OneLive /\ DestKept /\ PlacesKnown /\ SessionUsed

LEMMA KnownStep == IInv /\ [Next]_vars => Known'
<1> SUFFICES ASSUME IInv, [Next]_vars
             PROVE  Known'
  OBVIOUS
<1> USE DestinationAssumption, NoneIsNoSession
<1>0. Known /\ TypeOK /\ Shape
  BY DEF IInv, Shape, Known
<1>s. ASSUME UNCHANGED <<sdk, placeOf, session, destSession>>
      PROVE  Known'
  BY <1>0, <1>s DEF Known, OneLive, DestKept, PlacesKnown, SessionUsed
<1>d. /\ Disconnected \in [Sessions -> {"unused", "connecting", "up", "closing", "gone"}]
      /\ \A s \in Sessions : Disconnected[s] \notin {"connecting", "up"}
      /\ \A s \in Sessions : Disconnected[s] # "unused" => sdk[s] # "unused"
      /\ session # None => Disconnected[session] = "closing"
      /\ \A s \in Sessions : s # session => Disconnected[s] = sdk[s]
  <2>1. CASE session = None
    BY <1>0, <2>1 DEF Disconnected, Known, OneLive, SessionUsed, TypeOK
  <2>2. CASE session \in Sessions
    BY <1>0, <2>2 DEF Disconnected, Known, OneLive, SessionUsed, TypeOK
  <2> QED
    BY <1>0, <2>1, <2>2 DEF TypeOK
<1>e. ASSUME sdk' = Disconnected, UNCHANGED <<placeOf, session, destSession>>
      PROVE  Known'
  <2>1. OneLive'
    BY <1>d, <1>e DEF OneLive
  <2>2. DestKept'
    BY <1>0, <1>d, <1>e DEF Known, DestKept, TypeOK
  <2>3. PlacesKnown'
    BY <1>0, <1>d, <1>e DEF Known, PlacesKnown
  <2>4. SessionUsed'
    BY <1>d, <1>e DEF SessionUsed
  <2> QED
    BY <2>1, <2>2, <2>3, <2>4 DEF Known
<1>1. CASE btnDestSolConnect
  <2>1. CASE btnSol = "Disconnect"
    BY <1>1, <2>1, <1>e DEF btnDestSolConnect
  <2>2. CASE btnSol # "Disconnect"
    <3>1. form \in Places /\ destSession' = destSession
      BY <1>1, <1>0 DEF btnDestSolConnect, Shape, Filled, FormReachable
    <3>2. PICK s \in Sessions :
            /\ Fresh(s)
            /\ placeOf' = [placeOf EXCEPT ![s] = form]
            /\ \/ sdk' = [Disconnected EXCEPT ![s] = "connecting"] /\ session' = s
               \/ sdk' = [Disconnected EXCEPT ![s] = "gone"] /\ session' = None
      BY <1>1, <2>2 DEF btnDestSolConnect, connectDestSol
    <3>3. sdk[s] = "unused"
      BY <3>2 DEF Fresh
    <3>4. OneLive'
      BY <1>d, <3>2 DEF OneLive
    <3>5. DestKept'
      <4>1. destSession # None => destSession \in Sessions /\ Disconnected[destSession] = "closing"
                                  /\ destSession # s
        BY <1>0, <1>d, <3>3 DEF Known, DestKept, TypeOK
      <4> QED
        BY <4>1, <1>d, <3>1, <3>2 DEF DestKept
    <3>6. PlacesKnown'
      BY <1>0, <1>d, <3>1, <3>2 DEF Known, PlacesKnown, TypeOK
    <3>7. SessionUsed'
      BY <1>d, <3>2 DEF SessionUsed
    <3> QED
      BY <3>4, <3>5, <3>6, <3>7 DEF Known
  <2> QED
    BY <2>1, <2>2
<1>2. ASSUME NEW s \in Sessions, UpNotice(s)
      PROVE  Known'
  <2>1. s = session
    BY <1>2, <1>0 DEF UpNotice, Known, OneLive
  <2> QED
    BY <1>2, <2>1, <1>0 DEF UpNotice, Known, OneLive, DestKept, PlacesKnown, SessionUsed, TypeOK
<1>c. ASSUME NEW s \in Sessions, Cleanup(s)
      PROVE  OneLive' /\ SessionUsed' /\ (sdk[s] # "unused" => PlacesKnown')
  BY <1>c, <1>0 DEF Cleanup, Known, OneLive, PlacesKnown, SessionUsed, TypeOK
<1>3. ASSUME NEW s \in Sessions, ConnectFailed(s)
      PROVE  Known'
  <2>1. s = session /\ sdk[s] = "connecting" /\ destSession' = destSession
    BY <1>3, <1>0 DEF ConnectFailed, Known, OneLive
  <2>2. DestKept'
    BY <1>3, <2>1, <1>0 DEF ConnectFailed, Cleanup, Known, DestKept, TypeOK
  <2> QED
    BY <1>3, <1>c, <2>1, <2>2 DEF ConnectFailed, Known
<1>4. ASSUME NEW s \in Sessions, SessionDisconnected(s)
      PROVE  Known'
  BY <1>4, <1>c DEF SessionDisconnected, Cleanup, Known, DestKept
<1>5. CASE Toggle
  BY <1>5, <1>e, <1>s DEF Toggle, disposeDestSol
<1>6. CASE PrimaryEvent \/ VpnSwitched \/ btnDestSempConnect \/ SempAnswers \/ EditPlace
           \/ destTypeToggle \/ EditNames \/ (\E v \in Vpns : btnDestPick(v))
           \/ openCopyModal \/ CancelCloses \/ handleModalStart \/ RunEnds \/ UNCHANGED vars
  BY <1>6, <1>s DEF PrimaryEvent, VpnSwitched, btnDestSempConnect, SempAnswers, EditPlace,
                    destTypeToggle, EditNames, btnDestPick, openCopyModal, CancelCloses,
                    handleModalStart, RunEnds, vars, solVars
<1> QED
  BY <1>1, <1>2, <1>3, <1>4, <1>5, <1>6 DEF Next

-----------------------------------------------------------------------------
\* The rest of the shape: the form and the run.
LEMMA FilledStep == IInv /\ [Next]_vars => Filled'
<1> SUFFICES ASSUME IInv, [Next]_vars
             PROVE  Filled'
  OBVIOUS
<1> USE DestinationAssumption
<1>0. /\ TypeOK /\ Filled
      /\ form \in [host : Brokers \cup {Blank}, vpn : Vpns \cup {Blank}]
  BY DEF IInv, Shape, TypeOK
<1>s. ASSUME UNCHANGED <<sol, form, sameBroker, sameVpn>>
      PROVE  Filled'
  BY <1>0, <1>s DEF Filled, Same
<1>1. CASE PrimaryEvent
  <2>1. /\ sol' \in Places \cup {None} /\ sempHost' \in Brokers \cup {None}
        /\ UNCHANGED <<sameBroker, sameVpn>> /\ syncDestFormFromSnapshot(form)
    BY <1>1, <1>0 DEF PrimaryEvent, Refresh, TypeOK
  <2>2. primaryHost' \in Brokers \cup {None} /\ (sol' # None => primaryHost' # None)
    BY <2>1, NoneIsNoPlace DEF primaryHost, Places
  <2>3. /\ form' \in [host : Brokers \cup {Blank}, vpn : Vpns \cup {Blank}]
        /\ ~(sameBroker /\ primaryHost' # None) => form' = form
        /\ sameBroker /\ primaryHost' # None => form'.host = primaryHost'
        /\ sameBroker /\ primaryHost' # None /\ ~sameVpn => form'.vpn = form.vpn
        /\ sameBroker /\ primaryHost' # None /\ sameVpn /\ sol' # None => form'.vpn = sol'.vpn
    BY <2>1, <1>0, Synced
  <2>4. ASSUME sol' # None \/ ~Same
        PROVE  form' \in Places
    <3>3. CASE sameBroker /\ primaryHost' # None
      <4>1. form'.host \in Brokers
        BY <2>2, <2>3, <3>3
      <4>2. form'.vpn \in Vpns
        <5>1. CASE sameVpn
          BY <2>1, <2>3, <2>4, <3>3, <5>1 DEF Same, Places
        <5>2. CASE ~sameVpn
          BY <1>0, <2>3, <3>3, <5>2 DEF Filled, Same, Places
        <5> QED
          BY <5>1, <5>2
      <4> QED
        BY <2>3, <4>1, <4>2 DEF Places
    <3>4. CASE ~(sameBroker /\ primaryHost' # None)
      <4>1. ~Same
        BY <2>2, <2>4, <3>4 DEF Same
      <4> QED
        BY <1>0, <2>3, <3>4, <4>1 DEF Filled
    <3> QED
      BY <3>3, <3>4
  <2> QED
    BY <2>1, <2>4 DEF Filled, Same
<1>2. CASE Toggle \/ \E v \in Vpns : btnDestPick(v) /\ v # form.vpn
  <2>1. PICK f \in [host : Brokers \cup {Blank}, vpn : Vpns \cup {Blank}] :
          f \in Places /\ syncDestFormFromSnapshot(f)
    <3>1. form \in Places
      BY <1>2, <1>0 DEF Toggle, btnDestPick, FormReachable, Filled
    <3>2. CASE Toggle
      BY <1>0, <3>1, <3>2 DEF Toggle, Refresh
    <3>3. CASE \E v \in Vpns : btnDestPick(v) /\ v # form.vpn
      <4>1. PICK v \in Vpns : btnDestPick(v) /\ v # form.vpn
        BY <3>3
      <4>2. [form EXCEPT !.vpn = v] \in Places
            /\ [form EXCEPT !.vpn = v] \in [host : Brokers \cup {Blank}, vpn : Vpns \cup {Blank}]
        BY <3>1 DEF Places
      <4> QED
        BY <4>1, <4>2 DEF btnDestPick, Refresh
    <3> QED
      BY <1>2, <3>2, <3>3
  <2>2. sol' = sol /\ sempHost' = sempHost /\ sol \in Places /\ sempHost \in Brokers \cup {None}
    BY <1>2, <1>0 DEF Toggle, btnDestPick, FormReachable, primaryVars, TypeOK
  <2>3. primaryHost' \in Brokers
    BY <2>2, NoneIsNoPlace DEF primaryHost, Places
  <2>4. form' \in Places
    BY <2>1, <2>2, <2>3, Synced, NoneIsNoPlace DEF Places
  <2> QED
    BY <2>4 DEF Filled
<1>3. CASE EditPlace
  <2>1. form \in Places
    BY <1>3, <1>0 DEF EditPlace, FormReachable, Filled
  <2>2. form' \in Places
    BY <1>3, <2>1 DEF EditPlace, Places
  <2> QED
    BY <2>2 DEF Filled
<1>4. ASSUME NEW v \in Vpns, btnDestPick(v), v = form.vpn
      PROVE  Filled'
  BY <1>4, <1>s DEF btnDestPick, primaryVars
<1>5. ASSUME NEW s \in Sessions, UpNotice(s) \/ ConnectFailed(s) \/ SessionDisconnected(s)
      PROVE  Filled'
  BY <1>5, <1>s DEF UpNotice, ConnectFailed, SessionDisconnected, primaryVars, formVars
<1>6. CASE VpnSwitched \/ btnDestSolConnect \/ btnDestSempConnect \/ SempAnswers
           \/ destTypeToggle \/ EditNames \/ openCopyModal \/ CancelCloses \/ handleModalStart
           \/ RunEnds \/ UNCHANGED vars
  BY <1>6, <1>s DEF VpnSwitched, btnDestSolConnect, btnDestSempConnect, SempAnswers,
                    destTypeToggle, EditNames, openCopyModal, CancelCloses, handleModalStart,
                    RunEnds, vars, primaryVars, formVars
<1> QED
  BY <1>1, <1>2, <1>3, <1>4, <1>5, <1>6 DEF Next

LEMMA RunStep == IInv /\ [Next]_vars => RunInDialog'
<1> SUFFICES ASSUME IInv, [Next]_vars
             PROVE  RunInDialog'
  OBVIOUS
<1>0. RunInDialog
  BY DEF IInv, Shape
<1>s. ASSUME UNCHANGED <<phase, run>>
      PROVE  RunInDialog'
  BY <1>0, <1>s DEF RunInDialog
<1>1. CASE openCopyModal \/ CancelCloses \/ handleModalStart \/ RunEnds
  BY <1>1, <1>0 DEF openCopyModal, CancelCloses, handleModalStart, RunEnds, FormReachable,
                    RunInDialog
<1>2. CASE PrimaryEvent \/ VpnSwitched \/ btnDestSolConnect \/ btnDestSempConnect
           \/ SempAnswers \/ Toggle \/ EditPlace \/ destTypeToggle \/ EditNames
           \/ (\E v \in Vpns : btnDestPick(v))
           \/ UNCHANGED vars
  BY <1>2, <1>s DEF PrimaryEvent, VpnSwitched, btnDestSolConnect, btnDestSempConnect,
                    SempAnswers, Toggle, EditPlace, destTypeToggle, EditNames, btnDestPick, vars,
                    dialogVars
<1>3. ASSUME NEW s \in Sessions, UpNotice(s) \/ ConnectFailed(s) \/ SessionDisconnected(s)
      PROVE  RunInDialog'
  BY <1>3, <1>s DEF UpNotice, ConnectFailed, SessionDisconnected, dialogVars
<1> QED
  BY <1>1, <1>2, <1>3 DEF Next

LEMMA UpStep == IInv /\ [Next]_vars => UpOffers'
<1> SUFFICES ASSUME IInv, [Next]_vars
             PROVE  UpOffers'
  OBVIOUS
<1> USE NoneIsNoSession
<1>0. TypeOK /\ DestKept /\ UpOffers
  BY DEF IInv, Shape
<1>d. \A s \in Sessions : s = session => Disconnected[s] = "closing"
  BY <1>0 DEF Disconnected, TypeOK
<1>s. ASSUME UNCHANGED <<sdk, session, btnSol>>
      PROVE  UpOffers'
  BY <1>0, <1>s DEF UpOffers
<1>1. CASE btnDestSolConnect
  <2>1. CASE btnSol = "Disconnect"
    BY <1>1, <2>1, <1>0 DEF btnDestSolConnect, UpOffers
  <2>2. CASE btnSol # "Disconnect"
    <3>1. PICK s \in Sessions :
            \/ sdk' = [Disconnected EXCEPT ![s] = "connecting"] /\ session' = s
            \/ session' = None
      BY <1>1, <2>2 DEF btnDestSolConnect, connectDestSol
    <3>2. Disconnected \in [Sessions -> {"unused", "connecting", "up", "closing", "gone"}]
      BY <1>0 DEF Disconnected, TypeOK
    <3> QED
      BY <3>1, <3>2 DEF UpOffers
  <2> QED
    BY <2>1, <2>2
<1>2. ASSUME NEW s \in Sessions, UpNotice(s) \/ ConnectFailed(s) \/ SessionDisconnected(s)
      PROVE  UpOffers'
  BY <1>2 DEF UpNotice, ConnectFailed, SessionDisconnected, Cleanup, UpOffers
<1>3. CASE Toggle
  <2>1. session' = session /\ sdk' = IF destSession # None THEN Disconnected ELSE sdk
    BY <1>3 DEF Toggle, disposeDestSol
  <2> QED
    BY <2>1, <1>0, <1>d DEF UpOffers, DestKept, TypeOK
<1>4. CASE PrimaryEvent \/ VpnSwitched \/ btnDestSempConnect \/ SempAnswers \/ EditPlace
           \/ destTypeToggle \/ EditNames \/ (\E v \in Vpns : btnDestPick(v))
           \/ openCopyModal \/ CancelCloses \/ handleModalStart \/ RunEnds \/ UNCHANGED vars
  BY <1>4, <1>s DEF PrimaryEvent, VpnSwitched, btnDestSempConnect, SempAnswers, EditPlace,
                    destTypeToggle, EditNames, btnDestPick, openCopyModal, CancelCloses,
                    handleModalStart, RunEnds, vars, solVars
<1> QED
  BY <1>1, <1>2, <1>3, <1>4 DEF Next

\* The buttons stay backed: only the session in use can come up or fail.
LEMMA ButtonsStep == IInv /\ [Next]_vars => ButtonsAreBacked'
<1> SUFFICES ASSUME IInv, [Next]_vars
             PROVE  ButtonsAreBacked'
  OBVIOUS
<1> USE DestinationAssumption, NoneIsNoSession
<1>0. TypeOK /\ OneLive /\ ButtonsAreBacked
  BY DEF IInv, Shape
<1>s. ASSUME UNCHANGED <<sdk, session, destSession, btnSol, destSempCtx, probes, btnSemp>>
      PROVE  ButtonsAreBacked'
  BY <1>0, <1>s DEF ButtonsAreBacked
<1>1. CASE btnDestSolConnect
  <2>1. CASE btnSol = "Disconnect"
    BY <1>1, <2>1, <1>0 DEF btnDestSolConnect, Disconnected, sempVars, ButtonsAreBacked, TypeOK
  <2>2. CASE btnSol # "Disconnect"
    <3>1. PICK s \in Sessions :
            \/ /\ sdk' = [Disconnected EXCEPT ![s] = "connecting"] /\ session' = s
               /\ btnSol' = "Connecting"
            \/ btnSol' = "Connect"
      BY <1>1, <2>2 DEF btnDestSolConnect, connectDestSol
    <3>2. Disconnected \in [Sessions -> {"unused", "connecting", "up", "closing", "gone"}]
      BY <1>0 DEF Disconnected, TypeOK
    <3> QED
      BY <1>1, <3>1, <3>2, <1>0 DEF btnDestSolConnect, sempVars, ButtonsAreBacked
  <2> QED
    BY <2>1, <2>2
<1>2. CASE btnDestSempConnect
  BY <1>2, <1>0 DEF btnDestSempConnect, sempDisconnected, solVars, ButtonsAreBacked, TypeOK
<1>3. CASE SempAnswers
  BY <1>3, <1>0 DEF SempAnswers, solVars, ButtonsAreBacked
<1>4. ASSUME NEW s \in Sessions, UpNotice(s)
      PROVE  ButtonsAreBacked'
  <2>1. s = session
    BY <1>4, <1>0 DEF UpNotice, OneLive
  <2> QED
    BY <1>4, <2>1, <1>0 DEF UpNotice, sempVars, ButtonsAreBacked, TypeOK
<1>5. ASSUME NEW s \in Sessions, ConnectFailed(s) \/ SessionDisconnected(s)
      PROVE  ButtonsAreBacked'
  BY <1>5, <1>0 DEF ConnectFailed, SessionDisconnected, sempVars, ButtonsAreBacked
<1>6. CASE Toggle
  BY <1>6 DEF Toggle, sempDisconnected, disposeDestSol, ButtonsAreBacked
<1>7. CASE PrimaryEvent \/ VpnSwitched \/ EditPlace \/ destTypeToggle \/ EditNames
           \/ (\E v \in Vpns : btnDestPick(v)) \/ openCopyModal \/ CancelCloses
           \/ handleModalStart \/ RunEnds \/ UNCHANGED vars
  BY <1>7, <1>s DEF PrimaryEvent, VpnSwitched, EditPlace, destTypeToggle, EditNames, btnDestPick,
                    openCopyModal, CancelCloses, handleModalStart, RunEnds, vars, solVars, sempVars
<1> QED
  BY <1>1, <1>2, <1>3, <1>4, <1>5, <1>6, <1>7 DEF Next

\* Whatever refreshes the two gates leaves them right.
LEMMA Refreshed ==
  /\ refreshDestPickVisible =>
       (pickVisible' <=> isQueue' /\ IF sameBroker' THEN sempHost' # None ELSE destSempCtx')
  /\ refreshStartEnabled => (next' <=> named' /\ (sameVpn' \/ destSession' # None))
  BY DEF refreshDestPickVisible, refreshStartEnabled, SempReady

\* The three conjuncts of GatesAreFresh.
PickFresh == pickVisible <=> isQueue /\ (IF sameBroker THEN sempHost # None ELSE destSempCtx)
NextFresh == ~forced => (next <=> named /\ (sameVpn \/ destSession # None))
BoxFresh == boxChecked => Same

LEMMA GatesStep == IInv /\ [Next]_vars => GatesAreFresh'
<1> SUFFICES ASSUME IInv, [Next]_vars
             PROVE  PickFresh' /\ NextFresh' /\ BoxFresh'
  BY DEF GatesAreFresh, PickFresh, NextFresh, BoxFresh
<1>0. PickFresh /\ NextFresh /\ BoxFresh
  BY DEF IInv, GatesAreFresh, PickFresh, NextFresh, BoxFresh
<1>p. /\ refreshDestPickVisible => PickFresh'
      /\ UNCHANGED <<pickVisible, isQueue, sameBroker, sempHost, destSempCtx>> => PickFresh'
  BY <1>0, Refreshed DEF PickFresh
<1>n. /\ refreshStartEnabled => NextFresh'
      /\ UNCHANGED <<next, forced, named, sameVpn, destSession>> => NextFresh'
      /\ forced' = TRUE => NextFresh'
  BY <1>0, Refreshed DEF NextFresh
<1>v. UNCHANGED <<boxChecked, sameVpn, sameBroker>> => BoxFresh'
  BY <1>0 DEF BoxFresh, Same
<1>b. ASSUME UNCHANGED <<sameVpn, sameBroker>>, applyDestPrefill(boxChecked)
      PROVE  BoxFresh'
  <2>1. boxChecked' => boxChecked
    BY <1>b DEF applyDestPrefill
  <2> QED
    BY <2>1, <1>b, <1>0 DEF BoxFresh, Same
<1>1. CASE PrimaryEvent
  BY <1>1, <1>p, <1>n, <1>b DEF PrimaryEvent, Refresh
<1>16. CASE VpnSwitched
  BY <1>16, <1>p, <1>n, <1>v DEF VpnSwitched, primaryVars, formVars, sempVars, boxVars
<1>2. CASE btnDestSolConnect
  BY <1>2, <1>p, <1>n, <1>v
     DEF btnDestSolConnect, primaryVars, formVars, sempVars, gateVars, boxVars, nextVars
<1>3. CASE btnDestSempConnect
  <2>1. NextFresh' /\ BoxFresh'
    BY <1>3, <1>n, <1>v, <1>b DEF btnDestSempConnect, formVars, solVars, boxVars, nextVars
  <2>2. PickFresh'
    BY <1>3, <1>p DEF btnDestSempConnect, primaryVars, formVars
  <2> QED
    BY <2>1, <2>2
<1>4. CASE SempAnswers
  <2>1. NextFresh' /\ BoxFresh'
    BY <1>4, <1>n, <1>v DEF SempAnswers, formVars, solVars, boxVars, nextVars
  <2>2. PickFresh'
    BY <1>4, <1>p DEF SempAnswers, primaryVars, formVars
  <2> QED
    BY <2>1, <2>2
<1>5. ASSUME NEW s \in Sessions, UpNotice(s)
      PROVE  PickFresh' /\ NextFresh' /\ BoxFresh'
  BY <1>5, <1>p, <1>n, <1>v DEF UpNotice, formVars, boxVars
<1>6. ASSUME NEW s \in Sessions, ConnectFailed(s)
      PROVE  PickFresh' /\ NextFresh' /\ BoxFresh'
  BY <1>6, <1>p, <1>n, <1>v
     DEF ConnectFailed, primaryVars, formVars, sempVars, gateVars, boxVars, nextVars
<1>7. ASSUME NEW s \in Sessions, SessionDisconnected(s)
      PROVE  PickFresh' /\ NextFresh' /\ BoxFresh'
  BY <1>7, <1>p, <1>n, <1>b DEF SessionDisconnected, formVars
<1>8. CASE Toggle
  <2>1. BoxFresh'
    <3>1. CASE sameBroker' = ~sameBroker /\ sameVpn' = (sameVpn /\ sameBroker')
               /\ Refresh(form, boxChecked)
      BY <1>0, <3>1 DEF Refresh, applyDestPrefill, BoxFresh, Same
    <3>2. CASE sameVpn' = ~boxChecked /\ UNCHANGED sameBroker /\ Refresh(form, ~boxChecked)
      BY <3>2 DEF Refresh, applyDestPrefill, BoxFresh, Same
    <3> QED
      BY <1>8, <3>1, <3>2 DEF Toggle
  <2> QED
    BY <1>8, <2>1, <1>p, <1>n DEF Toggle, Refresh
<1>9. CASE EditPlace
  BY <1>9, <1>p, <1>n, <1>v DEF EditPlace, primaryVars, solVars, sempVars, gateVars, boxVars,
                                nextVars
<1>10. CASE destTypeToggle
  BY <1>10, <1>p, <1>n, <1>v DEF destTypeToggle, formVars, solVars, boxVars, nextVars
<1>11. CASE EditNames
  BY <1>11, <1>p, <1>n, <1>v DEF EditNames, primaryVars, formVars, sempVars, boxVars
<1>12. ASSUME NEW w \in Vpns, btnDestPick(w)
       PROVE  PickFresh' /\ NextFresh' /\ BoxFresh'
  <2>1. CASE w # form.vpn
    <3>1. BoxFresh'
      BY <1>12, <2>1, <1>0 DEF btnDestPick, Refresh, applyDestPrefill, BoxFresh, Same
    <3> QED
      BY <1>12, <2>1, <3>1, <1>p, <1>n DEF btnDestPick, Refresh
  <2>2. CASE w = form.vpn
    BY <1>12, <2>2, <1>p, <1>n, <1>v DEF btnDestPick, primaryVars, sempVars, boxVars
  <2> QED
    BY <2>1, <2>2
<1>13. CASE openCopyModal \/ CancelCloses
  BY <1>13, <1>p, <1>n, <1>v
     DEF openCopyModal, CancelCloses, primaryVars, formVars, solVars, sempVars, gateVars, boxVars,
         nextVars
<1>14. CASE handleModalStart \/ RunEnds
  <2>1. forced' = TRUE /\ UNCHANGED <<boxChecked, sameVpn, sameBroker>>
    BY <1>14 DEF handleModalStart, RunEnds, formVars
  <2>2. UNCHANGED <<pickVisible, isQueue, sameBroker, sempHost, destSempCtx>>
    BY <1>14 DEF handleModalStart, RunEnds, primaryVars, formVars, sempVars
  <2> QED
    BY <2>1, <2>2, <1>p, <1>n, <1>v
<1>15. CASE UNCHANGED vars
  BY <1>15, <1>p, <1>n, <1>v DEF vars, primaryVars, formVars, solVars, sempVars, gateVars, boxVars,
                                 nextVars
<1> QED
  BY <1>1, <1>2, <1>3, <1>4, <1>5, <1>6, <1>7, <1>8, <1>9, <1>10, <1>11, <1>12, <1>13, <1>14,
     <1>15, <1>16 DEF Next

\* The inductive invariant.
THEOREM Invariant == Spec => []IInv
<1>1. Init => IInv
  <2>1. ASSUME Init
        PROVE  TypeOK
    <3>1. form \in [host : Brokers \cup {Blank}, vpn : Vpns \cup {Blank}]
      BY <2>1 DEF Init
    <3>2. /\ boxChecked \in BOOLEAN /\ boxDisabled \in BOOLEAN /\ sameBroker \in BOOLEAN
          /\ sameVpn \in BOOLEAN /\ isQueue \in BOOLEAN /\ named \in BOOLEAN
          /\ destSempCtx \in BOOLEAN /\ hostLocked \in BOOLEAN /\ vpnLocked \in BOOLEAN
          /\ next \in BOOLEAN /\ pickVisible \in BOOLEAN /\ forced \in BOOLEAN
          /\ slipped \in BOOLEAN
      BY <2>1 DEF Init
    <3>3. /\ sdk \in [Sessions -> {"unused", "connecting", "up", "closing", "gone"}]
          /\ placeOf \in [Sessions -> Places \cup {None}] /\ probes \in 0..MaxProbes
      BY <2>1, DestinationAssumption DEF Init
    <3> QED
      BY <2>1, <3>1, <3>2, <3>3 DEF Init, TypeOK
  <2>2. Init => Shape
    BY DestinationAssumption
       DEF Init, Shape, OneLive, DestKept, Filled, PlacesKnown, SessionUsed,
           RunInDialog, UpOffers, Same
  <2>3. Init => ButtonsAreBacked
    BY DEF Init, ButtonsAreBacked
  <2>4. Init => GatesAreFresh
    BY DEF Init, GatesAreFresh, Same
  <2> QED
    BY <2>1, <2>2, <2>3, <2>4 DEF IInv
<1>2. IInv /\ [Next]_vars => IInv'
  BY TypeStep, KnownStep, FilledStep, RunStep, UpStep, ButtonsStep, GatesStep
     DEF IInv, Shape, Known
<1> QED
  BY <1>1, <1>2, PTL DEF Spec

\* Every variable keeps its type.
THEOREM TypeCorrect == Spec => []TypeOK
<1>1. IInv => TypeOK
  BY DEF IInv
<1> QED
  BY <1>1, Invariant, PTL

\* No Connect button gets stuck, whatever events of old sessions come in.
THEOREM ButtonsBacked == Spec => []ButtonsAreBacked
<1>1. IInv => ButtonsAreBacked
  BY DEF IInv
<1> QED
  BY <1>1, Invariant, PTL

\* Next and Pick say what the form and the connections say.
THEOREM GatesFresh == Spec => []GatesAreFresh
<1>1. IInv => GatesAreFresh
  BY DEF IInv
<1> QED
  BY <1>1, Invariant, PTL

-----------------------------------------------------------------------------
LEMMA TuneStep == IInv /\ IInv' /\ InTune /\ [Next]_vars => InTune'
<1> SUFFICES ASSUME IInv, IInv', InTune, [Next]_vars, ~slipped'
             PROVE  Parts'
  BY DEF InTune
<1> USE DestinationAssumption, NoneIsNoSession, NoneIsNoPlace
<1>0. /\ TypeOK /\ OneLive /\ DestKept /\ Filled /\ SessionUsed /\ RunInDialog /\ UpOffers
      /\ ButtonsAreBacked
      /\ NextFresh' /\ TypeOK' /\ RunInDialog'
      /\ form \in [host : Brokers \cup {Blank}, vpn : Vpns \cup {Blank}]
      /\ sol \in Places \cup {None} /\ sempHost \in Brokers \cup {None}
  BY DEF IInv, Shape, GatesAreFresh, NextFresh, TypeOK
<1>h. sol # None => primaryHost = sol.host /\ primaryHost # None
  BY <1>0, PrimaryTyped
<1>i. ~slipped => Parts
  BY DEF InTune
<1> DEFINE formSame == UNCHANGED <<sol, sempHost, form, sameBroker, sameVpn>>
           sdkSame == UNCHANGED <<sdk, placeOf, session, destSession>>
           dialogSame == UNCHANGED <<phase, shown, run>>
<1>f. ~slipped /\ formSame /\ (btnSol' = "Connect" => btnSol = "Connect") => FormAgrees'
  BY <1>i DEF Parts, FormAgrees, Agrees, Same, primaryHost
<1>p. applyDestPrefill(boxChecked) \/ applyDestPrefill(~boxChecked) => HostIsLocked'
  BY DEF applyDestPrefill, HostIsLocked
<1>g. ASSUME ~slipped, UNCHANGED <<sameBroker, sameVpn>>, HostIsLocked' \/ hostLocked' = hostLocked,
             btnSol = "Disconnect" => btnSol' = "Disconnect", phase' = phase \/ phase' # "run"
      PROVE  HostGuarded'
  BY <1>g, <1>i DEF Parts, HostGuarded, HostIsLocked, RunHasSession
<1>a. ~slipped /\ formSame /\ sdkSame => AskedFor'
  BY <1>i DEF Parts, AskedFor, Agrees, InUse, Same, primaryHost
<1>r. RunTold /\ dialogSame => RunTold'
  BY DEF RunTold, Misled
<1>t. ~slipped /\ formSame /\ dialogSame => DialogTells' /\ RunTold'
  BY <1>i, <1>r DEF Parts, DialogTells, Same
<1>q. run' = None => RunTold'
  BY DEF RunTold
<1>n. /\ refreshStartEnabled /\ phase' = "form" => NextHasSession'
      /\ ~slipped /\ UNCHANGED <<next, phase, sameVpn, destSession>> => NextHasSession'
  <2>1. refreshStartEnabled => (next' <=> named' /\ (sameVpn' \/ destSession' # None))
    BY Refreshed
  <2> QED
    BY <1>i, <1>0, <2>1 DEF Parts, NextHasSession
<1>1. CASE btnDestSolConnect
  <2>1. /\ ~slipped /\ formSame /\ dialogSame /\ UNCHANGED <<next, destSession, hostLocked>>
        /\ FormReachable /\ ~Same /\ btnSol # "Connecting"
        /\ btnSol = "Disconnect" => btnSol' = "Disconnect"
    BY <1>1 DEF btnDestSolConnect, Slip, primaryVars, formVars, gateVars, boxVars, nextVars,
                dialogVars
  <2>2. AskedFor'
    <3>1. CASE btnSol = "Disconnect"
      <4>1. sdk' = Disconnected /\ session' = session
        BY <1>1, <3>1 DEF btnDestSolConnect
      <4> QED
        BY <4>1, <1>0 DEF AskedFor, InUse, Disconnected, TypeOK
    <3>2. CASE btnSol # "Disconnect"
      <4>1. PICK s \in Sessions :
              /\ placeOf' = [placeOf EXCEPT ![s] = form]
              /\ session' \in {s, None}
        BY <1>1, <3>2 DEF btnDestSolConnect, connectDestSol
      <4>2. Agrees
        BY <2>1, <3>2, <1>0, <1>i, <1>h DEF Parts, FormAgrees, FormReachable, TypeOK
      <4>3. session' # None => placeOf'[session'] = form'
        BY <2>1, <4>1, <1>0 DEF TypeOK
      <4> QED
        BY <2>1, <4>2, <4>3 DEF AskedFor, InUse, Same, Agrees, primaryHost
    <3> QED
      BY <3>1, <3>2
  <2> QED
    BY <2>1, <2>2, <1>0, <1>f, <1>g, <1>t, <1>n DEF Parts, TypeOK
<1>2. CASE PrimaryEvent
  <2> DEFINE moved == sol' # sol \/ primaryHost' # primaryHost
  <2>1. /\ UNCHANGED <<sameBroker, sameVpn, sdk, placeOf, session, destSession, phase, shown, run>>
        /\ syncDestFormFromSnapshot(form) /\ refreshStartEnabled /\ HostIsLocked'
        /\ UNCHANGED btnSol /\ sol' \in Places \cup {None} /\ sempHost' \in Brokers \cup {None}
    BY <1>2, <1>0, <1>p DEF PrimaryEvent, Refresh, solVars, dialogVars
  <2>2. \/ ~InUse /\ phase = "form"
        \/ ~slipped /\ ~(sameBroker /\ moved /\ (InUse \/ phase = "confirm"))
    BY <1>2, <2>1 DEF PrimaryEvent, SlipUnlessSettled, InUse
  <2>3. /\ sameBroker /\ primaryHost' # None => form'.host = primaryHost'
        /\ sameBroker /\ primaryHost' # None /\ ~sameVpn => form'.vpn = form.vpn
        /\ ~(sameBroker /\ primaryHost' # None) => form' = form
        /\ form' \in [host : Brokers \cup {Blank}, vpn : Vpns \cup {Blank}]
    BY <2>1, <1>0, Synced
  <2>4. FormAgrees'
    BY <2>1, <2>3 DEF FormAgrees, Agrees
  <2>5. CASE ~InUse /\ phase = "form"
    <3>1. NextHasSession'
      BY <2>1, <2>5, <1>n
    <3>2. run' = None
      BY <2>1, <2>5, <1>0 DEF RunInDialog
    <3>3. RunTold'
      BY <3>2, <1>q
    <3> QED
      BY <2>1, <2>4, <2>5, <3>1, <3>3
         DEF Parts, HostGuarded, RunHasSession, AskedFor, InUse, DialogTells
  <2>6. CASE ~slipped /\ ~(sameBroker /\ moved /\ (InUse \/ phase = "confirm"))
    <3>1. AskedFor'
      <4> SUFFICES ASSUME InUse
                   PROVE  ~Same' /\ Agrees' /\ placeOf'[session'] = form'
        BY <2>1 DEF AskedFor, InUse
      <4>1. ~Same /\ Agrees /\ placeOf[session] = form
        BY <2>6, <1>i DEF Parts, AskedFor
      <4>2. CASE ~sameBroker
        BY <2>1, <2>3, <4>1, <4>2 DEF Same, Agrees
      <4>3. CASE sameBroker
        <5>1. ~sameVpn /\ primaryHost' = primaryHost /\ form.host = primaryHost
          BY <2>6, <4>1, <4>3 DEF Same, Agrees
        <5>2. form' = form
          BY <2>3, <4>3, <5>1, <1>0
        <5> QED
          BY <2>1, <4>1, <5>1, <5>2 DEF Same, Agrees
      <4> QED
        BY <4>2, <4>3, <1>0 DEF TypeOK
    <3>2. NextHasSession'
      <4>1. phase # "form" => sameVpn \/ destSession # None
        BY <2>6, <1>i DEF Parts, NextHasSession
      <4> QED
        BY <2>1, <4>1, <1>n DEF NextHasSession
    <3>3. DialogTells'
      <4> SUFFICES ASSUME phase = "confirm"
                   PROVE  /\ shown.vpn = IF Same' THEN sol'.vpn ELSE form'.vpn
                          /\ ~sameBroker => shown.host = form'.host
        BY <2>1 DEF DialogTells
      <4>1. /\ shown.vpn = IF Same THEN sol.vpn ELSE form.vpn
            /\ ~sameBroker => shown.host = form.host
        BY <2>6, <1>i DEF Parts, DialogTells
      <4>2. CASE ~sameBroker
        BY <2>1, <2>3, <4>1, <4>2 DEF Same
      <4>3. CASE sameBroker
        <5>1. sol' = sol /\ (~sameVpn => form'.vpn = form.vpn)
          BY <2>3, <2>6, <4>3
        <5> QED
          BY <2>1, <4>1, <4>3, <5>1 DEF Same
      <4> QED
        BY <4>2, <4>3
    <3>4. RunTold'
      BY <2>1, <2>6, <1>i, <1>r DEF Parts
    <3> QED
      BY <2>1, <2>4, <2>6, <3>1, <3>2, <3>3, <3>4, <1>g DEF Parts
  <2> QED
    BY <2>2, <2>5, <2>6
<1>16. CASE VpnSwitched
  <2>1. /\ ~slipped /\ formSame /\ dialogSame /\ sdkSame /\ refreshStartEnabled
        /\ UNCHANGED <<btnSol, hostLocked>>
    BY <1>16 DEF VpnSwitched, primaryVars, formVars, dialogVars, solVars
  <2>2. NextHasSession'
    <3>1. phase # "form" => sameVpn \/ destSession # None
      BY <2>1, <1>i DEF Parts, NextHasSession
    <3> QED
      BY <2>1, <3>1, <1>n DEF NextHasSession
  <2> QED
    BY <2>1, <2>2, <1>f, <1>g, <1>a, <1>t DEF Parts
<1>3. CASE btnDestSempConnect \/ SempAnswers \/ destTypeToggle
  <2>1. ~slipped /\ formSame /\ dialogSame /\ sdkSame /\ UNCHANGED <<next, btnSol>>
    BY <1>3 DEF btnDestSempConnect, SempAnswers, destTypeToggle, primaryVars, formVars, dialogVars,
                solVars, nextVars
  <2>2. HostIsLocked' \/ hostLocked' = hostLocked
    BY <1>3, <1>p DEF btnDestSempConnect, SempAnswers, destTypeToggle, HostIsLocked
  <2> QED
    BY <2>1, <2>2, <1>f, <1>g, <1>a, <1>t, <1>n DEF Parts
<1>4. ASSUME NEW s \in Sessions, UpNotice(s)
      PROVE  Parts'
  <2>1. /\ ~slipped /\ formSame /\ dialogSame /\ UNCHANGED <<placeOf, session>>
        /\ sdk[s] = "connecting" /\ sdk' = [sdk EXCEPT ![s] = "up"] /\ destSession' = session
        /\ btnSol' = "Disconnect" /\ HostIsLocked'
    BY <1>4 DEF UpNotice, HostIsLocked, primaryVars, formVars, dialogVars
  <2>2. s = session /\ InUse
    BY <2>1, <1>0 DEF OneLive, InUse
  <2>3. AskedFor'
    BY <2>1, <2>2, <1>i DEF Parts, AskedFor, InUse, Agrees, Same, primaryHost
  <2>4. NextHasSession'
    BY <2>1, <2>2 DEF NextHasSession
  <2> QED
    BY <2>1, <2>3, <2>4, <1>f, <1>g, <1>t DEF Parts
<1>5. ASSUME NEW s \in Sessions, ConnectFailed(s)
      PROVE  Parts'
  <2>1. /\ ~slipped /\ formSame /\ dialogSame /\ session' = None /\ sdk[s] = "connecting"
        /\ UNCHANGED <<next, destSession, hostLocked>>
    BY <1>5 DEF ConnectFailed, Cleanup, primaryVars, formVars, dialogVars, gateVars, boxVars,
                nextVars
  <2> QED
    <3>1. s = session
      BY <2>1, <1>0 DEF OneLive
    <3>2. Agrees /\ btnSol # "Disconnect"
      BY <2>1, <3>1, <1>0, <1>i DEF Parts, AskedFor, InUse, ButtonsAreBacked
    <3>3. FormAgrees'
      BY <2>1, <3>2 DEF FormAgrees, Agrees, primaryHost
    <3> QED
      BY <2>1, <3>2, <3>3, <1>g, <1>t, <1>n DEF Parts, AskedFor, InUse
<1>6. ASSUME NEW s \in Sessions, SessionDisconnected(s)
      PROVE  Parts'
  <2>1. /\ phase = "form" /\ (primaryHost # None => Agrees) /\ formSame /\ dialogSame
        /\ session' = None /\ refreshStartEnabled /\ HostIsLocked'
    BY <1>6, <1>p DEF SessionDisconnected, Cleanup, primaryVars, formVars, dialogVars
  <2>2. FormAgrees'
    BY <2>1 DEF FormAgrees, Agrees, primaryHost
  <2>3. RunTold'
    BY <2>1, <1>0, <1>q DEF RunInDialog
  <2> QED
    BY <2>1, <2>2, <2>3, <1>n
       DEF Parts, HostGuarded, RunHasSession, AskedFor, InUse, DialogTells
<1>7. CASE Toggle
  <2>1. /\ phase = "form" /\ dialogSame /\ UNCHANGED <<sol, sempHost, session>>
        /\ refreshStartEnabled /\ syncDestFormFromSnapshot(form)
        /\ sdk' = IF destSession # None THEN Disconnected ELSE sdk
        /\ ~(session # None /\ sdk[session] = "connecting") /\ HostIsLocked'
    BY <1>7, <1>p DEF Toggle, FormReachable, disposeDestSol, Refresh, primaryVars, dialogVars
  <2>2. FormAgrees'
    <3>1. sol' \in Places \cup {None} /\ sempHost' \in Brokers \cup {None}
      BY <2>1, <1>0
    <3> QED
      BY <2>1, <3>1, <1>0, Synced DEF FormAgrees, Agrees
  <2>3. ~InUse'
    <3>1. CASE destSession # None
      BY <2>1, <3>1, <1>0 DEF InUse, Disconnected, TypeOK
    <3>2. CASE destSession = None
      <4>1. session # None => sdk[session] # "up"
        BY <3>2, <1>0 DEF DestKept
      <4> QED
        BY <2>1, <3>2, <4>1 DEF InUse
    <3> QED
      BY <3>1, <3>2
  <2>4. RunTold'
    BY <2>1, <1>0, <1>q DEF RunInDialog
  <2> QED
    BY <2>1, <2>2, <2>3, <2>4, <1>n DEF Parts, HostGuarded, RunHasSession, AskedFor, DialogTells
<1>8. CASE EditPlace
  <2>1. /\ ~slipped /\ phase = "form" /\ dialogSame /\ sdkSame
        /\ UNCHANGED <<sol, sempHost, sameBroker, sameVpn, next, btnSol, hostLocked>> /\ ~InUse
        /\ \/ ~hostLocked
           \/ \E v \in Vpns : form' = [form EXCEPT !.vpn = v]
    BY <1>8 DEF EditPlace, FormReachable, Slip, primaryVars, dialogVars, solVars, gateVars, boxVars,
                nextVars
  <2>2. run' = None /\ ~InUse'
    BY <2>1, <1>0 DEF RunInDialog, InUse
  <2>3. FormAgrees'
    <3>1. CASE ~hostLocked
      BY <2>1, <3>1, <1>i DEF Parts, HostGuarded, HostIsLocked, FormAgrees, Agrees, Same
    <3>2. CASE \E v \in Vpns : form' = [form EXCEPT !.vpn = v]
      <4>1. form'.host = form.host
        BY <3>2, <1>0
      <4> QED
        BY <2>1, <4>1, <1>i DEF Parts, FormAgrees, Agrees, Same, primaryHost
    <3> QED
      BY <2>1, <3>1, <3>2
  <2> QED
    BY <2>1, <2>2, <2>3, <1>g, <1>n, <1>q DEF Parts, AskedFor, DialogTells
<1>9. CASE EditNames
  <2>1. /\ ~slipped /\ formSame /\ dialogSame /\ sdkSame /\ refreshStartEnabled /\ phase = "form"
        /\ UNCHANGED <<btnSol, hostLocked>>
    BY <1>9 DEF EditNames, FormReachable, primaryVars, formVars, dialogVars, solVars
  <2> QED
    BY <2>1, <1>f, <1>g, <1>a, <1>t, <1>n DEF Parts
<1>10. ASSUME NEW v \in Vpns, btnDestPick(v)
       PROVE  Parts'
  <2>1. CASE v # form.vpn
    <3> DEFINE f == [form EXCEPT !.vpn = v]
    <3>1. /\ phase = "form" /\ dialogSame /\ UNCHANGED <<sol, sempHost, sameBroker>>
          /\ sdkSame /\ refreshStartEnabled /\ syncDestFormFromSnapshot(f) /\ ~InUse'
          /\ HostIsLocked'
      BY <1>10, <2>1
         DEF btnDestPick, FormReachable, Refresh, applyDestPrefill, HostIsLocked,
             SlipUnlessSettled, primaryVars, dialogVars, solVars
    <3>2. FormAgrees'
      <4>1. /\ f \in [host : Brokers \cup {Blank}, vpn : Vpns \cup {Blank}]
            /\ sol' \in Places \cup {None} /\ sempHost' \in Brokers \cup {None}
        BY <3>1, <1>0
      <4> HIDE DEF f
      <4> QED
        BY <3>1, <4>1, Synced DEF FormAgrees, Agrees
    <3>3. RunTold'
      BY <3>1, <1>0, <1>q DEF RunInDialog
    <3> QED
      BY <3>1, <3>2, <3>3, <1>n DEF Parts, HostGuarded, RunHasSession, AskedFor, DialogTells
  <2>2. CASE v = form.vpn
    <3>1. /\ ~slipped /\ formSame /\ dialogSame /\ sdkSame /\ refreshStartEnabled
          /\ phase = "form" /\ UNCHANGED <<btnSol, hostLocked>>
      BY <1>10, <2>2 DEF btnDestPick, FormReachable, primaryVars, dialogVars, solVars
    <3> QED
      BY <3>1, <1>f, <1>g, <1>a, <1>t, <1>n DEF Parts
  <2> QED
    BY <2>1, <2>2
<1>11. CASE openCopyModal
  <2>1. /\ ~slipped /\ formSame /\ sdkSame /\ next /\ phase = "form" /\ run' = run
        /\ phase' = "confirm" /\ shown' = buildDestSummary /\ UNCHANGED <<btnSol, hostLocked>>
    BY <1>11 DEF openCopyModal, FormReachable, primaryVars, formVars, solVars, gateVars
  <2>2. DialogTells'
    BY <2>1 DEF DialogTells, buildDestSummary, Same
  <2>3. RunTold'
    BY <2>1, <1>0, <1>q DEF RunInDialog
  <2>4. NextHasSession'
    BY <2>1, <1>i DEF Parts, NextHasSession
  <2> QED
    BY <2>1, <2>2, <2>3, <2>4, <1>f, <1>g, <1>a DEF Parts
<1>12. CASE CancelCloses
  <2>1. /\ ~slipped /\ formSame /\ sdkSame /\ phase = "confirm" /\ phase' = "form"
        /\ UNCHANGED <<next, run, btnSol, hostLocked>>
    BY <1>12 DEF CancelCloses, primaryVars, formVars, solVars, gateVars, boxVars, nextVars
  <2>2. RunTold'
    BY <2>1, <1>0, <1>q DEF RunInDialog
  <2>3. NextHasSession'
    BY <2>1, <1>i DEF Parts, NextHasSession
  <2> QED
    BY <2>1, <2>2, <2>3, <1>f, <1>g, <1>a DEF Parts, DialogTells
<1>13. CASE handleModalStart
  <2>1. /\ ~slipped /\ formSame /\ sdkSame /\ phase = "confirm" /\ shown' = shown
        /\ phase' = "run" /\ sol # None
        /\ ~(destSession # None /\ sdk[destSession] = "closing")
        /\ HostIsLocked' /\ btnSol' = btnSol
    BY <1>13 DEF handleModalStart, Slip, HostIsLocked, primaryVars, formVars, solVars
  <2>2. /\ shown.vpn = IF Same THEN sol.vpn ELSE form.vpn
        /\ ~sameBroker => shown.host = form.host
        /\ sameVpn \/ destSession # None
    BY <2>1, <1>i DEF Parts, DialogTells, NextHasSession
  <2>3. /\ run'.to = IF destSession # None THEN placeOf[destSession] ELSE sol
        /\ run'.broker = sol.host /\ run'.sameBroker = sameBroker
        /\ (destSession = None /\ sameVpn /\ ~sameBroker) => Misled'
    BY <1>13 DEF handleModalStart, Misled
  <2>4. RunTold'
    <3>1. CASE destSession = None /\ ~sameBroker
      BY <2>2, <2>3, <3>1 DEF RunTold
    <3>2. CASE destSession = None /\ sameBroker
      BY <2>1, <2>2, <2>3, <3>2 DEF RunTold, Same
    <3>3. CASE destSession # None
      <4>1. InUse /\ destSession = session
        BY <2>1, <3>3, <1>0 DEF DestKept, InUse
      <4>2. ~Same /\ Agrees /\ placeOf[session] = form
        BY <2>1, <4>1, <1>i DEF Parts, AskedFor
      <4>3. run'.to = form /\ (sameBroker => form.host = sol.host)
        BY <2>1, <2>3, <3>3, <4>1, <4>2, <1>h DEF Agrees
      <4> QED
        BY <2>1, <2>2, <2>3, <4>2, <4>3 DEF RunTold
    <3> QED
      BY <3>1, <3>2, <3>3
  <2>5. NextHasSession'
    BY <2>1, <2>2 DEF NextHasSession
  <2>6. RunHasSession'
    BY <2>1, <2>2, <1>0 DEF RunHasSession, DestKept, UpOffers
  <2> QED
    BY <2>1, <2>4, <2>5, <2>6, <1>f, <1>a DEF Parts, HostGuarded, DialogTells
<1>14. CASE RunEnds
  <2>1. /\ ~slipped /\ formSame /\ sdkSame /\ phase = "run" /\ phase' = "form" /\ run' = None
        /\ btnSol' = btnSol
    BY <1>14 DEF RunEnds, primaryVars, formVars, solVars
  <2>2. NextHasSession'
    BY <2>1, <1>i DEF Parts, NextHasSession
  <2> QED
    BY <2>1, <2>2, <1>i, <1>f, <1>a, <1>q
       DEF Parts, HostGuarded, HostIsLocked, RunHasSession, DialogTells
<1>15. CASE UNCHANGED vars
  <2>1. /\ ~slipped /\ formSame /\ sdkSame /\ dialogSame
        /\ UNCHANGED <<next, btnSol, hostLocked>>
    BY <1>15 DEF vars, primaryVars, formVars, solVars, dialogVars, gateVars, boxVars, nextVars
  <2> QED
    BY <2>1, <1>f, <1>g, <1>a, <1>t, <1>n DEF Parts
<1> QED
  BY <1>1, <1>2, <1>3, <1>4, <1>5, <1>6, <1>7, <1>8, <1>9, <1>10, <1>11, <1>12, <1>13, <1>14,
     <1>15, <1>16 DEF Next

\* A run publishes where the dialog said, unless something slipped.
THEOREM PublishesRight == Spec => []PublishesWhereShown
<1>1. Init => InTune
  BY DestinationAssumption
     DEF Init, InTune, Parts, FormAgrees, HostGuarded, HostIsLocked, RunHasSession, AskedFor,
         NextHasSession, DialogTells, RunTold, InUse, Same, primaryHost
<1>2. InTune => PublishesWhereShown
  BY DEF InTune, Parts, RunTold, PublishesWhereShown
<1> QED
  BY <1>1, <1>2, TuneStep, Invariant, PTL DEF Spec
=============================================================================
