----------------------------- MODULE Destination -----------------------------
(***************************************************************************)
(* Where a queue copy publishes: the destination half of the copy page     *)
(* (queue-copy/module.ts, ui-events.ts, ui.ts).  Its form is filled in     *)
(* from the primary connection while "Same broker" or "Same VPN" is on; a  *)
(* session factory and a SEMP client of its own serve a destination        *)
(* elsewhere; and what the dialog shows at Next is worked out from the     *)
(* form, while a run takes whatever publisher there is when it starts.     *)
(*                                                                         *)
(* The dialog (module CopyModal) is reduced to confirming and running; a   *)
(* probe always lets the run start.  The primary connection (modules       *)
(* Connections, PrimarySemp) comes and goes at any time, each half for     *)
(* itself, and the halves may be on two brokers.  Of the form, the broker  *)
(* and the VPN are kept, which say where a session goes; `named' says that *)
(* both queue names are filled in.  Of the destination's SEMP it only      *)
(* matters whether there is a context.                                     *)
(*                                                                         *)
(* Bounds: the factory creates at most MaxSessions sessions, and at most   *)
(* MaxProbes SEMP connections are being validated.                         *)
(***************************************************************************)
EXTENDS Naturals

CONSTANTS Brokers, Vpns,
          Blank,        \* an empty field
          MaxSessions, MaxProbes, None

Places == [host : Brokers, vpn : Vpns]

ASSUME DestinationAssumption ==
  /\ Blank \notin Brokers \cup Vpns /\ None \notin Brokers \cup Vpns \cup Places
  /\ MaxSessions \in Nat /\ MaxProbes \in Nat /\ None \notin Nat

Sessions == 1..MaxSessions
Runs == [to : Places, broker : Brokers, viaPrimary : BOOLEAN,
         sameBroker : BOOLEAN, sameVpn : BOOLEAN]

VARIABLES
  \* the primary connection: where its session is, and which broker's SEMP is connected
  sol, sempHost,
  \* state.destForm, and dest.type is "queue"
  sameBroker, sameVpn, form, isQueue, named,
  boxChecked, boxDisabled,  \* the Same VPN checkbox
  \* the SDK sessions of the destination, and the factory's own one
  sdk, placeOf, session,
  destSession,  \* with destPublisher, which is set and cleared together with it
  destSempCtx,  \* there is one
  probes,       \* SEMP validations in flight
  btnSol, btnSemp,
  hostLocked, vpnLocked, next, pickVisible,
  forced,       \* history: a run set Next last
  phase,        \* the form, the dialog, or a run
  shown,        \* the destination the dialog shows
  run,          \* where the run in progress publishes, and on which settings
  slipped       \* history: see Slip

primaryVars == <<sol, sempHost>>
formVars == <<sameBroker, sameVpn, form>>
solVars == <<sdk, placeOf, session, destSession, btnSol>>
sempVars == <<destSempCtx, probes, btnSemp>>
boxVars == <<boxChecked, boxDisabled>>
nextVars == <<next, forced>>
gateVars == <<hostLocked, vpnLocked, boxVars, nextVars, pickVisible>>
dialogVars == <<phase, shown, run>>
vars == <<primaryVars, formVars, isQueue, named, solVars, sempVars, gateVars, dialogVars, slipped>>

Init ==
  /\ sol = None /\ sempHost = None
  /\ sameBroker = TRUE /\ sameVpn = TRUE /\ form = [host |-> Blank, vpn |-> Blank]
  /\ isQueue = TRUE /\ named = FALSE /\ boxChecked = TRUE /\ boxDisabled = FALSE
  /\ sdk = [s \in Sessions |-> "unused"] /\ placeOf = [s \in Sessions |-> None]
  /\ session = None /\ destSession = None
  /\ destSempCtx = FALSE /\ probes = 0
  /\ btnSol = "Connect" /\ btnSemp = "Connect"
  /\ hostLocked = TRUE /\ vpnLocked = TRUE /\ next = FALSE /\ pickVisible = FALSE
  /\ forced = FALSE
  /\ phase = "form" /\ shown = None /\ run = None /\ slipped = FALSE

\* The form shows while there is a primary session, and not behind the dialog.
FormReachable == sol # None /\ phase = "form"

\* The broker of the primary snapshot, None without one.
primaryHost == IF sol # None THEN sol.host ELSE sempHost

Same == sameBroker /\ sameVpn
Agrees == sameBroker => form.host = primaryHost
InUse == session # None /\ sdk[session] \in {"connecting", "up"}

\* What the properties exempt: steps that leave the form, or the primary connection, at odds
\* with the session that was asked for, or the dialog with the session that is there.  A
\* refresh in the form sets everything right if no session is in use.
Slip(condition) == slipped' = (slipped \/ condition)
SlipUnlessSettled(condition) ==
  slipped' = ((slipped \/ condition) /\ (InUse' \/ phase # "form"))

-----------------------------------------------------------------------------
(* What follows from the form and the connections, worked out again by     *)
(* almost every handler, on what it leaves.                                *)

\* Mutant: any broker's SEMP connection will do.
BugSempReady == sempHost' # None \/ destSempCtx'

SempReady == IF sameBroker' THEN sempHost' # None ELSE destSempCtx'

refreshDestPickVisible == pickVisible' = (isQueue' /\ SempReady)
refreshStartEnabled ==
  next' = (named' /\ (sameVpn' \/ destSession' # None)) /\ forced' = FALSE

\* The VPN follows the primary session only with Same VPN on, and is blank without one.
PrefilledVpn(f) == IF ~sameVpn' THEN f.vpn ELSE IF sol' = None THEN Blank ELSE sol'.vpn
syncDestFormFromSnapshot(f) ==
  form' = IF sameBroker' /\ primaryHost' # None
          THEN [host |-> primaryHost', vpn |-> PrefilledVpn(f)]
          ELSE f

\* The locks as if nothing were connected.  The Same VPN box, ticked or not on entry, is
\* cleared and disabled without Same broker, which does not clear sameVpn.
applyDestPrefill(ticked) ==
  /\ hostLocked' = sameBroker' /\ vpnLocked' = (sameBroker' /\ sameVpn')
  /\ boxChecked' = (sameBroker' /\ ticked) /\ boxDisabled' = ~sameBroker'

Refresh(f, ticked) ==
  /\ syncDestFormFromSnapshot(f) /\ applyDestPrefill(ticked)
  /\ refreshStartEnabled /\ refreshDestPickVisible

-----------------------------------------------------------------------------
(* The primary connection: its halves come up and go down one by one.      *)

PrimaryEvent ==
  /\ \/ /\ sol' \in IF sol = None THEN Places ELSE {None}
        /\ UNCHANGED sempHost
     \/ /\ sempHost' \in IF sempHost = None THEN Brokers ELSE {None}
        /\ UNCHANGED sol
  /\ UNCHANGED <<sameBroker, sameVpn, isQueue, named, solVars, sempVars, dialogVars>>
  /\ Refresh(form, boxChecked)
  /\ SlipUnlessSettled(/\ sameBroker /\ (sol' # sol \/ primaryHost' # primaryHost)
                       /\ InUse \/ phase = "confirm")

\* copy:vpn-switched: the primary has changed VPN for a source queue, which is filled in,
\* also behind the dialog.
VpnSwitched ==
  /\ sol # None
  /\ named' \in {named, TRUE}
  /\ UNCHANGED <<primaryVars, formVars, isQueue, solVars, sempVars, hostLocked, vpnLocked, boxVars,
                 pickVisible, dialogVars, slipped>>
  /\ refreshStartEnabled

-----------------------------------------------------------------------------
(* The session factory, as in module Connections.                          *)

Fresh(s) == sdk[s] = "unused" /\ \A t \in Sessions : t < s => sdk[t] # "unused"
Disconnected == IF session = None THEN sdk ELSE [sdk EXCEPT ![session] = "closing"]
Cleanup(s) ==
  /\ sdk' = [t \in Sessions |-> IF t \in {s, session} THEN "gone" ELSE sdk[t]]
  /\ session' = None
  /\ UNCHANGED placeOf

\* Mutant: the button is set after connect has returned, whatever became of it.
BugconnectDestSol ==
  \E s \in Sessions :
    /\ Fresh(s)
    /\ placeOf' = [placeOf EXCEPT ![s] = form]
    /\ btnSol' = "Connecting"
    /\ \/ sdk' = [Disconnected EXCEPT ![s] = "connecting"] /\ session' = s
       \/ sdk' = [Disconnected EXCEPT ![s] = "gone"] /\ session' = None

\* A new session to where the form says, or createSession or its connect throws.
connectDestSol ==
  \E s \in Sessions :
    /\ Fresh(s)
    /\ placeOf' = [placeOf EXCEPT ![s] = form]
    /\ \/ /\ sdk' = [Disconnected EXCEPT ![s] = "connecting"] /\ session' = s
          /\ btnSol' = "Connecting"
       \/ /\ sdk' = [Disconnected EXCEPT ![s] = "gone"] /\ session' = None
          /\ btnSol' = "Connect"

\* A click, or Enter in a field of the card, which needs no visible button.
btnDestSolConnect ==
  /\ FormReachable /\ (~Same \/ ~vpnLocked) /\ btnSol # "Connecting"
  /\ IF btnSol = "Disconnect"
     THEN sdk' = Disconnected /\ UNCHANGED <<placeOf, session, btnSol>>
     ELSE connectDestSol
  /\ Slip(Same)
  /\ UNCHANGED <<primaryVars, formVars, isQueue, named, destSession, sempVars, gateVars,
                 dialogVars>>

UpNotice(s) ==
  /\ sdk[s] = "connecting"
  /\ sdk' = [sdk EXCEPT ![s] = "up"]
  /\ destSession' = session /\ btnSol' = "Disconnect"
  /\ hostLocked' = TRUE /\ vpnLocked' = TRUE
  /\ UNCHANGED <<placeOf, session, primaryVars, formVars, isQueue, named, boxVars, sempVars,
                 dialogVars, slipped>>
  /\ refreshStartEnabled /\ refreshDestPickVisible

ConnectFailed(s) ==
  /\ sdk[s] = "connecting"
  /\ Cleanup(s) /\ btnSol' = "Connect"
  /\ UNCHANGED <<destSession, primaryVars, formVars, isQueue, named, sempVars, gateVars,
                 dialogVars, slipped>>

SessionDisconnected(s) ==
  /\ sdk[s] \in {"up", "closing"}
  /\ Cleanup(s) /\ destSession' = None /\ btnSol' = "Connect"
  /\ UNCHANGED <<primaryVars, formVars, isQueue, named, sempVars, dialogVars>>
  /\ applyDestPrefill(boxChecked) /\ refreshStartEnabled /\ refreshDestPickVisible
  /\ slipped' = (phase # "form" \/ (primaryHost # None /\ ~Agrees))

-----------------------------------------------------------------------------
(* The SEMP connection.                                                    *)

sempDisconnected == destSempCtx' = FALSE /\ btnSemp' = "Connect" /\ UNCHANGED probes

btnDestSempConnect ==
  /\ FormReachable /\ (~sameBroker \/ ~hostLocked) /\ btnSemp # "Connecting"
  /\ UNCHANGED <<primaryVars, formVars, isQueue, named, solVars, nextVars, dialogVars, slipped>>
  /\ IF btnSemp = "Disconnect"
     THEN sempDisconnected /\ applyDestPrefill(boxChecked) /\ refreshDestPickVisible
     ELSE /\ probes < MaxProbes /\ probes' = probes + 1 /\ btnSemp' = "Connecting"
          /\ UNCHANGED <<destSempCtx, hostLocked, vpnLocked, boxVars, pickVisible>>

SempAnswers ==
  /\ probes > 0 /\ probes' = probes - 1
  /\ UNCHANGED <<primaryVars, formVars, isQueue, named, solVars, vpnLocked, boxVars, nextVars,
                 dialogVars, slipped>>
  /\ \/ /\ destSempCtx' = TRUE /\ btnSemp' = "Disconnect" /\ hostLocked' = TRUE
        /\ refreshDestPickVisible
     \/ btnSemp' = "Connect" /\ UNCHANGED <<destSempCtx, hostLocked, pickVisible>>

-----------------------------------------------------------------------------
(* The form.                                                               *)

\* Mutant: a toggle leaves the session as it is.
BugdisposeDestSol == UNCHANGED sdk /\ btnSol' = "Connect"

\* Only a session that is up is told to go, not one that is connecting.
disposeDestSol ==
  /\ sdk' = IF destSession # None THEN Disconnected ELSE sdk
  /\ btnSol' = "Connect"

\* A click on Same broker or on Same VPN.  A run's end also enables a Same VPN box that
\* applyDestPrefill had disabled.
Toggle ==
  /\ FormReachable
  /\ UNCHANGED <<primaryVars, isQueue, named, placeOf, session, destSession, dialogVars>>
  /\ sempDisconnected /\ disposeDestSol
  /\ \/ /\ sameBroker' = ~sameBroker /\ sameVpn' = (sameVpn /\ sameBroker')
        /\ Refresh(form, boxChecked)
     \/ /\ ~boxDisabled /\ sameVpn' = ~boxChecked /\ UNCHANGED sameBroker
        /\ Refresh(form, ~boxChecked)
  /\ slipped' = (session # None /\ sdk[session] = "connecting")

\* The host or the VPN, where the field is not disabled.
EditPlace ==
  /\ FormReachable
  /\ \/ ~hostLocked /\ \E b \in Brokers : form' = [form EXCEPT !.host = b]
     \/ ~vpnLocked /\ \E v \in Vpns : form' = [form EXCEPT !.vpn = v]
  /\ UNCHANGED <<primaryVars, sameBroker, sameVpn, isQueue, named, solVars, sempVars, gateVars,
                 dialogVars>>
  /\ Slip(InUse)

destTypeToggle ==
  /\ FormReachable
  /\ isQueue' = ~isQueue
  /\ UNCHANGED <<primaryVars, formVars, named, solVars, sempVars, hostLocked, vpnLocked, boxVars,
                 nextVars, dialogVars, slipped>>
  /\ refreshDestPickVisible

EditNames ==
  /\ FormReachable
  /\ named' = ~named
  /\ UNCHANGED <<primaryVars, formVars, isQueue, solVars, sempVars, hostLocked, vpnLocked, boxVars,
                 pickVisible, dialogVars, slipped>>
  /\ refreshStartEnabled

\* A queue is picked (module QueuePicker).  If it is in another VPN than the form has, the
\* form takes that VPN, and Same VPN is turned off with Same broker on; the session is left
\* alone.
btnDestPick(v) ==
  /\ FormReachable /\ pickVisible
  /\ named' = TRUE
  /\ UNCHANGED <<primaryVars, sameBroker, isQueue, solVars, sempVars, dialogVars>>
  /\ IF v # form.vpn
     THEN /\ sameVpn' = (sameVpn /\ ~sameBroker)
          /\ Refresh([form EXCEPT !.vpn = v], boxChecked /\ ~Same)
          /\ SlipUnlessSettled(TRUE)
     ELSE /\ UNCHANGED <<sameVpn, form, hostLocked, vpnLocked, boxVars, pickVisible, slipped>>
          /\ refreshStartEnabled

-----------------------------------------------------------------------------
(* The dialog and the run.                                                 *)

\* With Same broker on, the broker shown is that of SEMP; None stands for "(primary broker)".
buildDestSummary ==
  [host |-> IF sameBroker THEN sempHost ELSE form.host,
   vpn |-> IF Same THEN sol.vpn ELSE form.vpn]

openCopyModal ==
  /\ FormReachable /\ next /\ named
  /\ phase' = "confirm" /\ shown' = buildDestSummary
  /\ UNCHANGED <<primaryVars, formVars, isQueue, named, solVars, sempVars, gateVars, run, slipped>>

CancelCloses ==
  /\ phase = "confirm"
  /\ phase' = "form" /\ shown' = None
  /\ UNCHANGED <<primaryVars, formVars, isQueue, named, solVars, sempVars, gateVars, run, slipped>>

\* destPublisher ?? primaryPublisher; the form is disabled.
handleModalStart ==
  /\ phase = "confirm" /\ sol # None
  /\ phase' = "run"
  /\ run' = [to |-> IF destSession # None THEN placeOf[destSession] ELSE sol,
             broker |-> sol.host, viaPrimary |-> destSession = None,
             sameBroker |-> sameBroker, sameVpn |-> sameVpn]
  /\ hostLocked' = TRUE /\ vpnLocked' = TRUE /\ boxDisabled' = TRUE
  /\ next' = FALSE /\ forced' = TRUE
  /\ Slip(destSession # None /\ sdk[destSession] = "closing")
  /\ UNCHANGED <<primaryVars, formVars, isQueue, named, boxChecked, solVars, sempVars, pickVisible,
                 shown>>

\* onComplete enables every field, and Next.
RunEnds ==
  /\ phase = "run"
  /\ phase' = "form" /\ shown' = None /\ run' = None
  /\ hostLocked' = FALSE /\ vpnLocked' = FALSE /\ boxDisabled' = FALSE
  /\ next' = TRUE /\ forced' = TRUE
  /\ UNCHANGED <<primaryVars, formVars, isQueue, named, boxChecked, solVars, sempVars, pickVisible,
                 slipped>>

Next ==
  \/ PrimaryEvent \/ VpnSwitched
  \/ btnDestSolConnect \/ btnDestSempConnect \/ SempAnswers
  \/ \E s \in Sessions : UpNotice(s) \/ ConnectFailed(s) \/ SessionDisconnected(s)
  \/ Toggle \/ EditPlace \/ destTypeToggle \/ EditNames
  \/ \E v \in Vpns : btnDestPick(v)
  \/ openCopyModal \/ CancelCloses \/ handleModalStart \/ RunEnds

Spec == Init /\ [][Next]_vars

-----------------------------------------------------------------------------
TypeOK ==
  /\ sol \in Places \cup {None} /\ sempHost \in Brokers \cup {None}
  /\ sameBroker \in BOOLEAN /\ sameVpn \in BOOLEAN /\ isQueue \in BOOLEAN /\ named \in BOOLEAN
  /\ boxChecked \in BOOLEAN /\ boxDisabled \in BOOLEAN
  /\ form \in [host : Brokers \cup {Blank}, vpn : Vpns \cup {Blank}]
  /\ sdk \in [Sessions -> {"unused", "connecting", "up", "closing", "gone"}]
  /\ placeOf \in [Sessions -> Places \cup {None}]
  /\ session \in Sessions \cup {None} /\ destSession \in Sessions \cup {None}
  /\ destSempCtx \in BOOLEAN /\ probes \in 0..MaxProbes
  /\ btnSol \in {"Connect", "Connecting", "Disconnect"}
  /\ btnSemp \in {"Connect", "Connecting", "Disconnect"}
  /\ hostLocked \in BOOLEAN /\ vpnLocked \in BOOLEAN /\ next \in BOOLEAN /\ pickVisible \in BOOLEAN
  /\ forced \in BOOLEAN /\ phase \in {"form", "confirm", "run"}
  /\ shown \in [host : Brokers \cup {None}, vpn : Vpns] \cup {None}
  /\ run \in Runs \cup {None}
  /\ slipped \in BOOLEAN

\* Same VPN on with Same broker off, which lets a run start without a destination session:
\* then it publishes to the primary session whatever the dialog shows.
Misled == run.viaPrimary /\ run.sameVpn /\ ~run.sameBroker

\* A run publishes to the VPN that the dialog showed when it was confirmed, and to the broker
\* that it showed or, with Same broker on, to that of the primary session, whatever
\* connections and toggles came before, unless something slipped.
PublishesWhereShown ==
  (run # None /\ ~slipped /\ ~Misled) =>
    /\ run.to.vpn = shown.vpn
    /\ run.to.host = IF run.sameBroker THEN run.broker ELSE shown.host

\* Neither Connect button is stuck: "Connecting" is backed by an attempt whose answer will
\* end it, and "Disconnect" by a connection that a click ends.
ButtonsAreBacked ==
  /\ btnSol = "Connecting" => session # None /\ sdk[session] = "connecting"
  /\ btnSol = "Disconnect" => session # None /\ destSession = session
                              /\ sdk[session] \in {"up", "closing"}
  /\ btnSemp = "Connecting" => probes > 0
  /\ btnSemp = "Disconnect" => destSempCtx

\* The Pick button and Next are up to date with the form and all connections, unless a run
\* set Next last; and the Same VPN box is ticked only while both Sames are on.
GatesAreFresh ==
  /\ boxChecked => Same
  /\ pickVisible <=> isQueue /\ (IF sameBroker THEN sempHost # None ELSE destSempCtx)
  /\ ~forced => (next <=> named /\ (sameVpn \/ destSession # None))

\* ui-modal.ts 196-199: a run reuses the primary session when the destination is on the same
\* broker and VPN; any other case publishes via the destination session.
PublishesViaDestination == run # None => (run.viaPrimary <=> run.sameBroker /\ run.sameVpn)
=============================================================================
