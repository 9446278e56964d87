------------------------------- MODULE Kernel -------------------------------
(***************************************************************************)
(* Start-up (main.ts, kernel.ts) and the event bus (event-bus.ts): the     *)
(* kernel installs its modules one after the other, in the order of their  *)
(* priorities, holds back what they emit meanwhile and lets it go when all *)
(* have had their chance to subscribe.  An install may find no template or *)
(* throw half way.  JSZip is loaded by a script of the page at any time.   *)
(*                                                                         *)
(* The events followed are those emitted while the kernel starts and those *)
(* that other modules' controls wait for; any other event is delivered in  *)
(* the action that emits it, to whoever listens (see PrimarySemp).         *)
(***************************************************************************)
EXTENDS Naturals, Sequences, SequencesExt

CONSTANTS Order,         \* this.modules: the ids by descending priority
          QueueBrowser,  \* the module that announces itself
          Discovery,     \* the one with the button "Open in Browser"
          None

Modules == ToSet(Order)

ASSUME OrderAssumption ==
  /\ Order \in Seq(Modules) /\ \A i, j \in DOMAIN Order : Order[i] = Order[j] => i = j
  /\ None \notin Modules \cup Nat /\ Discovery # QueueBrowser

VARIABLES
  installing,    \* how many modules start() is done with, or None before and after
  loadedModules,
  listeners,     \* of the bus: pairs of an event and the module listening
  held, pending, \* of the bus
  jszipLoaded,   \* window.jszipLoaded
  bridged,       \* the kernel forwards the window's jszip:loaded
  revealed,      \* the modules whose waiting controls have been shown
  sidebar,       \* the modules with an entry
  active         \* state.activeModuleId

busVars == <<listeners, held, pending>>
kernelVars == <<installing, loadedModules, busVars, jszipLoaded, bridged, revealed, sidebar, active>>

\* The event that shows a module's waiting controls.
Awaits(m) == CASE m = Discovery -> "browser:available"
               [] m = QueueBrowser -> "jszip:loaded"
               [] OTHER -> None

KernelInit ==
  /\ installing = None /\ loadedModules = {} /\ sidebar = {} /\ active = None
  /\ listeners = {} /\ held = FALSE /\ pending = <<>>
  /\ jszipLoaded = FALSE /\ bridged = FALSE /\ revealed = {}

Running == active # None

-----------------------------------------------------------------------------
(* The bus.                                                                *)

\* The modules whose handlers run when the events are delivered.
deliver(events) == {m \in Modules : \E i \in DOMAIN events : <<events[i], m>> \in listeners}

\* shown is what the emitter itself has shown by then.
emit(event, shown) ==
  IF held THEN pending' = Append(pending, event) /\ revealed' = revealed \cup shown
  ELSE revealed' = revealed \cup shown \cup deliver(<<event>>) /\ UNCHANGED pending

\* Mutant: the bus is not held while modules install.
BugHold == held' = FALSE

hold == held' = TRUE

-----------------------------------------------------------------------------
(* Start-up.                                                               *)

start ==
  /\ installing = None /\ ~bridged
  /\ installing' = 0 /\ hold
  /\ UNCHANGED <<loadedModules, listeners, pending, jszipLoaded, bridged, revealed, sidebar, active>>

\* An install that runs to its end: the module listens, the queue browser shows its
\* download buttons if JSZip is there already, and announces itself last.
Installs(m) ==
  /\ loadedModules' = loadedModules \cup {m}
  /\ listeners' = listeners \cup {<<Awaits(m), m>>}
  /\ IF m # QueueBrowser THEN UNCHANGED <<pending, revealed>>
     ELSE emit("browser:available", IF jszipLoaded THEN {m} ELSE {})

\* No template, or a throw before or after the module listens.
InstallFails(m) ==
  /\ \E L \in {{}, {<<Awaits(m), m>>}} : listeners' = listeners \cup L
  /\ UNCHANGED <<loadedModules, pending, revealed>>

installModule ==
  /\ installing # None /\ installing < Len(Order)
  /\ LET m == Order[installing + 1] IN Installs(m) \/ InstallFails(m)
  /\ installing' = installing + 1
  /\ UNCHANGED <<held, jszipLoaded, bridged, sidebar, active>>

\* The first that is loaded, by priority.
firstInstalled ==
  IF loadedModules = {} THEN None
  ELSE Order[CHOOSE i \in DOMAIN Order :
               Order[i] \in loadedModules /\ \A j \in 1..i-1 : Order[j] \notin loadedModules]

ZipAtLast == IF jszipLoaded THEN deliver(<<"jszip:loaded">>) ELSE {}

\* The rest of start(), once every install is over.
StartEnds ==
  /\ installing = Len(Order)
  /\ held' = FALSE /\ pending' = <<>>
  /\ revealed' = revealed \cup deliver(pending) \cup ZipAtLast
  /\ bridged' = TRUE /\ sidebar' = loadedModules /\ active' = firstInstalled
  /\ installing' = None
  /\ UNCHANGED <<loadedModules, listeners, jszipLoaded>>

JszipLoads ==
  /\ ~jszipLoaded /\ jszipLoaded' = TRUE
  /\ IF bridged THEN emit("jszip:loaded", {}) ELSE UNCHANGED <<revealed, pending>>
  /\ UNCHANGED <<installing, loadedModules, listeners, held, bridged, sidebar, active>>

\* From the sidebar, or by a module for itself.
navigateTo(id) ==
  /\ id \in loadedModules /\ active' = id
  /\ UNCHANGED <<installing, loadedModules, busVars, jszipLoaded, bridged, revealed, sidebar>>

KernelNext ==
  \/ start \/ installModule \/ StartEnds \/ JszipLoads
  \/ \E id \in sidebar \ {active} : navigateTo(id)
=============================================================================
