----------------------------- MODULE PrimarySemp -----------------------------
(***************************************************************************)
(* The primary SEMP connection and a page that reads through it: the SEMP  *)
(* half of the Connections page (its button, hooks and form), the client   *)
(* that validates a connection (semp-client.ts), the kernel's sempFetch,   *)
(* and the Subscription Explorer, which loads page after page.  All this   *)
(* runs in the shell that Kernel starts.                                   *)
(*                                                                         *)
(* What the SEMP fields hold is one of Confs, or None when it does not     *)
(* validate.  A broker denies (401) the Confs whose credentials were       *)
(* revoked.  The credentials of those in Wide have letters outside ASCII:  *)
(* the client sends them in UTF-8, sempFetch in Latin-1, so the validation *)
(* succeeds and every request after it is denied.                          *)
(*                                                                         *)
(* A load knows by its generation number whether it is the last that was   *)
(* started and nothing disconnected since; numbers only grow, so the model *)
(* keeps that answer (mine) instead.  Bounds: MaxLoads loads in flight,    *)
(* MaxPages pages.                                                         *)
(***************************************************************************)
EXTENDS Kernel

CONSTANTS Confs, Wide, Connections, Explorer, MaxLoads, MaxPages

\* Where a request goes and with what credentials.
Credentials == [at : Confs, as : Confs]
Slots == 1..MaxLoads
Loads == [mine : BOOLEAN, st : {"asked", "pausing"}, to : Credentials \cup {None},
          pages : Seq(Credentials)]

ASSUME SempAssumption ==
  /\ Wide \subseteq Confs /\ None \notin Confs \cup Credentials \cup Loads
  /\ MaxLoads \in Nat /\ MaxPages \in Nat \ {0}

VARIABLES
  form,             \* the SEMP fields
  label, disabled,  \* btnSemp
  lastSempAttempt,
  probes,           \* validations in flight
  isSempConnected, sempCredentials,
  revoked,
  denied,           \* "own" or "stale": a 401, of the connection itself or of an earlier one,
                    \* took the connection down and no attempt was made since
  loads, isLoading, btnLoad,
  allRows,          \* where each page of rows came from, or None
  lastLoadError

buttonVars == <<label, disabled, lastSempAttempt, probes>>
connVars == <<isSempConnected, sempCredentials, denied>>
pageVars == <<loads, isLoading, btnLoad, allRows, lastLoadError>>
sempVars == <<form, buttonVars, connVars, revoked, pageVars>>
vars == <<kernelVars, sempVars>>

SempInit ==
  /\ form = None /\ label = "Connect" /\ disabled = FALSE
  /\ lastSempAttempt = None /\ probes = {}
  /\ isSempConnected = FALSE /\ sempCredentials = None /\ denied = "no"
  /\ revoked = {}
  /\ loads = [i \in Slots |-> None] /\ isLoading = FALSE /\ btnLoad = "Load"
  /\ allRows = None /\ lastLoadError = FALSE

Open(module) == Running /\ module \in loadedModules

-----------------------------------------------------------------------------
(* The explorer's part of a change of isSempConnected to FALSE.            *)

\* Mutant: a load in flight when the connection ends goes on as if it had not.
BugSuperseded == loads

Superseded == [i \in Slots |-> IF loads[i] = None THEN None
                               ELSE [loads[i] EXCEPT !.mine = FALSE, !.pages = <<>>]]

\* The last of the loads given is the one whose answer is being handled, over by then.
resetTable(over) ==
  /\ loads' = [i \in Slots |-> IF i \in over THEN None ELSE Superseded[i]]
  /\ isLoading' = FALSE /\ btnLoad' = "Load"
  /\ allRows' = None /\ lastLoadError' = FALSE

-----------------------------------------------------------------------------
(* The Connections page.                                                   *)

\* By hand, Load or Reset; the latter two whatever is connected.
editForm ==
  /\ Open(Connections)
  /\ \E f \in Confs \cup {None} : f # form /\ form' = f
  /\ UNCHANGED <<buttonVars, connVars, revoked, pageVars>>

onDisconnected ==
  /\ isSempConnected' = FALSE /\ sempCredentials' = None /\ lastSempAttempt' = None
  /\ label' = "Connect"
  /\ resetTable({})
  /\ UNCHANGED <<form, disabled, probes, denied, revoked>>

validateSemp == form # None

btnSemp ==
  /\ Open(Connections) /\ ~disabled
  /\ \/ isSempConnected /\ onDisconnected
     \/ /\ ~isSempConnected /\ validateSemp
        /\ disabled' = TRUE /\ label' = "Connecting"
        /\ lastSempAttempt' = form /\ probes' = probes \cup {form}
        /\ UNCHANGED <<form, connVars, revoked, pageVars>>

\* Mutant: what is published is what the form holds by then.
BugonConnected(c) == [at |-> form, as |-> c]

\* The rest of what was typed is found in lastSempAttempt.
onConnected(c) == [at |-> lastSempAttempt, as |-> c]

\* Mutant: the button is only put right by the hooks.
Bugfinally ==
  /\ disabled' = FALSE
  /\ label' = IF isSempConnected' THEN "Disconnect" ELSE label

finally ==
  /\ disabled' = FALSE
  /\ label' = IF isSempConnected' THEN "Disconnect" ELSE "Connect"

\* The answer to the validation: fine, or denied, an error or no answer in 15 seconds.
connect(c) ==
  /\ c \in probes /\ probes' = probes \ {c}
  /\ \/ /\ c \notin revoked
        /\ sempCredentials' = onConnected(c) /\ isSempConnected' = TRUE
     \/ UNCHANGED <<sempCredentials, isSempConnected>>
  /\ denied' = "no"
  /\ finally
  /\ UNCHANGED <<form, lastSempAttempt, revoked, pageVars>>

-----------------------------------------------------------------------------
(* sempFetch, and the loads that use it.                                   *)

\* Addresses and header are made up when the request is sent, from what is connected by
\* then; with nothing connected the path is asked of the page's own origin.
sempFetch == sempCredentials

load ==
  /\ Open(Explorer) /\ isSempConnected /\ ~isLoading
  /\ \E i \in Slots :
       /\ loads[i] = None /\ \A j \in Slots : j < i => loads[j] # None
       /\ loads' = [Superseded EXCEPT ![i] = [mine |-> TRUE, st |-> "asked", to |-> sempFetch,
                                              pages |-> <<>>]]
  /\ isLoading' = TRUE /\ btnLoad' = "Loading"
  /\ allRows' = <<>> /\ lastLoadError' = FALSE
  /\ UNCHANGED <<form, buttonVars, connVars, revoked>>

\* PAGE_DELAY_MS after a page the generator asks for the next, whether it is wanted or not.
PauseEnds(i) ==
  /\ loads[i] # None /\ loads[i].st = "pausing"
  /\ loads' = [loads EXCEPT ![i].st = "asked", ![i].to = sempFetch]
  /\ UNCHANGED <<form, buttonVars, connVars, revoked, isLoading, btnLoad, allRows,
                 lastLoadError>>

Asked(i) == loads[i] # None /\ loads[i].st = "asked"
Denies(to) == to # None /\ to.as \in revoked \cup Wide

\* Mutant: a connection ends with any answer that is an error.
BugTerminates(to) == TRUE

\* Which answers end the connection.
Terminates(to) == Denies(to)

\* An answer that is an error: 401 ends the connection in use, whichever was asked; the
\* explorer hears of that before its load does.
Fails(i) ==
  /\ Asked(i)
  /\ IF Terminates(loads[i].to)
     THEN /\ isSempConnected' = FALSE /\ sempCredentials' = None
          /\ denied' = CASE ~isSempConnected -> denied
                         [] isSempConnected /\ loads[i].to = sempCredentials -> "own"
                         [] OTHER -> "stale"
          /\ resetTable({i})
     ELSE /\ loads' = [loads EXCEPT ![i] = None]
          /\ IF loads[i].mine
             THEN /\ isLoading' = FALSE /\ btnLoad' = "Load"
                  /\ allRows' = None /\ lastLoadError' = TRUE
             ELSE UNCHANGED <<isLoading, btnLoad, allRows, lastLoadError>>
          /\ UNCHANGED connVars
  /\ UNCHANGED <<form, buttonVars, revoked>>

\* A page of rows, of the broker that was asked.
Page(i) ==
  /\ Asked(i) /\ loads[i].to # None /\ ~Denies(loads[i].to)
  /\ LET pages == Append(loads[i].pages, loads[i].to)
     IN  \/ /\ ~loads[i].mine
            /\ loads' = [loads EXCEPT ![i] = None]
            /\ UNCHANGED <<isLoading, btnLoad, allRows>>
         \/ /\ loads[i].mine /\ Len(pages) < MaxPages
            /\ loads' = [loads EXCEPT ![i].pages = pages, ![i].st = "pausing"]
            /\ UNCHANGED <<isLoading, btnLoad, allRows>>
         \/ /\ loads[i].mine
            /\ loads' = [loads EXCEPT ![i] = None]
            /\ isLoading' = FALSE /\ btnLoad' = "Refresh" /\ allRows' = pages
  /\ UNCHANGED <<form, buttonVars, connVars, revoked, lastLoadError>>

\* The broker's administrator takes credentials away.
Revoke ==
  /\ \E c \in Confs \ revoked : revoked' = revoked \cup {c}
  /\ UNCHANGED <<form, buttonVars, connVars, pageVars>>

-----------------------------------------------------------------------------
SempNext ==
  \/ editForm \/ btnSemp \/ load \/ Revoke
  \/ \E c \in Confs : connect(c)
  \/ \E i \in Slots : PauseEnds(i) \/ Fails(i) \/ Page(i)

Init == KernelInit /\ SempInit
Next ==
  \/ KernelNext /\ UNCHANGED sempVars
  \/ SempNext /\ UNCHANGED kernelVars
Spec == Init /\ [][Next]_vars

-----------------------------------------------------------------------------
TypeOK ==
  /\ loadedModules \subseteq Modules /\ active \in Modules \cup {None}
  /\ form \in Confs \cup {None} /\ lastSempAttempt \in Confs \cup {None} /\ probes \subseteq Confs
  /\ label \in {"Connect", "Connecting", "Disconnect"} /\ disabled \in BOOLEAN
  /\ isSempConnected \in BOOLEAN /\ sempCredentials \in Credentials \cup {None}
  /\ denied \in {"no", "own", "stale"} /\ revoked \subseteq Confs
  /\ loads \in [Slots -> Loads \cup {None}] /\ isLoading \in BOOLEAN
  /\ btnLoad \in {"Load", "Loading", "Refresh"} /\ lastLoadError \in BOOLEAN
  /\ allRows \in Seq(Credentials) \cup {None}

\* Once the kernel has started, "Open in Browser" shows exactly if the queue browser was
\* installed, its download buttons exactly if JSZip is there, in whatever order the modules,
\* the script and failed installs came; the module in view is one that was installed.
StartIsComplete ==
  Running =>
    /\ active \in loadedModules /\ sidebar = loadedModules /\ pending = <<>>
    /\ Discovery \in loadedModules => (Discovery \in revealed <=> QueueBrowser \in loadedModules)
    /\ QueueBrowser \in loadedModules => (QueueBrowser \in revealed <=> jszipLoaded)

\* While SEMP is connected the credentials in AppState are, all of them, those of the one
\* validation that succeeded, the hooks find their attempt, and only one is made at a time.
ConnectionIsValidated ==
  /\ isSempConnected <=> sempCredentials # None
  /\ sempCredentials # None => /\ sempCredentials.at = sempCredentials.as
                               /\ lastSempAttempt = sempCredentials.at
  /\ probes # {} => probes = {lastSempAttempt} /\ ~isSempConnected

\* The button says what a click on it will do, unless a 401 took the connection down: then
\* it says "Disconnect" and connects.
ButtonTells ==
  /\ label = "Connecting" <=> probes # {}
  /\ label # "Connecting" => (label = "Disconnect" <=> isSempConnected \/ denied # "no")

\* The subscriptions listed all come from the broker that is connected, none from a load
\* that an earlier connection left behind; the page says it is loading exactly while the
\* load it waits for is under way.
RowsAreOfConnection ==
  /\ allRows # None => /\ isSempConnected
                       /\ \A k \in DOMAIN allRows : allRows[k] = sempCredentials
  /\ isLoading <=> \E i \in Slots : loads[i] # None /\ loads[i].mine
  /\ isLoading <=> btnLoad = "Loading"

\* Only the user and the connected broker's own denial end a connection, if no answer to a
\* request of an earlier connection does.
EndsForCause ==
  [][isSempConnected /\ ~isSempConnected' =>
       \/ label' = "Connect"
       \/ sempCredentials.as \in revoked \cup Wide
       \/ denied' = "stale"]_vars
=============================================================================
