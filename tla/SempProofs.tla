----------------------------- MODULE SempProofs -----------------------------
(***************************************************************************)
(* What is read over SEMP page after page, by the Subscription Explorer    *)
(* over the primary connection and by the queue picker, and the filters    *)
(* that choose what is shown of it.                                        *)
(*                                                                         *)
(* The primary connection is proved for any configurations, credentials    *)
(* and number of loads in flight.  What is connected rests on there being  *)
(* one validation at a time, which the disabled button sees to; what is    *)
(* listed on every end of the connection taking its loads out of the page. *)
(* The picker follows; it rests on its own loads asking its own broker, on *)
(* generations telling them apart, and on each having all that is shown of *)
(* its list.  Last come the topic filters, for inputs of any length: what  *)
(* they decide is whether some name would match.                           *)
(***************************************************************************)
EXTENDS PrimarySemp, QueuePicker, Topics, WellFoundedInduction, TLAPS

SempTypes ==
  /\ form \in Confs \cup {None} /\ lastSempAttempt \in Confs \cup {None} /\ probes \subseteq Confs
  /\ label \in {"Connect", "Connecting", "Disconnect"} /\ disabled \in BOOLEAN
  /\ isSempConnected \in BOOLEAN /\ sempCredentials \in Credentials \cup {None}
  /\ denied \in {"no", "own", "stale"} /\ revoked \subseteq Confs

PageTypes ==
  /\ loads \in [Slots -> Loads \cup {None}] /\ isLoading \in BOOLEAN
  /\ btnLoad \in {"Load", "Loading", "Refresh"} /\ lastLoadError \in BOOLEAN
  /\ allRows \in Seq(Credentials) \cup {None}

\* The button is disabled exactly while a connection is being validated.
DisabledWhileProbing == disabled <=> probes # {}

\* A denial ended the connection it is remembered of.
DeniedIsOver == isSempConnected => denied = "no"

\* The load the page waits for.
Mine(i) == loads[i] # None /\ loads[i].mine

\* It reads, and has read, from what is connected; and there is one at most.
LoadsAreOfConnection ==
  /\ \A i \in Slots : Mine(i) =>
       /\ isSempConnected /\ loads[i].to = sempCredentials
       /\ \A k \in DOMAIN loads[i].pages : loads[i].pages[k] = sempCredentials
  /\ \A i, j \in Slots : Mine(i) /\ Mine(j) => i = j

Conn == SempTypes /\ ConnectionIsValidated /\ ButtonTells /\ DisabledWhileProbing /\ DeniedIsOver
Rows == PageTypes /\ LoadsAreOfConnection /\ RowsAreOfConnection

IInv == Conn /\ Rows

-----------------------------------------------------------------------------
\* The connection's own variables.
connPart == <<form, buttonVars, connVars, revoked>>

LEMMA ConnStep == IInv /\ [Next]_vars => Conn'
<1> SUFFICES ASSUME IInv, [Next]_vars
             PROVE  Conn'
  OBVIOUS
<1> USE SempAssumption
<1>0. /\ Conn /\ SempTypes /\ ConnectionIsValidated /\ ButtonTells /\ DisabledWhileProbing
      /\ DeniedIsOver
  BY DEF IInv, Conn
<1>s. ASSUME UNCHANGED <<label, disabled, lastSempAttempt, probes, isSempConnected,
                         sempCredentials, denied>>,
             form' \in Confs \cup {None}, revoked' \subseteq Confs
      PROVE  Conn'
  BY <1>0, <1>s
     DEF Conn, SempTypes, ConnectionIsValidated, ButtonTells, DisabledWhileProbing, DeniedIsOver
<1>1. CASE editForm
  BY <1>1, <1>0, <1>s DEF editForm, buttonVars, connVars, SempTypes
<1>2. CASE btnSemp
  <2>1. CASE isSempConnected /\ onDisconnected
    <3>1. SempTypes'
      BY <2>1, <1>0 DEF onDisconnected, SempTypes
    <3>2. ConnectionIsValidated' /\ ButtonTells' /\ DisabledWhileProbing' /\ DeniedIsOver'
      BY <2>1, <1>0 DEF onDisconnected, ConnectionIsValidated, ButtonTells, DisabledWhileProbing,
                        DeniedIsOver
    <3> QED
      BY <3>1, <3>2 DEF Conn
  <2>2. CASE /\ ~isSempConnected /\ validateSemp
             /\ disabled' = TRUE /\ label' = "Connecting"
             /\ lastSempAttempt' = form /\ probes' = probes \cup {form}
             /\ UNCHANGED <<form, connVars, revoked, pageVars>>
    <3>1. probes = {} /\ probes' = {form} /\ form \in Confs
      BY <1>2, <2>2, <1>0 DEF btnSemp, DisabledWhileProbing, validateSemp, SempTypes
    <3>2. SempTypes'
      BY <2>2, <3>1, <1>0 DEF connVars, SempTypes
    <3>3. ConnectionIsValidated' /\ ButtonTells' /\ DisabledWhileProbing' /\ DeniedIsOver'
      BY <2>2, <3>1, <1>0 DEF connVars, ConnectionIsValidated, ButtonTells, DisabledWhileProbing,
                              DeniedIsOver
    <3> QED
      BY <3>2, <3>3 DEF Conn
  <2> QED
    BY <1>2, <2>1, <2>2 DEF btnSemp
<1>3. ASSUME NEW c \in Confs, connect(c)
      PROVE  Conn'
  <2>1. /\ probes = {c} /\ lastSempAttempt = c /\ ~isSempConnected /\ probes' = {}
        /\ sempCredentials = None
    BY <1>3, <1>0 DEF connect, ConnectionIsValidated
  <2>2. /\ disabled' = FALSE /\ denied' = "no"
        /\ label' = IF isSempConnected' THEN "Disconnect" ELSE "Connect"
        /\ UNCHANGED <<form, lastSempAttempt, revoked>>
    BY <1>3 DEF connect, finally
  <2>3. \/ sempCredentials' = [at |-> c, as |-> c] /\ isSempConnected' = TRUE
        \/ sempCredentials' = None /\ isSempConnected' = FALSE
    BY <1>3, <2>1, <1>0 DEF connect, onConnected, SempTypes
  <2>4. [at |-> c, as |-> c] \in Credentials /\ [at |-> c, as |-> c] # None
    BY DEF Credentials
  <2>5. SempTypes'
    BY <2>1, <2>2, <2>3, <2>4, <1>0 DEF SempTypes
  <2>6. ConnectionIsValidated' /\ ButtonTells' /\ DisabledWhileProbing' /\ DeniedIsOver'
    BY <2>1, <2>2, <2>3, <2>4
       DEF ConnectionIsValidated, ButtonTells, DisabledWhileProbing, DeniedIsOver
  <2> QED
    BY <2>5, <2>6 DEF Conn
<1>4. ASSUME NEW i \in Slots, Fails(i)
      PROVE  Conn'
  <2>1. CASE Terminates(loads[i].to)
    <3>1. /\ isSempConnected' = FALSE /\ sempCredentials' = None
          /\ UNCHANGED <<form, label, disabled, lastSempAttempt, probes, revoked>>
          /\ ~isSempConnected => denied' = denied
          /\ isSempConnected => denied' \in {"own", "stale"}
      BY <1>4, <2>1 DEF Fails, buttonVars
    <3>2. SempTypes'
      BY <3>1, <1>0 DEF SempTypes
    <3>3. ConnectionIsValidated' /\ ButtonTells' /\ DisabledWhileProbing' /\ DeniedIsOver'
      BY <3>1, <1>0 DEF SempTypes, ConnectionIsValidated, ButtonTells, DisabledWhileProbing,
                        DeniedIsOver
    <3> QED
      BY <3>2, <3>3 DEF Conn
  <2>2. CASE ~Terminates(loads[i].to)
    BY <1>4, <2>2, <1>0, <1>s DEF Fails, buttonVars, connVars, SempTypes
  <2> QED
    BY <2>1, <2>2
<1>5. CASE Revoke
  BY <1>5, <1>0, <1>s DEF Revoke, buttonVars, connVars, SempTypes
<1>6. CASE load \/ (\E i \in Slots : PauseEnds(i) \/ Page(i)) \/ UNCHANGED sempVars
  BY <1>6, <1>0, <1>s DEF load, PauseEnds, Page, sempVars, buttonVars, connVars, SempTypes
<1> QED
  BY <1>1, <1>2, <1>3, <1>4, <1>5, <1>6 DEF Next, SempNext, vars

-----------------------------------------------------------------------------
\* A load that is told it is no longer wanted is a load.
LEMMA OutOfThePage ==
  ASSUME NEW ld \in Loads
  PROVE  /\ [ld EXCEPT !.mine = FALSE, !.pages = <<>>] \in Loads
         /\ [ld EXCEPT !.mine = FALSE, !.pages = <<>>].mine = FALSE
<1>1. <<>> \in Seq(Credentials)
  OBVIOUS
<1> QED
  BY <1>1 DEF Loads

\* The page after the connection has ended, whoever ended it.
LEMMA Reset ==
  ASSUME PageTypes, NEW over, resetTable(over)
  PROVE  Rows'
<1> USE SempAssumption
<1>2. Superseded \in [Slots -> Loads \cup {None}]
      /\ \A i \in Slots : Superseded[i] # None => Superseded[i].mine = FALSE
  BY OutOfThePage DEF Superseded, PageTypes
<1> HIDE DEF Superseded
<1>3. loads' \in [Slots -> Loads \cup {None}] /\ \A i \in Slots : ~Mine(i)'
  BY <1>2 DEF resetTable, Mine
<1>4. PageTypes'
  BY <1>3 DEF resetTable, PageTypes
<1>5. LoadsAreOfConnection'
  BY <1>3 DEF LoadsAreOfConnection
<1>6. RowsAreOfConnection'
  BY <1>3 DEF resetTable, RowsAreOfConnection, Mine
<1> QED
  BY <1>4, <1>5, <1>6 DEF Rows

\* A load that is over: if it was the one the page waits for, the page says how it ended.
LEMMA Gone ==
  ASSUME PageTypes, LoadsAreOfConnection, RowsAreOfConnection, NEW i \in Slots,
         loads[i] # None, loads' = [loads EXCEPT ![i] = None],
         UNCHANGED <<isSempConnected, sempCredentials>>, lastLoadError' \in BOOLEAN,
         IF loads[i].mine
         THEN /\ isLoading' = FALSE /\ btnLoad' \in {"Load", "Refresh"}
              /\ allRows' \in Seq(Credentials) \cup {None}
              /\ allRows' # None => /\ isSempConnected
                                    /\ \A k \in DOMAIN allRows' : allRows'[k] = sempCredentials
         ELSE UNCHANGED <<isLoading, btnLoad, allRows>>
  PROVE  Rows'
<1>1. /\ loads' \in [Slots -> Loads \cup {None}]
      /\ \A j \in Slots : Mine(j)' <=> Mine(j) /\ j # i
      /\ \A j \in Slots : Mine(j)' => loads'[j] = loads[j]
  BY DEF PageTypes, Mine
<1>2. PageTypes'
  BY <1>1 DEF PageTypes
<1>3. LoadsAreOfConnection'
  BY <1>1 DEF LoadsAreOfConnection
<1>4. RowsAreOfConnection'
  <2>1. CASE loads[i].mine
    <3>1. \A j \in Slots : ~Mine(j)'
      BY <1>1, <2>1 DEF LoadsAreOfConnection, Mine
    <3> QED
      BY <2>1, <3>1 DEF RowsAreOfConnection, Mine
  <2>2. CASE ~loads[i].mine
    <3>1. \A j \in Slots : Mine(j)' <=> Mine(j)
      BY <1>1, <2>2 DEF Mine
    <3> QED
      BY <2>2, <3>1 DEF RowsAreOfConnection, Mine
  <2> QED
    BY <2>1, <2>2
<1> QED
  BY <1>2, <1>3, <1>4 DEF Rows

\* What the page depends on of the connection.
LEMMA RowsKept ==
  ASSUME Rows, UNCHANGED <<pageVars, isSempConnected, sempCredentials>>
  PROVE  Rows'
BY DEF Rows, PageTypes, LoadsAreOfConnection, RowsAreOfConnection, Mine, pageVars

LEMMA RowsStep == IInv /\ [Next]_vars => Rows'
<1> SUFFICES ASSUME IInv, [Next]_vars
             PROVE  Rows'
  OBVIOUS
<1> USE SempAssumption
<1>0. /\ Rows /\ PageTypes /\ LoadsAreOfConnection /\ RowsAreOfConnection
      /\ SempTypes /\ ConnectionIsValidated
  BY DEF IInv, Conn, Rows
<1>1. CASE editForm \/ Revoke \/ UNCHANGED sempVars
  BY <1>1, <1>0, RowsKept DEF editForm, Revoke, connVars, sempVars
<1>2. CASE btnSemp
  <2>1. CASE isSempConnected /\ onDisconnected
    BY <2>1, <1>0, Reset DEF onDisconnected
  <2>2. CASE UNCHANGED <<connVars, pageVars>>
    BY <2>2, <1>0, RowsKept DEF connVars
  <2> QED
    BY <1>2, <2>1, <2>2 DEF btnSemp
<1>3. ASSUME NEW c \in Confs, connect(c)
      PROVE  Rows'
  <2>1. ~isSempConnected /\ UNCHANGED pageVars
    BY <1>3, <1>0 DEF connect, ConnectionIsValidated
  <2>2. allRows = None /\ \A i \in Slots : ~Mine(i)
    BY <2>1, <1>0 DEF RowsAreOfConnection, LoadsAreOfConnection
  <2>3. PageTypes'
    BY <2>1, <1>0 DEF PageTypes, pageVars
  <2>4. LoadsAreOfConnection' /\ RowsAreOfConnection'
    BY <2>1, <2>2, <1>0 DEF LoadsAreOfConnection, RowsAreOfConnection, Mine, pageVars
  <2> QED
    BY <2>3, <2>4 DEF Rows
<1>4. CASE load
  <2>1. PICK i \in Slots :
          loads' = [Superseded EXCEPT ![i] = [mine |-> TRUE, st |-> "asked", to |-> sempFetch,
                                              pages |-> <<>>]]
    BY <1>4 DEF load
  <2>2. /\ isSempConnected /\ isLoading' = TRUE /\ btnLoad' = "Loading" /\ allRows' = <<>>
        /\ lastLoadError' = FALSE /\ UNCHANGED <<isSempConnected, sempCredentials>>
    BY <1>4 DEF load, connVars
  <2> DEFINE new == [mine |-> TRUE, st |-> "asked", to |-> sempFetch, pages |-> <<>>]
  <2>3. new \in Loads /\ new.mine /\ new.to = sempCredentials /\ new.pages = <<>>
    <3>1. sempFetch \in Credentials \cup {None} /\ <<>> \in Seq(Credentials)
      BY <1>0 DEF sempFetch, SempTypes
    <3> QED
      BY <3>1 DEF Loads, sempFetch
  <2>4. Superseded \in [Slots -> Loads \cup {None}]
        /\ \A j \in Slots : Superseded[j] # None => Superseded[j].mine = FALSE
    BY <1>0, OutOfThePage DEF Superseded, PageTypes
  <2> HIDE DEF new, Superseded
  <2>5. loads' \in [Slots -> Loads \cup {None}] /\ loads'[i] = new
        /\ \A j \in Slots : j # i => loads'[j] = Superseded[j]
    BY <2>1, <2>3, <2>4 DEF new
  <2>6. \A j \in Slots : Mine(j)' <=> j = i
    BY <2>3, <2>4, <2>5 DEF Mine
  <2>7. PageTypes'
    <3>1. <<>> \in Seq(Credentials)
      OBVIOUS
    <3> QED
      BY <2>2, <2>5, <3>1 DEF PageTypes
  <2>8. LoadsAreOfConnection'
    BY <2>2, <2>3, <2>5, <2>6 DEF LoadsAreOfConnection
  <2>9. RowsAreOfConnection'
    <3>1. Mine(i)'
      BY <2>6
    <3> QED
      BY <2>2, <3>1 DEF RowsAreOfConnection, Mine
  <2> QED
    BY <2>7, <2>8, <2>9 DEF Rows
<1>5. ASSUME NEW i \in Slots, PauseEnds(i)
      PROVE  Rows'
  <2> DEFINE new == [loads[i] EXCEPT !.st = "asked", !.to = sempFetch]
  <2>1. /\ loads[i] # None /\ loads' = [loads EXCEPT ![i] = new]
        /\ UNCHANGED <<isLoading, btnLoad, allRows, lastLoadError, isSempConnected, sempCredentials>>
    BY <1>5, <1>0 DEF PauseEnds, connVars, PageTypes
  <2>2. loads[i] \in Loads
    BY <2>1, <1>0 DEF PageTypes
  <2>3. new \in Loads /\ new.mine = loads[i].mine /\ new.pages = loads[i].pages
        /\ new.to = sempCredentials
    BY <2>2, <1>0 DEF Loads, sempFetch, SempTypes
  <2> HIDE DEF new
  <2>4. loads' \in [Slots -> Loads \cup {None}] /\ \A j \in Slots : Mine(j)' <=> Mine(j)
        /\ \A k \in Slots : k # i => loads'[k] = loads[k]
    BY <2>1, <2>2, <2>3, <1>0 DEF Mine, PageTypes
  <2>5. loads'[i] = new
    BY <2>1, <1>0 DEF PageTypes
  <2>6. PageTypes'
    BY <2>1, <2>4, <1>0 DEF PageTypes
  <2>7. LoadsAreOfConnection'
    BY <2>1, <2>3, <2>4, <2>5, <1>0 DEF LoadsAreOfConnection
  <2>8. RowsAreOfConnection'
    BY <2>1, <2>4, <1>0 DEF RowsAreOfConnection, Mine
  <2> QED
    BY <2>6, <2>7, <2>8 DEF Rows
<1>6. ASSUME NEW i \in Slots, Fails(i)
      PROVE  Rows'
  <2>1. CASE Terminates(loads[i].to)
    BY <1>6, <2>1, <1>0, Reset DEF Fails
  <2>2. CASE ~Terminates(loads[i].to)
    <3>1. /\ loads[i] # None /\ loads' = [loads EXCEPT ![i] = None]
          /\ UNCHANGED <<isSempConnected, sempCredentials>>
          /\ IF loads[i].mine
             THEN isLoading' = FALSE /\ btnLoad' = "Load" /\ allRows' = None /\ lastLoadError' = TRUE
             ELSE UNCHANGED <<isLoading, btnLoad, allRows, lastLoadError>>
      BY <1>6, <2>2 DEF Fails, Asked, connVars
    <3>2. lastLoadError' \in BOOLEAN
      BY <3>1, <1>0 DEF PageTypes
    <3> QED
      BY <3>1, <3>2, <1>0, Gone
  <2> QED
    BY <2>1, <2>2
<1>7. ASSUME NEW i \in Slots, Page(i)
      PROVE  Rows'
  <2> DEFINE pages == Append(loads[i].pages, loads[i].to)
  <2>0. /\ loads[i] # None /\ loads[i].to # None
        /\ UNCHANGED <<isSempConnected, sempCredentials, lastLoadError>>
    BY <1>7 DEF Page, Asked, connVars
  <2>1. loads[i] \in Loads
    BY <2>0, <1>0 DEF PageTypes
  <2>2. /\ pages \in Seq(Credentials)
        /\ Mine(i) => \A k \in DOMAIN pages : pages[k] = sempCredentials
    <3>1. loads[i].pages \in Seq(Credentials) /\ loads[i].to \in Credentials
      BY <2>0, <2>1 DEF Loads
    <3>2. Mine(i) => /\ loads[i].to = sempCredentials
                     /\ \A k \in DOMAIN loads[i].pages : loads[i].pages[k] = sempCredentials
      BY <1>0 DEF LoadsAreOfConnection
    <3> QED
      BY <3>1, <3>2
  <2> HIDE DEF pages
  <2>3. CASE /\ ~loads[i].mine /\ loads' = [loads EXCEPT ![i] = None]
             /\ UNCHANGED <<isLoading, btnLoad, allRows>>
    <3>1. lastLoadError' \in BOOLEAN
      BY <2>0, <1>0 DEF PageTypes
    <3> QED
      BY <2>0, <2>3, <3>1, <1>0, Gone
  <2>4. CASE /\ loads[i].mine
             /\ loads' = [loads EXCEPT ![i].pages = pages, ![i].st = "pausing"]
             /\ UNCHANGED <<isLoading, btnLoad, allRows>>
    <3> DEFINE new == [loads[i] EXCEPT !.pages = pages, !.st = "pausing"]
    <3>1. loads' = [loads EXCEPT ![i] = new]
      BY <2>4, <1>0 DEF PageTypes
    <3>2. new \in Loads /\ new.mine = loads[i].mine /\ new.pages = pages /\ new.to = loads[i].to
      BY <2>1, <2>2 DEF Loads
    <3> HIDE DEF new
    <3>3. /\ loads' \in [Slots -> Loads \cup {None}] /\ loads'[i] = new
          /\ \A j \in Slots : j # i => loads'[j] = loads[j]
      BY <3>1, <3>2, <1>0 DEF PageTypes
    <3>4. \A j \in Slots : Mine(j)' <=> Mine(j)
      BY <2>0, <3>2, <3>3 DEF Mine
    <3>5. PageTypes'
      BY <2>0, <2>4, <3>3, <1>0 DEF PageTypes
    <3>6. LoadsAreOfConnection'
      BY <2>0, <2>2, <3>2, <3>3, <3>4, <1>0 DEF LoadsAreOfConnection
    <3>7. RowsAreOfConnection'
      BY <2>0, <2>4, <3>4, <1>0 DEF RowsAreOfConnection, Mine
    <3> QED
      BY <3>5, <3>6, <3>7 DEF Rows
  <2>5. CASE /\ loads[i].mine /\ loads' = [loads EXCEPT ![i] = None]
             /\ isLoading' = FALSE /\ btnLoad' = "Refresh" /\ allRows' = pages
    <3>1. Mine(i) /\ isSempConnected
      BY <2>0, <2>5, <1>0 DEF Mine, LoadsAreOfConnection
    <3>2. lastLoadError' \in BOOLEAN /\ UNCHANGED <<isSempConnected, sempCredentials>>
      BY <2>0, <1>0 DEF PageTypes
    <3>3. /\ allRows' \in Seq(Credentials) \cup {None}
          /\ \A k \in DOMAIN allRows' : allRows'[k] = sempCredentials
      BY <2>2, <2>5, <3>1
    <3> QED
      BY <2>0, <2>5, <3>1, <3>2, <3>3, <1>0, Gone
  <2> QED
    BY <1>7, <2>3, <2>4, <2>5 DEF Page, pages
<1> QED
  BY <1>1, <1>2, <1>3, <1>4, <1>5, <1>6, <1>7 DEF Next, SempNext, vars

-----------------------------------------------------------------------------
(* Start-up.                                                               *)

BrowserEvent == "browser:available"

KernelTypes ==
  /\ loadedModules \subseteq Modules /\ revealed \subseteq Modules
  /\ installing \in 0..Len(Order) \cup {None}
  /\ pending \in Seq({BrowserEvent})

\* Who is loaded listens, and each only to its own event.
Listening ==
  /\ \A m \in loadedModules : <<Awaits(m), m>> \in listeners
  /\ \A m \in Modules, e \in {"browser:available", "jszip:loaded"} :
       <<e, m>> \in listeners => e = Awaits(m)

\* Before the end of the start everything emitted is held back.
Starting ==
  ~bridged =>
    /\ active = None /\ sidebar = {}
    /\ installing # None => held
    /\ installing = None => loadedModules = {} /\ pending = <<>>
    /\ pending # <<>> <=> QueueBrowser \in loadedModules
    /\ Discovery \notin revealed
    /\ QueueBrowser \in revealed => jszipLoaded

\* After it, the controls that wait are shown as they should be.
Started ==
  bridged =>
    /\ installing = None /\ pending = <<>> /\ ~held /\ sidebar = loadedModules
    /\ active \in loadedModules \cup {None}
    /\ Discovery \in loadedModules => (Discovery \in revealed <=> QueueBrowser \in loadedModules)
    /\ QueueBrowser \in loadedModules => (QueueBrowser \in revealed <=> jszipLoaded)

KInv == KernelTypes /\ Listening /\ Starting /\ Started

LEMMA Delivered ==
  ASSUME KInv, NEW e \in {"browser:available", "jszip:loaded"}
  PROVE  /\ deliver(<<e>>) \subseteq Modules
         /\ \A m \in Modules : m \in deliver(<<e>>) <=> <<e, m>> \in listeners
<1>1. DOMAIN <<e>> = {1} /\ <<e>>[1] = e
  OBVIOUS
<1>2. \A m \in Modules : (\E i \in DOMAIN <<e>> : <<(<<e>>)[i], m>> \in listeners)
                         <=> <<e, m>> \in listeners
  BY <1>1
<1> QED
  BY <1>2 DEF deliver

LEMMA WaitFor ==
  /\ Awaits(Discovery) = "browser:available" /\ Awaits(QueueBrowser) = "jszip:loaded"
  /\ \A m : m \notin {Discovery, QueueBrowser} => Awaits(m) = None
BY OrderAssumption DEF Awaits

\* The module shown first is one that is loaded, if any is.
LEMMA FirstIsLoaded ==
  ASSUME loadedModules \subseteq Modules
  PROVE  firstInstalled \in loadedModules \cup {None}
<1>1. CASE loadedModules = {}
  BY <1>1 DEF firstInstalled
<1>2. CASE loadedModules # {}
  <2> DEFINE S == {i \in DOMAIN Order : Order[i] \in loadedModules}
  <2>1. S # {} /\ S \in SUBSET Nat /\ DOMAIN Order = 1..Len(Order) /\ Len(Order) \in Nat
    BY <1>2, OrderAssumption DEF Modules, ToSet
  <2>2. \E x \in S : \A y \in S : ~(<<y, x>> \in OpToRel(<, Nat))
    <3> HIDE DEF S
    <3> QED
      BY <2>1, NatLessThanWellFounded, WFMin
  <2>3. \A x, y \in Nat : <<y, x>> \in OpToRel(<, Nat) <=> y < x
    BY DEF OpToRel
  <2>4. PICK i \in S : \A j \in S : ~(j < i)
    BY <2>1, <2>2, <2>3
  <2>5. /\ i \in DOMAIN Order /\ Order[i] \in loadedModules
        /\ \A j \in 1..i-1 : Order[j] \notin loadedModules
    BY <2>1, <2>4
  <2> QED
    BY <1>2, <2>5 DEF firstInstalled
<1> QED
  BY <1>1, <1>2

LEMMA KernelStarts == KernelInit => KInv
BY OrderAssumption
   DEF KernelInit, KInv, KernelTypes, Listening, Starting, Started

LEMMA KernelStep == KInv /\ [KernelNext]_kernelVars => KInv'
<1> SUFFICES ASSUME KInv, [KernelNext]_kernelVars
             PROVE  KInv'
  OBVIOUS
<1> USE OrderAssumption
<1>0. KernelTypes /\ Listening /\ Starting /\ Started
  BY DEF KInv
<1>1. CASE start
  BY <1>1, <1>0 DEF start, hold, KInv, KernelTypes, Listening, Starting, Started
<1>2. CASE installModule
  <2> DEFINE m == Order[installing + 1]
  <2>1. /\ installing \in 0..Len(Order) /\ installing' = installing + 1 /\ installing < Len(Order)
        /\ installing # None /\ installing' # None
        /\ UNCHANGED <<held, jszipLoaded, bridged, sidebar, active>>
        /\ Installs(m) \/ InstallFails(m)
    BY <1>2, <1>0 DEF installModule, KernelTypes
  <2>2. m \in Modules /\ installing' \in 0..Len(Order)
    BY <2>1 DEF Modules, ToSet
  <2>3. ~bridged /\ held
    BY <2>1, <1>0 DEF Starting, Started
  <2> HIDE DEF m
  <2>4. CASE Installs(m)
    <3>1. /\ loadedModules' = loadedModules \cup {m}
          /\ listeners' = listeners \cup {<<Awaits(m), m>>}
          /\ m # QueueBrowser => UNCHANGED <<pending, revealed>>
          /\ m = QueueBrowser => /\ pending' = Append(pending, BrowserEvent)
                                 /\ revealed' = revealed \cup (IF jszipLoaded THEN {m} ELSE {})
      BY <2>3, <2>4 DEF Installs, emit, BrowserEvent
    <3>2. pending' \in Seq({BrowserEvent}) /\ (m = QueueBrowser => pending' # <<>>)
      BY <3>1, <1>0 DEF KernelTypes
    <3>3. KernelTypes'
      BY <2>2, <3>1, <3>2, <1>0 DEF KernelTypes
    <3>4. Listening'
      BY <3>1, <1>0 DEF Listening
    <3>5. Starting' /\ Started'
      BY <2>1, <2>3, <3>1, <3>2, <1>0 DEF Starting, Started
    <3> QED
      BY <3>3, <3>4, <3>5 DEF KInv
  <2>5. CASE InstallFails(m)
    <3>1. /\ UNCHANGED <<loadedModules, pending, revealed>>
          /\ listeners' = listeners \/ listeners' = listeners \cup {<<Awaits(m), m>>}
      BY <2>5 DEF InstallFails
    <3>2. KernelTypes' /\ Listening'
      BY <2>2, <3>1, <1>0 DEF KernelTypes, Listening
    <3>3. Starting' /\ Started'
      BY <2>1, <2>3, <3>1, <1>0 DEF Starting, Started
    <3> QED
      BY <3>2, <3>3 DEF KInv
  <2> QED
    BY <2>1, <2>4, <2>5
<1>3. CASE StartEnds
  <2>1. /\ held' = FALSE /\ pending' = <<>> /\ bridged' = TRUE /\ sidebar' = loadedModules
        /\ active' = firstInstalled /\ installing' = None
        /\ revealed' = revealed \cup deliver(pending) \cup ZipAtLast
        /\ UNCHANGED <<loadedModules, listeners, jszipLoaded>> /\ ~bridged
    BY <1>3, <1>0 DEF StartEnds, Started
  <2>2. ZipAtLast \subseteq Modules
        /\ \A m \in Modules : m \in ZipAtLast <=> jszipLoaded /\ <<"jszip:loaded", m>> \in listeners
    BY Delivered DEF ZipAtLast
  <2>3. deliver(pending) \subseteq Modules
        /\ \A m \in Modules : m \in deliver(pending)
             <=> pending # <<>> /\ <<"browser:available", m>> \in listeners
    <3>1. /\ \A i \in DOMAIN pending : pending[i] = "browser:available"
          /\ pending # <<>> => 1 \in DOMAIN pending
          /\ pending = <<>> => DOMAIN pending = {}
      BY <1>0 DEF KernelTypes, BrowserEvent
    <3>2. \A m \in Modules : (\E i \in DOMAIN pending : <<pending[i], m>> \in listeners)
            <=> pending # <<>> /\ <<"browser:available", m>> \in listeners
      BY <3>1
    <3> QED
      BY <3>2 DEF deliver
  <2>4. KernelTypes' /\ Listening'
    BY <2>1, <2>2, <2>3, <1>0 DEF KernelTypes, Listening
  <2>5. firstInstalled \in loadedModules \cup {None}
    BY <1>0, FirstIsLoaded DEF KernelTypes
  <2>6. /\ Discovery \in loadedModules =>
             Discovery \in Modules /\ <<"browser:available", Discovery>> \in listeners
                                   /\ <<"jszip:loaded", Discovery>> \notin listeners
        /\ QueueBrowser \in loadedModules =>
             QueueBrowser \in Modules /\ <<"jszip:loaded", QueueBrowser>> \in listeners
                                      /\ <<"browser:available", QueueBrowser>> \notin listeners
    BY <1>0, WaitFor DEF Listening, KernelTypes
  <2>7. Starting' /\ Started'
    BY <2>1, <2>2, <2>3, <2>5, <2>6, <1>0 DEF Starting, Started
  <2> QED
    BY <2>4, <2>7 DEF KInv
<1>4. CASE JszipLoads
  <2>1. /\ jszipLoaded' = TRUE
        /\ UNCHANGED <<installing, loadedModules, listeners, held, bridged, sidebar, active>>
    BY <1>4 DEF JszipLoads
  <2>2. CASE bridged
    <3>1. /\ pending' = pending /\ revealed' = revealed \cup deliver(<<"jszip:loaded">>)
      BY <1>4, <2>2, <1>0 DEF JszipLoads, emit, Started
    <3>2. /\ deliver(<<"jszip:loaded">>) \subseteq Modules
          /\ \A m \in Modules : m \in deliver(<<"jszip:loaded">>)
               <=> <<"jszip:loaded", m>> \in listeners
      BY Delivered
    <3>3. /\ Discovery \in loadedModules =>
               Discovery \in Modules /\ <<"jszip:loaded", Discovery>> \notin listeners
          /\ QueueBrowser \in loadedModules =>
               QueueBrowser \in Modules /\ <<"jszip:loaded", QueueBrowser>> \in listeners
      BY <1>0, WaitFor DEF Listening, KernelTypes
    <3>4. KernelTypes' /\ Listening'
      BY <2>1, <3>1, <3>2, <1>0 DEF KernelTypes, Listening
    <3>5. Starting' /\ Started'
      BY <2>1, <2>2, <3>1, <3>2, <3>3, <1>0 DEF Starting, Started
    <3> QED
      BY <3>4, <3>5 DEF KInv
  <2>3. CASE ~bridged
    <3>1. UNCHANGED <<revealed, pending>>
      BY <1>4, <2>3 DEF JszipLoads
    <3> QED
      BY <2>1, <2>3, <3>1, <1>0 DEF KInv, KernelTypes, Listening, Starting, Started
  <2> QED
    BY <2>2, <2>3
<1>5. CASE \E id \in sidebar \ {active} : navigateTo(id)
  <2>1. PICK id \in sidebar \ {active} : navigateTo(id)
    BY <1>5
  <2>2. /\ active' = id /\ id \in loadedModules
        /\ UNCHANGED <<installing, loadedModules, busVars, jszipLoaded, bridged, revealed, sidebar>>
    BY <2>1 DEF navigateTo
  <2>3. bridged
    BY <2>1, <1>0 DEF Starting
  <2> QED
    BY <2>2, <2>3, <1>0 DEF busVars, KInv, KernelTypes, Listening, Starting, Started
<1>6. CASE UNCHANGED kernelVars
  BY <1>6, <1>0 DEF kernelVars, busVars, KInv, KernelTypes, Listening, Starting, Started
<1> QED
  BY <1>1, <1>2, <1>3, <1>4, <1>5, <1>6 DEF KernelNext

-----------------------------------------------------------------------------
\* The inductive invariant of the connection and its page.
THEOREM Invariant == Spec => []IInv
<1>1. Init => IInv
  <2> SUFFICES ASSUME SempInit
               PROVE  IInv
    BY DEF Init
  <2>1. Conn
    BY SempAssumption
       DEF SempInit, Conn, SempTypes, ConnectionIsValidated, ButtonTells, DisabledWhileProbing,
           DeniedIsOver
  <2>2. PageTypes
    BY DEF SempInit, PageTypes
  <2>3. \A i \in Slots : ~Mine(i)
    BY DEF SempInit, Mine
  <2>4. LoadsAreOfConnection /\ RowsAreOfConnection
    BY <2>3 DEF SempInit, LoadsAreOfConnection, RowsAreOfConnection, Mine
  <2> QED
    BY <2>1, <2>2, <2>4 DEF IInv, Rows
<1>2. IInv /\ [Next]_vars => IInv'
  BY ConnStep, RowsStep DEF IInv
<1> QED
  BY <1>1, <1>2, PTL DEF Spec

LEMMA KernelAlways == Spec => []KInv
<1>1. Init => KInv
  BY KernelStarts DEF Init
<1>2. KInv /\ [Next]_vars => KInv'
  <2>1. [Next]_vars => [KernelNext]_kernelVars
    BY DEF Next, vars
  <2> QED
    BY <2>1, KernelStep
<1> QED
  BY <1>1, <1>2, PTL DEF Spec

\* Every variable keeps its type.
THEOREM TypeCorrect == Spec => []TypeOK
<1>1. IInv /\ KInv => TypeOK
  BY DEF IInv, Conn, Rows, SempTypes, PageTypes, KInv, KernelTypes, Starting, Started, TypeOK
<1> QED
  BY <1>1, Invariant, KernelAlways, PTL

\* However installs, the JSZip script and announcements interleave, the start is complete.
THEOREM StartComplete == Spec => []StartIsComplete
<1>1. KInv => StartIsComplete
  BY DEF KInv, Starting, Started, StartIsComplete, Running
<1> QED
  BY <1>1, KernelAlways, PTL

\* What is connected is what was validated, as one piece.
THEOREM ConnectionValidated == Spec => []ConnectionIsValidated
<1>1. IInv => ConnectionIsValidated
  BY DEF IInv, Conn
<1> QED
  BY <1>1, Invariant, PTL

\* The Connect button tells the truth, but for a denial.
THEOREM ButtonTruthful == Spec => []ButtonTells
<1>1. IInv => ButtonTells
  BY DEF IInv, Conn
<1> QED
  BY <1>1, Invariant, PTL

\* No row of an earlier connection is ever listed.
THEOREM RowsBelong == Spec => []RowsAreOfConnection
<1>1. IInv => RowsAreOfConnection
  BY DEF IInv, Rows
<1> QED
  BY <1>1, Invariant, PTL

\* A connection ends by the user or by a denial, its own or a late one.
THEOREM EndHasCause == Spec => EndsForCause
<1>1. IInv /\ [Next]_vars =>
        [isSempConnected /\ ~isSempConnected' =>
           \/ label' = "Connect"
           \/ sempCredentials.as \in revoked \cup Wide
           \/ denied' = "stale"]_vars
  <2> SUFFICES ASSUME IInv, [Next]_vars, isSempConnected, ~isSempConnected'
               PROVE  \/ label' = "Connect"
                      \/ sempCredentials.as \in revoked \cup Wide
                      \/ denied' = "stale"
    OBVIOUS
  <2>0. PageTypes /\ SempTypes /\ ConnectionIsValidated
    BY DEF IInv, Conn, Rows
  <2>1. CASE btnSemp
    BY <2>1 DEF btnSemp, onDisconnected
  <2>2. ASSUME NEW i \in Slots, Fails(i)
        PROVE  \/ sempCredentials.as \in revoked \cup Wide
               \/ denied' = "stale"
    BY <2>2 DEF Fails, Terminates, Denies, connVars
  <2>3. CASE editForm \/ load \/ Revoke \/ (\E c \in Confs : connect(c))
             \/ (\E i \in Slots : PauseEnds(i) \/ Page(i)) \/ UNCHANGED sempVars
    BY <2>0, <2>3
       DEF editForm, load, Revoke, connect, PauseEnds, Page, sempVars, connVars,
           ConnectionIsValidated
  <2> QED
    BY <2>1, <2>2, <2>3 DEF Next, SempNext, vars
<1> QED
  BY <1>1, Invariant, PTL DEF Spec, EndsForCause

-----------------------------------------------------------------------------
(* The queue picker, for any brokers, lists, number of pages, loads and    *)
(* generations.  The same is said of a picker and of the loads in flight   *)
(* whether it is the open one or the one a handler is about to leave.      *)

Cache == [baseUrl : Brokers, vpns : VpnList, queues : QueueLists]
Generator == [kind : {"vpns", "queues"}, ctx : Contexts, own : BOOLEAN,
              got : SUBSET (Vpn \cup Queue), page : Nat \ {0}, vpn : Vpns \cup {Null},
              gen : 0..MaxGen, st : {"asked", "resting"}, at : Brokers \cup {Null}]

\* A list of a VPN's queues has queues of that VPN.
OfVpn(lists) == \A v \in Vpns : lists[v] # Null => \A q \in lists[v] : q.vpn = v

\* They are of the broker b.
AllAt(lists, b) == \A v \in Vpns : lists[v] # Null => \A q \in lists[v] : q.at = b

\* The lists of the cache c, after a crossing if x.
Kept(c, x) ==
  /\ c \in Cache /\ OfVpn(c.queues)
  /\ ~x => /\ c.vpns \in {Null, AllVpns(c.baseUrl)}
           /\ \A v \in Vpns : c.queues[v] \in {Null, AllQueues(c.baseUrl, v)}

\* What the picker s shows.
Shown(s, x) ==
  /\ s \in Picker /\ (s.listening => s.selectedVpn # Null)
  /\ OfVpn(s.queueCache) /\ (~x => AllAt(s.queueCache, s.ctx.baseUrl))
  /\ s.selectedQueue # Null => s.selectedQueue.vpn = s.selectedVpn
  /\ ~x => (s.selectedQueue # Null => s.selectedQueue.at = s.ctx.baseUrl)

\* Beneath a picker with the context ctx the primary connection is to its broker, or down.
Beneath(p, ctx) == ~ctx.bound => p \in {ctx.baseUrl, Null}

GenOf(s, kind) == IF kind = "vpns" THEN s.vpnFetchGen ELSE s.queueFetchGen

\* How many pages a load has taken.
Taken(f) == IF f.st = "asked" THEN f.page - 1 ELSE f.page

\* A load of the picker s asks the picker's broker and has what came before.
OwnLoad(f, s) ==
  /\ s # Null /\ f.ctx = s.ctx /\ f.at \in {s.ctx.baseUrl, Null}
  /\ f.gen <= GenOf(s, f.kind)
  /\ f.got = IF f.kind = "vpns" THEN VpnsUpTo(s.ctx.baseUrl, Taken(f))
             ELSE QueuesUpTo(s.ctx.baseUrl, f.vpn, Taken(f))

\* The list that is shown of the VPN being loaded is no longer than what the load has.
Leads(f, s) ==
  f.kind = "queues" /\ f.gen = s.queueFetchGen => Holds(s.queueCache[f.vpn]) \subseteq f.got

GeneratorTypes(f) ==
  /\ f \in Generator
  /\ f.kind = "vpns" => f.got \subseteq Vpn
  /\ f.kind = "queues" => /\ f.got \subseteq Queue /\ f.vpn \in Vpns
                          /\ \A q \in f.got : q.vpn = f.vpn

Flight(f, s, x) == GeneratorTypes(f) /\ (f.own => OwnLoad(f, s) /\ (~x => Leads(f, s)))

\* Generations tell the picker's own loads of queues apart.
Distinct(ls) ==
  \A i, j \in Fetches :
    /\ ls[i] # Null /\ ls[i].own /\ ls[i].kind = "queues"
    /\ ls[j] # Null /\ ls[j].own /\ ls[j].kind = "queues"
    /\ ls[i].gen = ls[j].gen
    => i = j

Flights(ls, s, x) ==
  /\ DOMAIN ls = Fetches /\ Distinct(ls)
  /\ \A i \in Fetches : ls[i] # Null => Flight(ls[i], s, x)

Grounds == primary \in Brokers \cup {Null} /\ crossed \in BOOLEAN
KeptRight == cache # Null => Kept(cache, crossed)
ShownRight == IsOpen => Shown(state, crossed) /\ Beneath(primary, state.ctx)
FlightsRight == Flights(fetches, state, crossed)

PickerInv == Grounds /\ KeptRight /\ ShownRight /\ FlightsRight

-----------------------------------------------------------------------------
(* Pages.                                                                  *)

LEMMA ContextTypes ==
  ASSUME NEW ctx \in Contexts
  PROVE  ctx.baseUrl \in Brokers /\ ctx.bound \in BOOLEAN
  BY PickerAssumption

\* A page has entries of its list.
LEMMA VpnPageTypes ==
  ASSUME NEW b \in Brokers, NEW n \in DOMAIN VpnPages[b]
  PROVE  VpnPage(b, n) \subseteq Vpn
<1>1. VpnPages[b][n] \in SUBSET Vpns
  BY PickerAssumption
<1> QED
  BY <1>1 DEF VpnPage, Vpn

LEMMA QueuePageTypes ==
  ASSUME NEW b \in Brokers, NEW v \in Vpns, NEW n \in Nat
  PROVE  /\ QueuePage(b, v, n) \subseteq Queue
         /\ \A q \in QueuePage(b, v, n) : q.at = b /\ q.vpn = v
  BY DEF QueuePage, Queue

\* One page more.
LEMMA OneMore ==
  ASSUME NEW n \in Nat \ {0}
  PROVE  1..n = (1..(n - 1)) \cup {n}
  OBVIOUS

LEMMA VpnPageMore ==
  ASSUME NEW b, NEW n \in Nat \ {0}
  PROVE  VpnsUpTo(b, n) = VpnsUpTo(b, n - 1) \cup VpnPage(b, n)
  BY OneMore DEF VpnsUpTo

LEMMA QueuePageMore ==
  ASSUME NEW b, NEW v, NEW n \in Nat \ {0}
  PROVE  QueuesUpTo(b, v, n) = QueuesUpTo(b, v, n - 1) \cup QueuePage(b, v, n)
  BY OneMore DEF QueuesUpTo

LEMMA NoPages ==
  ASSUME NEW b, NEW v
  PROVE  VpnsUpTo(b, 0) = {} /\ QueuesUpTo(b, v, 0) = {}
<1>1. 1..0 = {}
  OBVIOUS
<1> QED
  BY <1>1 DEF VpnsUpTo, QueuesUpTo

\* Queues read from a broker are of it and of the VPN they were asked of.
LEMMA QueuesUpToAt ==
  ASSUME NEW b \in Brokers, NEW v \in Vpns, NEW n \in Nat
  PROVE  \A q \in QueuesUpTo(b, v, n) : q.at = b /\ q.vpn = v
  BY QueuePageTypes DEF QueuesUpTo

-----------------------------------------------------------------------------
(* A picker and its loads, before and after a load begins.                 *)

\* What is known of a load before a crossing is known after it.
LEMMA Weaker ==
  ASSUME NEW ls, NEW s, NEW x \in BOOLEAN, NEW y \in BOOLEAN, x => y
  PROVE  /\ Shown(s, x) => Shown(s, y)
         /\ Kept(s, x) => Kept(s, y)
         /\ Flights(ls, s, x) => Flights(ls, s, y)
  BY DEF Shown, Kept, Flights, Flight

\* A load that is over is no longer in flight.
LEMMA OverRight ==
  ASSUME NEW ls, NEW s, NEW x, Flights(ls, s, x), NEW i \in Fetches
  PROVE  Flights([ls EXCEPT ![i] = Null], s, x)
  BY DEF Flights, Distinct

LEMMA fetchRight ==
  ASSUME primary \in Brokers \cup {Null}, NEW ctx \in Contexts, Beneath(primary, ctx)
  PROVE  fetch(ctx) \in {ctx.baseUrl, Null} /\ fetch(ctx) \in Brokers \cup {Null}
  BY ContextTypes DEF fetch, Beneath

LEMMA FetchVpnsRight ==
  ASSUME NEW ls, NEW s, NEW x \in BOOLEAN, Shown(s, x), Flights(ls, s, x),
         primary \in Brokers \cup {Null}, Beneath(primary, s.ctx), fetchVpns(ls, s)
  PROVE  /\ Shown(state', x) /\ Flights(fetches', state', x)
         /\ state'.ctx = s.ctx /\ state' # Null /\ state'.queueCache = s.queueCache
<1> DEFINE t == [s EXCEPT !.vpnFetchGen = @ + 1]
<1>1. /\ s \in Picker /\ s.ctx \in Contexts /\ s.vpnFetchGen \in Nat /\ s.vpnFetchGen < MaxGen
      /\ state' = t /\ fetches' = Begun(ls, t, "vpns") /\ MaxGen \in Nat
  BY PickerAssumption DEF Shown, Picker, fetchVpns
<1>2. /\ t \in Picker /\ t.ctx = s.ctx /\ t.queueCache = s.queueCache
      /\ t.selectedVpn = s.selectedVpn /\ t.selectedQueue = s.selectedQueue
      /\ t.listening = s.listening /\ t.queueFetchGen = s.queueFetchGen
      /\ t.vpnFetchGen = s.vpnFetchGen + 1
  BY <1>1 DEF Picker
<1>3. t # Null
  BY <1>2, PickerAssumption
<1> HIDE DEF t
<1>4. Shown(t, x)
  BY <1>2 DEF Shown
<1>5. PICK i \in Fetches :
        /\ ls[i] = Null
        /\ fetches' = [ls EXCEPT ![i] = [kind |-> "vpns", ctx |-> t.ctx, own |-> TRUE, got |-> {},
                                         page |-> 1, vpn |-> Null, gen |-> t.vpnFetchGen,
                                         st |-> "asked", at |-> fetch(t.ctx)]]
  <2>1. DOMAIN ls = Fetches /\ \E i \in Fetches : ls[i] = Null
    BY DEF Flights, fetchVpns
  <2> QED
    BY <2>1, <1>1 DEF Begun
<1> DEFINE f == [kind |-> "vpns", ctx |-> t.ctx, own |-> TRUE, got |-> {},
                 page |-> 1, vpn |-> Null, gen |-> t.vpnFetchGen,
                 st |-> "asked", at |-> fetch(t.ctx)]
<1>6. Flight(f, t, x)
  <2>1. fetch(t.ctx) \in {t.ctx.baseUrl, Null} /\ fetch(t.ctx) \in Brokers \cup {Null}
    BY <1>1, <1>2, fetchRight
  <2>2. GeneratorTypes(f)
    BY <1>1, <1>2, <2>1 DEF GeneratorTypes, Generator
  <2>3. Taken(f) = 0 /\ f.got = VpnsUpTo(t.ctx.baseUrl, 0)
    BY NoPages DEF Taken
  <2>4. OwnLoad(f, t)
    BY <1>1, <1>2, <1>3, <2>1, <2>3 DEF OwnLoad, GenOf
  <2>5. Leads(f, t)
    BY DEF Leads
  <2> QED
    BY <2>2, <2>4, <2>5 DEF Flight
<1>7. f.kind = "vpns"
  OBVIOUS
<1> HIDE DEF f
<1>8. ASSUME NEW k \in Fetches, ls[k] # Null
      PROVE  Flight(ls[k], t, x)
  <2>1. Flight(ls[k], s, x)
    BY <1>8 DEF Flights
  <2>2. GeneratorTypes(ls[k]) /\ ls[k].gen \in Nat
    BY <2>1, PickerAssumption DEF Flight, GeneratorTypes, Generator
  <2>3. ls[k].own => OwnLoad(ls[k], t)
    BY <2>1, <2>2, <1>1, <1>2, <1>3 DEF Flight, OwnLoad, GenOf
  <2>4. Leads(ls[k], s) => Leads(ls[k], t)
    BY <1>2 DEF Leads
  <2> QED
    BY <2>1, <2>2, <2>3, <2>4 DEF Flight
<1>9. /\ DOMAIN fetches' = Fetches /\ fetches'[i] = f
      /\ \A k \in Fetches \ {i} : fetches'[k] = ls[k]
  BY <1>5 DEF f, Flights
<1>10. Distinct(fetches')
  BY <1>9, <1>7 DEF Flights, Distinct
<1>11. Flights(fetches', t, x)
  BY <1>6, <1>8, <1>9, <1>10 DEF Flights
<1> QED
  BY <1>1, <1>2, <1>3, <1>4, <1>11

LEMMA FetchQueuesRight ==
  ASSUME NEW ls, NEW s, NEW x \in BOOLEAN, Shown(s, x), Flights(ls, s, x), s.selectedVpn \in Vpns,
         primary \in Brokers \cup {Null}, Beneath(primary, s.ctx), fetchQueues(ls, s)
  PROVE  /\ Shown(state', x) /\ Flights(fetches', state', x)
         /\ state'.ctx = s.ctx /\ state' # Null
         /\ state'.queueCache = [s.queueCache EXCEPT ![s.selectedVpn] = Null]
<1> DEFINE t == [s EXCEPT !.queueFetchGen = @ + 1, !.queueCache[s.selectedVpn] = Null]
<1> DEFINE v == s.selectedVpn
<1>1. /\ s \in Picker /\ s.ctx \in Contexts /\ s.queueFetchGen \in Nat /\ s.queueFetchGen < MaxGen
      /\ state' = t /\ fetches' = Begun(ls, t, "queues") /\ MaxGen \in Nat
  BY PickerAssumption DEF Shown, Picker, fetchQueues
<1>2. /\ t.ctx = s.ctx /\ t.queueCache = [s.queueCache EXCEPT ![v] = Null]
      /\ t.selectedVpn = v /\ t.selectedQueue = s.selectedQueue
      /\ t.listening = s.listening /\ t.vpnFetchGen = s.vpnFetchGen
      /\ t.queueFetchGen = s.queueFetchGen + 1
  BY <1>1 DEF Picker
<1>3. t \in Picker
  <2> DEFINE l == [s.queueCache EXCEPT ![v] = Null]
  <2>1. s.queueCache \in QueueLists /\ l \in QueueLists
    BY <1>1 DEF Picker, QueueLists
  <2> DEFINE u == [s EXCEPT !.queueFetchGen = @ + 1]
  <2>2. u \in Picker
    BY <1>1 DEF Picker
  <2>3. t = [u EXCEPT !.queueCache = l]
    BY <1>1 DEF Picker
  <2> HIDE DEF l, t, u
  <2>4. [u EXCEPT !.queueCache = l] \in Picker
    BY <2>1, <2>2 DEF Picker
  <2> QED
    BY <2>3, <2>4
<1>4. t # Null
  BY <1>3, PickerAssumption
<1>5. /\ t.queueCache[v] = Null
      /\ \A w \in Vpns \ {v} : t.queueCache[w] = s.queueCache[w]
  BY <1>1, <1>2 DEF Picker, QueueLists
<1> HIDE DEF t
<1>6. Shown(t, x)
  BY <1>2, <1>3, <1>5 DEF Shown, OfVpn, AllAt
<1>7. PICK i \in Fetches :
        /\ ls[i] = Null
        /\ fetches' = [ls EXCEPT ![i] = [kind |-> "queues", ctx |-> t.ctx, own |-> TRUE, got |-> {},
                                         page |-> 1, vpn |-> t.selectedVpn, gen |-> t.queueFetchGen,
                                         st |-> "asked", at |-> fetch(t.ctx)]]
  <2>1. DOMAIN ls = Fetches /\ \E i \in Fetches : ls[i] = Null
    BY DEF Flights, fetchQueues
  <2> QED
    BY <2>1, <1>1 DEF Begun
<1> DEFINE f == [kind |-> "queues", ctx |-> t.ctx, own |-> TRUE, got |-> {},
                 page |-> 1, vpn |-> t.selectedVpn, gen |-> t.queueFetchGen,
                 st |-> "asked", at |-> fetch(t.ctx)]
<1>8. Flight(f, t, x)
  <2>1. fetch(t.ctx) \in {t.ctx.baseUrl, Null} /\ fetch(t.ctx) \in Brokers \cup {Null}
    BY <1>1, <1>2, fetchRight
  <2>2. GeneratorTypes(f)
    BY <1>1, <1>2, <2>1 DEF GeneratorTypes, Generator
  <2>3. Taken(f) = 0 /\ f.got = QueuesUpTo(t.ctx.baseUrl, f.vpn, 0)
    BY NoPages DEF Taken
  <2>4. OwnLoad(f, t)
    BY <1>1, <1>2, <1>4, <2>1, <2>3 DEF OwnLoad, GenOf
  <2>5. Leads(f, t)
    BY <1>2, <1>5 DEF Leads, Holds
  <2> QED
    BY <2>2, <2>4, <2>5 DEF Flight
<1>9. f.gen = s.queueFetchGen + 1
  BY <1>2
<1> HIDE DEF f
<1>10. ASSUME NEW k \in Fetches, ls[k] # Null
       PROVE  /\ Flight(ls[k], t, x)
              /\ ls[k].own /\ ls[k].kind = "queues" => ls[k].gen # f.gen
  <2>1. Flight(ls[k], s, x)
    BY <1>10 DEF Flights
  <2>2. GeneratorTypes(ls[k]) /\ ls[k].gen \in Nat
    BY <2>1, PickerAssumption DEF Flight, GeneratorTypes, Generator
  <2>3. ls[k].own => OwnLoad(ls[k], t)
    BY <2>1, <2>2, <1>1, <1>2, <1>4 DEF Flight, OwnLoad, GenOf
  <2>4. ls[k].own /\ ls[k].kind = "queues" => ls[k].gen <= s.queueFetchGen
    BY <2>1 DEF Flight, OwnLoad, GenOf
  <2>5. ls[k].own => Leads(ls[k], t)
    BY <1>1, <1>2, <2>2, <2>4 DEF Leads
  <2> QED
    BY <1>1, <1>9, <2>2, <2>3, <2>4, <2>5 DEF Flight
<1>11. /\ DOMAIN fetches' = Fetches /\ fetches'[i] = f
       /\ \A k \in Fetches \ {i} : fetches'[k] = ls[k]
  BY <1>7 DEF f, Flights
<1>12. Distinct(fetches')
  BY <1>10, <1>11 DEF Flights, Distinct
<1>13. Flights(fetches', t, x)
  BY <1>8, <1>10, <1>11, <1>12 DEF Flights
<1> QED
  BY <1>1, <1>2, <1>4, <1>6, <1>13

\* Another VPN is chosen, and shown or loaded.  No list loses an entry.
LEMMA SelectVpnRight ==
  ASSUME NEW ls, NEW s, NEW x \in BOOLEAN, NEW v \in Vpns, Shown(s, x), Flights(ls, s, x),
         primary \in Brokers \cup {Null}, Beneath(primary, s.ctx), selectVpn(ls, s, v)
  PROVE  /\ Shown(state', x) /\ Flights(fetches', state', x)
         /\ state'.ctx = s.ctx /\ state' # Null
         /\ \A w \in Vpns : Holds(s.queueCache[w]) \subseteq Holds(state'.queueCache[w])
<1> DEFINE u == Unchosen(s, v)
<1>1. /\ u \in Picker /\ u.ctx = s.ctx /\ u.selectedVpn = v /\ u.selectedQueue = Null
      /\ u.queueCache = s.queueCache /\ u.queueFetchGen = s.queueFetchGen
      /\ u.vpnFetchGen = s.vpnFetchGen /\ u.queueCache \in QueueLists
  BY DEF Shown, Picker, Unchosen
<1>2. u # Null /\ v # Null
  BY <1>1, PickerAssumption
<1> HIDE DEF u
<1>3. Shown(u, x)
  BY <1>1, <1>2 DEF Shown
<1>4. Flights(ls, u, x)
  <2> SUFFICES ASSUME NEW k \in Fetches, ls[k] # Null
               PROVE  Flight(ls[k], u, x)
    BY DEF Flights
  <2>1. Flight(ls[k], s, x)
    BY DEF Flights
  <2> QED
    BY <2>1, <1>1, <1>2 DEF Flight, OwnLoad, GenOf, Leads
<1>5. CASE s.queueCache[v] # Null
  BY <1>1, <1>2, <1>3, <1>4, <1>5 DEF selectVpn, u
<1>6. CASE s.queueCache[v] = Null
  <2>1. fetchQueues(ls, u)
    BY <1>6 DEF selectVpn, u
  <2>2. /\ Shown(state', x) /\ Flights(fetches', state', x)
        /\ state'.ctx = u.ctx /\ state' # Null
        /\ state'.queueCache = [u.queueCache EXCEPT ![v] = Null]
    BY <2>1, <1>1, <1>3, <1>4, FetchQueuesRight
  <2>3. \A w \in Vpns : state'.queueCache[w] = s.queueCache[w]
    BY <2>2, <1>1, <1>6 DEF QueueLists
  <2> QED
    BY <2>2, <2>3, <1>1
<1> QED
  BY <1>5, <1>6

-----------------------------------------------------------------------------
(* The actions.                                                            *)

LEMMA ensureCacheRight ==
  ASSUME KeptRight, crossed \in BOOLEAN, NEW ctx \in Contexts
  PROVE  Kept(ensureCache(ctx), crossed) /\ ensureCache(ctx).baseUrl = ctx.baseUrl
<1>1. EmptyCache(ctx.baseUrl) \in Cache
  BY ContextTypes DEF EmptyCache, Cache, VpnList, QueueLists, NoQueues
<1>2. Kept(EmptyCache(ctx.baseUrl), crossed)
  BY <1>1 DEF Kept, OfVpn, EmptyCache, NoQueues
<1>3. EmptyCache(ctx.baseUrl).baseUrl = ctx.baseUrl
  BY DEF EmptyCache
<1> QED
  BY <1>2, <1>3 DEF ensureCache, KeptRight

\* The cache with another list of VPNs, or of a VPN's queues.
LEMMA KeepVpns ==
  ASSUME NEW c, NEW x, Kept(c, x), NEW l \in VpnList, x \/ l \in {Null, AllVpns(c.baseUrl)}
  PROVE  Kept([c EXCEPT !.vpns = l], x)
  BY DEF Kept, Cache

LEMMA KeepQueues ==
  ASSUME NEW c, NEW x, Kept(c, x), NEW v \in Vpns, NEW l \in {Null} \cup SUBSET Queue,
         l # Null => \A q \in l : q.vpn = v,
         x \/ l \in {Null, AllQueues(c.baseUrl, v)}
  PROVE  Kept([c EXCEPT !.queues[v] = l], x)
<1> DEFINE d == [c EXCEPT !.queues[v] = l]
<1>1. c.queues \in QueueLists /\ [c.queues EXCEPT ![v] = l] \in QueueLists
  BY DEF Kept, Cache, QueueLists
<1>2. /\ d \in Cache /\ d.baseUrl = c.baseUrl /\ d.vpns = c.vpns
      /\ d.queues = [c.queues EXCEPT ![v] = l]
  BY <1>1 DEF Kept, Cache
<1>3. d.queues[v] = l /\ \A w \in Vpns \ {v} : d.queues[w] = c.queues[w]
  BY <1>1, <1>2 DEF QueueLists
<1> HIDE DEF d
<1>4. OfVpn(d.queues)
  BY <1>3 DEF Kept, OfVpn
<1> QED
  BY <1>2, <1>3, <1>4 DEF Kept, d

\* A picker with another list of VPNs.
LEMMA OtherVpns ==
  ASSUME NEW ls, NEW s, NEW x, Shown(s, x), Flights(ls, s, x), NEW l \in VpnList
  PROVE  /\ Shown([s EXCEPT !.vpns = l], x) /\ Flights(ls, [s EXCEPT !.vpns = l], x)
         /\ [s EXCEPT !.vpns = l].ctx = s.ctx
         /\ [s EXCEPT !.vpns = l].selectedVpn = s.selectedVpn
         /\ [s EXCEPT !.vpns = l].queueCache = s.queueCache
<1> DEFINE u == [s EXCEPT !.vpns = l]
<1>1. /\ u \in Picker /\ u.ctx = s.ctx /\ u.selectedVpn = s.selectedVpn
      /\ u.selectedQueue = s.selectedQueue /\ u.listening = s.listening
      /\ u.queueCache = s.queueCache /\ u.queueFetchGen = s.queueFetchGen
      /\ u.vpnFetchGen = s.vpnFetchGen
  BY DEF Shown, Picker
<1>2. u # Null
  BY <1>1, PickerAssumption
<1> HIDE DEF u
<1>3. Shown(u, x)
  BY <1>1 DEF Shown
<1>4. Flights(ls, u, x)
  <2> SUFFICES ASSUME NEW k \in Fetches, ls[k] # Null
               PROVE  Flight(ls[k], u, x)
    BY DEF Flights
  <2>1. Flight(ls[k], s, x)
    BY DEF Flights
  <2> QED
    BY <2>1, <1>1, <1>2 DEF Flight, OwnLoad, GenOf, Leads
<1> QED
  BY <1>1, <1>3, <1>4 DEF u

\* A load that goes on is told apart as before.
LEMMA GoesOn ==
  ASSUME NEW ls, NEW s, NEW t, NEW x, NEW y, NEW i \in Fetches, NEW f,
         Flights(ls, s, x), Flights([ls EXCEPT ![i] = Null], t, y), ls[i] # Null, Flight(f, t, y),
         f.own = ls[i].own, f.kind = ls[i].kind, f.gen = ls[i].gen
  PROVE  Flights([ls EXCEPT ![i] = f], t, y)
<1> DEFINE ms == [ls EXCEPT ![i] = f]
<1>1. /\ DOMAIN ms = Fetches /\ ms[i] = f
      /\ \A k \in Fetches \ {i} : ms[k] = ls[k] /\ [ls EXCEPT ![i] = Null][k] = ls[k]
  BY DEF Flights
<1> HIDE DEF ms
<1>2. Distinct(ms)
  <2> SUFFICES ASSUME NEW j \in Fetches, NEW k \in Fetches,
                      ms[j] # Null, ms[j].own, ms[j].kind = "queues",
                      ms[k] # Null, ms[k].own, ms[k].kind = "queues", ms[j].gen = ms[k].gen
               PROVE  j = k
    BY DEF Distinct
  <2>1. /\ ls[j] # Null /\ ls[j].own /\ ls[j].kind = "queues" /\ ls[j].gen = ms[j].gen
        /\ ls[k] # Null /\ ls[k].own /\ ls[k].kind = "queues" /\ ls[k].gen = ms[k].gen
    BY <1>1
  <2> QED
    BY <2>1 DEF Flights, Distinct
<1>3. \A k \in Fetches : ms[k] # Null => Flight(ms[k], t, y)
  BY <1>1 DEF Flights
<1> QED
  BY <1>1, <1>2, <1>3 DEF Flights, ms

\* While no picker is open every load is an earlier one's, and none to any other.
LEMMA Orphans ==
  ASSUME NEW ls, NEW x, Flights(ls, Null, x), NEW s
  PROVE  Flights(ls, s, x)
  BY DEF Flights, Flight, OwnLoad

LEMMA PickQueueStep ==
  ASSUME PickerInv, NEW ctx \in Contexts, NEW v \in Vpns \cup {Null}, pickQueue(ctx, v)
  PROVE  PickerInv'
<1> DEFINE c == ensureCache(ctx)
<1> DEFINE s == [ctx |-> ctx, selectedVpn |-> v, selectedQueue |-> Null,
                 listening |-> FALSE, vpns |-> c.vpns, queueCache |-> c.queues,
                 vpnFetchGen |-> 0, queueFetchGen |-> 0]
<1>1. /\ Grounds /\ KeptRight /\ ~IsOpen /\ cache' = c /\ primary' = primary /\ crossed' = crossed
      /\ Flights(fetches, Null, crossed) /\ (ctx.bound \/ primary = ctx.baseUrl)
  BY DEF PickerInv, pickQueue, FlightsRight, IsOpen
<1>2. Kept(c, crossed) /\ c.baseUrl = ctx.baseUrl /\ ctx.baseUrl \in Brokers
  BY <1>1, ensureCacheRight, ContextTypes DEF Grounds
<1>3. /\ CASE c.vpns = Null -> fetchVpns(fetches, s)
            [] c.vpns # Null /\ (\E e \in c.vpns : e.vpn = v) -> selectVpn(fetches, s, v)
            [] OTHER -> state' = s /\ UNCHANGED fetches
  BY DEF pickQueue
<1>4. s \in Picker
  <2>1. c.vpns \in VpnList /\ c.queues \in QueueLists
    BY <1>2 DEF Kept, Cache
  <2> HIDE DEF c
  <2>2. MaxGen \in Nat
    BY PickerAssumption
  <2> QED
    BY <2>1, <2>2 DEF Picker
<1>5. Shown(s, crossed)
  <2>1. OfVpn(s.queueCache)
    BY <1>2 DEF Kept
  <2>2. ~crossed => AllAt(s.queueCache, ctx.baseUrl)
    <3> SUFFICES ASSUME ~crossed, NEW w \in Vpns, c.queues[w] # Null
                 PROVE  \A q \in c.queues[w] : q.at = ctx.baseUrl
      BY DEF AllAt
    <3>1. c.queues[w] = AllQueues(ctx.baseUrl, w)
      BY <1>2 DEF Kept
    <3>2. QueuePages[ctx.baseUrl][w] \in Nat
      BY <1>2, PickerAssumption
    <3> QED
      BY <3>1, <3>2, <1>2, QueuesUpToAt DEF AllQueues
  <2> HIDE DEF c
  <2> QED
    BY <1>4, <2>1, <2>2 DEF Shown
<1>6. s.ctx = ctx /\ Beneath(primary, ctx) /\ Flights(fetches, s, crossed)
  BY <1>1, Orphans DEF Beneath
<1> HIDE DEF s
<1>7. Shown(state', crossed) /\ Flights(fetches', state', crossed) /\ state'.ctx = ctx
  <2>1. CASE c.vpns = Null
    BY <2>1, <1>1, <1>3, <1>5, <1>6, FetchVpnsRight DEF Grounds
  <2>2. CASE c.vpns # Null /\ (\E e \in c.vpns : e.vpn = v)
    <3>1. v \in Vpns
      BY <2>2, <1>2 DEF Kept, Cache, VpnList, Vpn
    <3>2. selectVpn(fetches, s, v)
      BY <2>2, <1>3
    <3> QED
      BY <3>1, <3>2, <1>1, <1>5, <1>6, SelectVpnRight DEF Grounds
  <2>3. CASE c.vpns # Null /\ ~(\E e \in c.vpns : e.vpn = v)
    BY <2>3, <1>3, <1>5, <1>6
  <2> QED
    BY <2>1, <2>2, <2>3
<1> HIDE DEF c
<1>8. Grounds' /\ KeptRight'
  BY <1>1, <1>2 DEF Grounds, KeptRight
<1>9. ShownRight' /\ FlightsRight'
  BY <1>1, <1>6, <1>7 DEF ShownRight, FlightsRight
<1> QED
  BY <1>8, <1>9 DEF PickerInv

LEMMA ClickVpnStep ==
  ASSUME PickerInv, NEW v \in Vpns, ClickVpn(v)
  PROVE  PickerInv'
<1>1. /\ Shown(state, crossed) /\ Flights(fetches, state, crossed) /\ Beneath(primary, state.ctx)
      /\ Grounds /\ KeptRight /\ selectVpn(fetches, state, v)
      /\ primary' = primary /\ cache' = cache /\ crossed' = crossed
  BY DEF PickerInv, ClickVpn, ShownRight, FlightsRight
<1>2. Shown(state', crossed) /\ Flights(fetches', state', crossed) /\ state'.ctx = state.ctx
  BY <1>1, SelectVpnRight DEF Grounds
<1>3. Grounds' /\ KeptRight'
  BY <1>1 DEF Grounds, KeptRight
<1>4. ShownRight' /\ FlightsRight'
  BY <1>1, <1>2 DEF ShownRight, FlightsRight
<1> QED
  BY <1>3, <1>4 DEF PickerInv

LEMMA SelectQueueStep ==
  ASSUME PickerInv, NEW q \in Offered, selectQueue(q)
  PROVE  PickerInv'
<1>1. /\ Shown(state, crossed) /\ Flights(fetches, state, crossed) /\ Beneath(primary, state.ctx)
      /\ Grounds /\ KeptRight /\ state' = [state EXCEPT !.selectedQueue = q]
      /\ primary' = primary /\ cache' = cache /\ crossed' = crossed /\ fetches' = fetches
      /\ state.listening /\ state.selectedVpn # Null
      /\ state.queueCache[state.selectedVpn] # Null /\ q \in state.queueCache[state.selectedVpn]
  BY DEF PickerInv, selectQueue, ShownRight, FlightsRight, Offered, Drawn
<1>2. state.selectedVpn \in Vpns /\ state.queueCache[state.selectedVpn] \subseteq Queue
  BY <1>1 DEF Shown, Picker, QueueLists
<1>3. /\ q \in Queue /\ q.vpn = state.selectedVpn
      /\ ~crossed => q.at = state.ctx.baseUrl
  BY <1>1, <1>2 DEF Shown, OfVpn, AllAt
<1>4. /\ state' \in Picker /\ state'.ctx = state.ctx /\ state'.selectedVpn = state.selectedVpn
      /\ state'.selectedQueue = q /\ state'.listening = state.listening
      /\ state'.queueCache = state.queueCache /\ state'.vpnFetchGen = state.vpnFetchGen
      /\ state'.queueFetchGen = state.queueFetchGen
  BY <1>1, <1>3 DEF Shown, Picker
<1>5. state' # Null
  BY <1>4, PickerAssumption
<1>6. Shown(state', crossed)
  BY <1>1, <1>3, <1>4 DEF Shown
<1>7. Flights(fetches, state', crossed)
  <2> SUFFICES ASSUME NEW k \in Fetches, fetches[k] # Null
               PROVE  Flight(fetches[k], state', crossed)
    BY <1>1 DEF Flights
  <2>1. Flight(fetches[k], state, crossed)
    BY <1>1 DEF Flights
  <2> QED
    BY <2>1, <1>4, <1>5 DEF Flight, OwnLoad, GenOf, Leads
<1>8. Grounds' /\ KeptRight'
  BY <1>1 DEF Grounds, KeptRight
<1>9. ShownRight' /\ FlightsRight'
  BY <1>1, <1>4, <1>6, <1>7 DEF ShownRight, FlightsRight
<1> QED
  BY <1>8, <1>9 DEF PickerInv

LEMMA RefreshVpnsStep ==
  ASSUME PickerInv, RefreshVpns
  PROVE  PickerInv'
<1> DEFINE u == [state EXCEPT !.vpns = Null]
<1> DEFINE c == ensureCache(state.ctx)
<1>1. /\ Shown(state, crossed) /\ Flights(fetches, state, crossed) /\ Beneath(primary, state.ctx)
      /\ Grounds /\ KeptRight /\ fetchVpns(fetches, u) /\ cache' = [c EXCEPT !.vpns = Null]
      /\ primary' = primary /\ crossed' = crossed
  BY DEF PickerInv, RefreshVpns, ShownRight, FlightsRight
<1>2. state.ctx \in Contexts /\ Null \in VpnList
  BY <1>1 DEF Shown, Picker, VpnList
<1>3. Shown(u, crossed) /\ Flights(fetches, u, crossed) /\ u.ctx = state.ctx
  BY <1>1, <1>2, OtherVpns
<1>4. Kept(c, crossed)
  BY <1>1, <1>2, ensureCacheRight DEF Grounds
<1> HIDE DEF u, c
<1>5. Shown(state', crossed) /\ Flights(fetches', state', crossed) /\ state'.ctx = state.ctx
  BY <1>1, <1>3, FetchVpnsRight DEF Grounds
<1>6. Kept(cache', crossed)
  BY <1>1, <1>2, <1>4, KeepVpns
<1>7. Grounds' /\ KeptRight'
  BY <1>1, <1>6 DEF Grounds, KeptRight
<1>8. ShownRight' /\ FlightsRight'
  BY <1>1, <1>5 DEF ShownRight, FlightsRight
<1> QED
  BY <1>7, <1>8 DEF PickerInv

LEMMA RefreshQueuesStep ==
  ASSUME PickerInv, RefreshQueues
  PROVE  PickerInv'
<1> DEFINE c == ensureCache(state.ctx)
<1>1. /\ Shown(state, crossed) /\ Flights(fetches, state, crossed) /\ Beneath(primary, state.ctx)
      /\ Grounds /\ KeptRight /\ fetchQueues(fetches, state)
      /\ cache' = [c EXCEPT !.queues[state.selectedVpn] = Null]
      /\ primary' = primary /\ crossed' = crossed /\ state.listening
  BY DEF PickerInv, RefreshQueues, ShownRight, FlightsRight
<1>2. state.ctx \in Contexts /\ state.selectedVpn \in Vpns
  BY <1>1 DEF Shown, Picker
<1>3. Kept(c, crossed)
  BY <1>1, <1>2, ensureCacheRight DEF Grounds
<1> HIDE DEF c
<1>4. Shown(state', crossed) /\ Flights(fetches', state', crossed) /\ state'.ctx = state.ctx
  BY <1>1, <1>2, FetchQueuesRight DEF Grounds
<1>5. Kept(cache', crossed)
  BY <1>1, <1>2, <1>3, KeepQueues
<1>6. Grounds' /\ KeptRight'
  BY <1>1, <1>5 DEF Grounds, KeptRight
<1>7. ShownRight' /\ FlightsRight'
  BY <1>1, <1>4 DEF ShownRight, FlightsRight
<1> QED
  BY <1>6, <1>7 DEF PickerInv

LEMMA CloseStep ==
  ASSUME PickerInv, resolveAndClose
  PROVE  PickerInv'
<1>1. /\ Flights(fetches, state, crossed) /\ Grounds /\ KeptRight /\ state' = Null
      /\ primary' = primary /\ cache' = cache /\ crossed' = crossed
      /\ fetches' = [i \in Fetches |-> IF fetches[i] = Null THEN Null
                                       ELSE [fetches[i] EXCEPT !.own = FALSE]]
  BY DEF PickerInv, resolveAndClose, FlightsRight
<1>2. ASSUME NEW i \in Fetches, fetches'[i] # Null
      PROVE  Flight(fetches'[i], Null, crossed) /\ ~fetches'[i].own
  <2>1. fetches[i] # Null /\ fetches'[i] = [fetches[i] EXCEPT !.own = FALSE]
    BY <1>1, <1>2
  <2>2. GeneratorTypes(fetches[i])
    BY <2>1, <1>1 DEF Flights, Flight
  <2>3. /\ fetches'[i] \in Generator /\ fetches'[i].own = FALSE
        /\ fetches'[i].kind = fetches[i].kind /\ fetches'[i].got = fetches[i].got
        /\ fetches'[i].vpn = fetches[i].vpn
    BY <2>1, <2>2 DEF GeneratorTypes, Generator
  <2>4. GeneratorTypes(fetches'[i])
    BY <2>2, <2>3 DEF GeneratorTypes
  <2> QED
    BY <2>3, <2>4 DEF Flight
<1>3. DOMAIN fetches' = Fetches
  BY <1>1
<1>4. Distinct(fetches')
  BY <1>2 DEF Distinct
<1>5. Flights(fetches', Null, crossed)
  BY <1>2, <1>3, <1>4 DEF Flights
<1>6. Grounds' /\ KeptRight'
  BY <1>1 DEF Grounds, KeptRight
<1>7. ShownRight' /\ FlightsRight'
  BY <1>1, <1>5 DEF ShownRight, FlightsRight, IsOpen
<1> QED
  BY <1>6, <1>7 DEF PickerInv

LEMMA PrimaryChangesStep ==
  ASSUME PickerInv, PrimaryChanges
  PROVE  PickerInv'
<1>1. /\ Grounds /\ KeptRight /\ ShownRight /\ FlightsRight
      /\ primary' \in Brokers \cup {Null} /\ (IsOpen => primary' = Null)
      /\ cache' = cache /\ state' = state /\ fetches' = fetches /\ crossed' = crossed
  BY DEF PickerInv, PrimaryChanges
<1>2. Grounds' /\ KeptRight' /\ FlightsRight'
  BY <1>1 DEF Grounds, KeptRight, FlightsRight
<1>3. ShownRight'
  BY <1>1 DEF ShownRight, IsOpen, Beneath
<1> QED
  BY <1>2, <1>3 DEF PickerInv

LEMMA LoadEndsStep ==
  ASSUME PickerInv, NEW i \in Fetches, LoadEnds(i)
  PROVE  PickerInv'
<1>1. /\ Grounds /\ KeptRight /\ ShownRight /\ Flights(fetches, state, crossed)
      /\ fetches' = [fetches EXCEPT ![i] = Null]
      /\ primary' = primary /\ cache' = cache /\ state' = state /\ crossed' = crossed
  BY DEF PickerInv, LoadEnds, Over, FlightsRight
<1>2. Flights(fetches', state, crossed)
  BY <1>1, OverRight
<1>3. Grounds' /\ KeptRight' /\ ShownRight'
  BY <1>1 DEF Grounds, KeptRight, ShownRight, IsOpen
<1>4. FlightsRight'
  BY <1>1, <1>2 DEF FlightsRight
<1> QED
  BY <1>3, <1>4 DEF PickerInv

LEMMA RestEndsStep ==
  ASSUME PickerInv, NEW i \in Fetches, RestEnds(i)
  PROVE  PickerInv'
<1> DEFINE f == fetches[i]
<1> DEFINE g == [f EXCEPT !.st = "asked", !.page = @ + 1, !.at = fetch(f.ctx)]
<1>1. /\ Grounds /\ KeptRight /\ ShownRight /\ Flights(fetches, state, crossed)
      /\ f # Null /\ f.st = "resting"
      /\ primary' = primary /\ cache' = cache /\ state' = state /\ crossed' = crossed
  BY DEF PickerInv, RestEnds, FlightsRight
<1>2. fetches' = [fetches EXCEPT ![i] = g]
  BY <1>1 DEF RestEnds, Flights
<1>3. Flight(f, state, crossed) /\ f \in Generator
  BY <1>1 DEF Flights, Flight, GeneratorTypes
<1>4. /\ f.ctx \in Contexts /\ f.page \in Nat /\ fetch(f.ctx) \in Brokers \cup {Null}
  BY <1>1, <1>3, ContextTypes DEF Generator, Grounds, fetch
<1>5. /\ g \in Generator /\ g.own = f.own /\ g.kind = f.kind /\ g.gen = f.gen /\ g.vpn = f.vpn
      /\ g.got = f.got /\ g.ctx = f.ctx /\ g.at = fetch(f.ctx) /\ g.st = "asked"
      /\ g.page = f.page + 1
  <2> HIDE DEF f
  <2> DEFINE n == f.page + 1
  <2> DEFINE a == fetch(f.ctx)
  <2>1. n \in Nat \ {0} /\ a \in Brokers \cup {Null}
    BY <1>4
  <2>2. g = [f EXCEPT !.st = "asked", !.page = n, !.at = a]
    BY <1>3 DEF Generator
  <2> HIDE DEF n, a, g
  <2> SUFFICES /\ g \in Generator /\ g.own = f.own /\ g.kind = f.kind /\ g.gen = f.gen
               /\ g.vpn = f.vpn /\ g.got = f.got /\ g.ctx = f.ctx /\ g.at = a /\ g.st = "asked"
               /\ g.page = n
    BY DEF n, a
  <2> QED
    BY <1>3, <2>1, <2>2 DEF Generator
<1>6. Taken(g) = Taken(f)
  BY <1>1, <1>4, <1>5 DEF Taken
<1> HIDE DEF f, g
<1>7. GeneratorTypes(g)
  BY <1>3, <1>5 DEF Flight, GeneratorTypes
<1>8. g.own => OwnLoad(g, state)
  <2> SUFFICES ASSUME f.own
               PROVE  OwnLoad(g, state)
    BY <1>5
  <2>1. OwnLoad(f, state)
    BY <1>3 DEF Flight
  <2>2. fetch(f.ctx) \in {state.ctx.baseUrl, Null}
    BY <1>1, <1>4, <2>1, fetchRight DEF OwnLoad, ShownRight, IsOpen, Grounds
  <2> QED
    BY <2>1, <2>2, <1>5, <1>6 DEF OwnLoad
<1>9. Flight(g, state, crossed)
  BY <1>3, <1>5, <1>7, <1>8 DEF Flight, Leads
<1>10. Flights(fetches', state, crossed)
  <2>1. fetches[i] # Null /\ g.own = fetches[i].own /\ g.kind = fetches[i].kind /\ g.gen = fetches[i].gen
    BY <1>1, <1>5 DEF f
  <2>2. Flights(fetches, state, crossed)
    BY <1>1
  <2>3. Flights([fetches EXCEPT ![i] = Null], state, crossed)
    BY <2>2, OverRight
  <2>4. Flights([fetches EXCEPT ![i] = g], state, crossed)
    BY <1>9, <2>1, <2>2, <2>3, GoesOn
  <2> QED
    BY <2>4, <1>2
<1>11. Grounds' /\ KeptRight' /\ ShownRight'
  BY <1>1 DEF Grounds, KeptRight, ShownRight, IsOpen
<1>12. FlightsRight'
  BY <1>1, <1>10 DEF FlightsRight
<1> QED
  BY <1>11, <1>12 DEF PickerInv

\* What is known when a page arrives.  y is crossed as the page leaves it.
LEMMA PageFacts ==
  ASSUME PickerInv, NEW i \in Fetches, PageArrives(i)
  PROVE  /\ primary' = primary /\ crossed' \in BOOLEAN /\ (crossed => crossed')
         /\ fetches[i] # Null /\ fetches[i].st = "asked" /\ fetches[i].at \in Brokers
         /\ fetches[i] \in Generator /\ fetches[i].page \in Nat \ {0} /\ fetches[i].ctx \in Contexts
         /\ ~crossed' => fetches[i].own
         /\ Grounds' /\ Kept(ensureCache(fetches[i].ctx), crossed')
         /\ ensureCache(fetches[i].ctx).baseUrl = fetches[i].ctx.baseUrl
         /\ cache # Null => Kept(cache, crossed')
         /\ IsOpen /\ Shown(state, crossed') /\ Flights(fetches, state, crossed')
         /\ Beneath(primary, state.ctx) /\ GeneratorTypes(fetches[i])
         /\ fetches[i].own => /\ fetches[i].ctx = state.ctx /\ fetches[i].at = state.ctx.baseUrl
                              /\ Taken(fetches[i]) = fetches[i].page - 1
                              /\ OwnLoad(fetches[i], state)
<1> DEFINE f == fetches[i]
<1>1. /\ Grounds /\ KeptRight /\ ShownRight /\ Flights(fetches, state, crossed)
      /\ f # Null /\ f.st = "asked" /\ f.at # Null /\ IsOpen
      /\ primary' = primary /\ crossed' = (crossed \/ ~f.own)
  BY DEF PickerInv, PageArrives, Wanted, FlightsRight
<1>2. Flight(f, state, crossed) /\ GeneratorTypes(f) /\ f \in Generator
  BY <1>1 DEF Flights, Flight, GeneratorTypes
<1> HIDE DEF f
<1>3. f.at \in Brokers /\ f.page \in Nat \ {0} /\ f.ctx \in Contexts /\ f.own \in BOOLEAN
  BY <1>1, <1>2 DEF Generator
<1>4. crossed' \in BOOLEAN /\ (crossed => crossed') /\ (~crossed' => f.own)
  BY <1>1 DEF Grounds
<1>5. Grounds'
  BY <1>1, <1>4 DEF Grounds
<1>6. Kept(ensureCache(f.ctx), crossed) /\ ensureCache(f.ctx).baseUrl = f.ctx.baseUrl
  BY <1>1, <1>3, ensureCacheRight DEF Grounds
<1>7. Kept(ensureCache(f.ctx), crossed')
  BY <1>1, <1>4, <1>6, Weaker DEF Grounds
<1>8. cache # Null => Kept(cache, crossed')
  BY <1>1, <1>4, Weaker DEF Grounds, KeptRight
<1>9. Shown(state, crossed') /\ Flights(fetches, state, crossed') /\ Beneath(primary, state.ctx)
  BY <1>1, <1>4, Weaker DEF Grounds, ShownRight
<1>10. f.own => /\ f.ctx = state.ctx /\ f.at = state.ctx.baseUrl
                /\ Taken(f) = f.page - 1 /\ OwnLoad(f, state)
  BY <1>1, <1>2 DEF Flight, OwnLoad, Taken
<1> QED
  BY <1>1, <1>2, <1>3, <1>4, <1>5, <1>6, <1>7, <1>8, <1>9, <1>10 DEF f

\* A load that rests after a page has that page.
LEMMA RestingTypes ==
  ASSUME NEW f \in Generator, NEW got \in SUBSET (Vpn \cup Queue)
  PROVE  LET g == [f EXCEPT !.st = "resting", !.got = got]
         IN  /\ g \in Generator /\ g.own = f.own /\ g.kind = f.kind /\ g.gen = f.gen
             /\ g.vpn = f.vpn /\ g.got = got /\ g.ctx = f.ctx /\ g.at = f.at
             /\ Taken(g) = f.page
  BY DEF Generator, Taken

LEMMA VpnPageStep ==
  ASSUME PickerInv, NEW i \in Fetches, PageArrives(i), fetches[i].kind = "vpns"
  PROVE  /\ PickerInv' /\ state' # Null
         /\ \A w \in Vpns : Holds(state.queueCache[w]) \subseteq Holds(state'.queueCache[w])
<1> DEFINE f == fetches[i]
<1> DEFINE b == state.ctx.baseUrl
<1> DEFINE got == f.got \cup VpnPage(f.at, f.page)
<1> DEFINE s == [state EXCEPT !.vpns = got]
<1> DEFINE g == [f EXCEPT !.st = "resting", !.got = got]
<1>1. /\ primary' = primary /\ crossed' \in BOOLEAN /\ f # Null /\ f.at \in Brokers
      /\ f \in Generator /\ f.page \in Nat \ {0} /\ f.ctx \in Contexts /\ (~crossed' => f.own)
      /\ Grounds' /\ Kept(ensureCache(f.ctx), crossed')
      /\ ensureCache(f.ctx).baseUrl = f.ctx.baseUrl /\ (cache # Null => Kept(cache, crossed'))
      /\ IsOpen /\ Shown(state, crossed') /\ Flights(fetches, state, crossed')
      /\ Beneath(primary, state.ctx) /\ GeneratorTypes(f)
      /\ f.own => f.ctx = state.ctx /\ f.at = b /\ Taken(f) = f.page - 1 /\ OwnLoad(f, state)
  BY PageFacts
<1>2. /\ f.kind = "vpns" /\ f.page \in DOMAIN VpnPages[f.at]
      /\ IF f.page < Len(VpnPages[f.at])
         THEN state' = s /\ fetches' = Resting(i, got) /\ UNCHANGED cache
         ELSE /\ cache' = [ensureCache(f.ctx) EXCEPT !.vpns = got]
              /\ IF \E e \in got : e.vpn = s.selectedVpn
                 THEN selectVpn(Over(i), s, s.selectedVpn)
                 ELSE state' = s /\ fetches' = Over(i)
  BY DEF PageArrives, VpnPageArrives
<1>3. Resting(i, got) = [fetches EXCEPT ![i] = g] /\ Over(i) = [fetches EXCEPT ![i] = Null]
  BY <1>1 DEF Resting, Over, Flights
<1> HIDE DEF f
<1>4. got \subseteq Vpn /\ got \in VpnList /\ got \in SUBSET (Vpn \cup Queue)
  BY <1>1, <1>2, VpnPageTypes DEF GeneratorTypes, VpnList
<1>5. f.own => got = VpnsUpTo(b, f.page)
  <2>1. VpnsUpTo(b, f.page) = VpnsUpTo(b, f.page - 1) \cup VpnPage(b, f.page)
    BY <1>1, VpnPageMore
  <2> QED
    BY <2>1, <1>1, <1>2 DEF OwnLoad
<1>6. /\ g \in Generator /\ g.own = f.own /\ g.kind = f.kind /\ g.gen = f.gen
      /\ g.vpn = f.vpn /\ g.got = got /\ g.ctx = f.ctx /\ g.at = f.at /\ Taken(g) = f.page
  BY <1>1, <1>4, RestingTypes
<1> HIDE DEF got, g
<1>7. /\ Shown(s, crossed') /\ Flights(fetches, s, crossed') /\ s.ctx = state.ctx
      /\ s.selectedVpn = state.selectedVpn /\ s.queueCache = state.queueCache
  BY <1>1, <1>4, OtherVpns
<1> HIDE DEF s
<1>8. s # Null
  BY <1>7, PickerAssumption DEF Shown
<1>9. Flights(Over(i), s, crossed')
  <2>1. Flights([fetches EXCEPT ![i] = Null], s, crossed')
    BY <1>7, OverRight
  <2> QED
    BY <2>1, <1>3
<1>10. CASE f.page < Len(VpnPages[f.at])
  <2>1. state' = s /\ fetches' = [fetches EXCEPT ![i] = g] /\ cache' = cache
    BY <1>2, <1>3, <1>10
  <2>2. GeneratorTypes(g)
    BY <1>2, <1>4, <1>6 DEF GeneratorTypes
  <2>3. g.own => OwnLoad(g, s)
    <3> SUFFICES ASSUME f.own
                 PROVE  OwnLoad(g, s)
      BY <1>6
    <3>1. Flight(f, s, crossed')
      BY <1>1, <1>7 DEF Flights, f
    <3> QED
      BY <3>1, <1>1, <1>2, <1>5, <1>6, <1>7 DEF Flight, OwnLoad
  <2>4. Flight(g, s, crossed')
    BY <2>2, <2>3, <1>2, <1>6 DEF Flight, Leads
  <2>5. Flights(fetches', s, crossed')
    <3>1. fetches[i] # Null /\ g.own = fetches[i].own /\ g.kind = fetches[i].kind /\ g.gen = fetches[i].gen
      BY <1>1, <1>6 DEF f
    <3>2. Flights(fetches, state, crossed') /\ Flights([fetches EXCEPT ![i] = Null], s, crossed')
      BY <1>1, <1>3, <1>9
    <3>3. Flights([fetches EXCEPT ![i] = g], s, crossed')
      BY <2>4, <3>1, <3>2, GoesOn
    <3> QED
      BY <2>1, <3>3
  <2>6. KeptRight'
    BY <2>1, <1>1 DEF KeptRight
  <2>7. ShownRight' /\ FlightsRight'
    BY <2>1, <2>5, <1>1, <1>7 DEF ShownRight, FlightsRight
  <2> QED
    BY <2>1, <2>6, <2>7, <1>1, <1>7, <1>8 DEF PickerInv
<1>11. CASE ~(f.page < Len(VpnPages[f.at]))
  <2>1. /\ cache' = [ensureCache(f.ctx) EXCEPT !.vpns = got]
        /\ IF \E e \in got : e.vpn = s.selectedVpn
           THEN selectVpn(Over(i), s, s.selectedVpn)
           ELSE state' = s /\ fetches' = Over(i)
    BY <1>2, <1>11
  <2>2. crossed' \/ got = AllVpns(ensureCache(f.ctx).baseUrl)
    <3>1. VpnPages[f.at] \in Seq(SUBSET Vpns)
      BY <1>1, PickerAssumption
    <3>2. f.page = Len(VpnPages[f.at])
      BY <3>1, <1>1, <1>2, <1>11
    <3> QED
      BY <3>2, <1>1, <1>5 DEF AllVpns
  <2>3. Kept(cache', crossed')
    BY <2>1, <2>2, <1>1, <1>4, KeepVpns
  <2>4. /\ Shown(state', crossed') /\ Flights(fetches', state', crossed') /\ state'.ctx = s.ctx
        /\ state' # Null
        /\ \A w \in Vpns : Holds(s.queueCache[w]) \subseteq Holds(state'.queueCache[w])
    <3>1. CASE \E e \in got : e.vpn = s.selectedVpn
      <4>1. s.selectedVpn \in Vpns /\ selectVpn(Over(i), s, s.selectedVpn)
        BY <2>1, <3>1, <1>4 DEF Vpn
      <4>2. primary \in Brokers \cup {Null} /\ Beneath(primary, s.ctx)
        BY <1>1, <1>7 DEF Grounds
      <4> QED
        BY <4>1, <4>2, <1>1, <1>7, <1>9, SelectVpnRight
    <3>2. CASE ~(\E e \in got : e.vpn = s.selectedVpn)
      BY <2>1, <3>2, <1>7, <1>8, <1>9
    <3> QED
      BY <3>1, <3>2
  <2>5. KeptRight'
    BY <2>3 DEF KeptRight
  <2>6. ShownRight' /\ FlightsRight'
    BY <2>4, <1>1, <1>7 DEF ShownRight, FlightsRight
  <2> QED
    BY <2>4, <2>5, <2>6, <1>1, <1>7 DEF PickerInv
<1> QED
  BY <1>10, <1>11

LEMMA QueuePageStep ==
  ASSUME PickerInv, NEW i \in Fetches, PageArrives(i), fetches[i].kind # "vpns"
  PROVE  /\ PickerInv' /\ state' # Null
         /\ ~crossed' =>
              \A w \in Vpns : Holds(state.queueCache[w]) \subseteq Holds(state'.queueCache[w])
<1> DEFINE f == fetches[i]
<1> DEFINE b == state.ctx.baseUrl
<1> DEFINE got == f.got \cup QueuePage(f.at, f.vpn, f.page)
<1> DEFINE s == [state EXCEPT !.queueCache[f.vpn] = got]
<1> DEFINE g == [f EXCEPT !.st = "resting", !.got = got]
<1>1. /\ primary' = primary /\ crossed' \in BOOLEAN /\ f # Null /\ f.at \in Brokers
      /\ f \in Generator /\ f.page \in Nat \ {0} /\ f.ctx \in Contexts /\ (~crossed' => f.own)
      /\ Grounds' /\ Kept(ensureCache(f.ctx), crossed')
      /\ ensureCache(f.ctx).baseUrl = f.ctx.baseUrl /\ (cache # Null => Kept(cache, crossed'))
      /\ IsOpen /\ Shown(state, crossed') /\ Flights(fetches, state, crossed')
      /\ Beneath(primary, state.ctx) /\ GeneratorTypes(f)
      /\ f.own => f.ctx = state.ctx /\ f.at = b /\ Taken(f) = f.page - 1 /\ OwnLoad(f, state)
  BY PageFacts
<1>2. /\ f.kind = "queues" /\ f.gen = state.queueFetchGen /\ f.page <= QueuePages[f.at][f.vpn]
      /\ state' = s
      /\ \/ fetches' = Over(i) /\ cache' = cache
         \/ fetches' = Resting(i, got) /\ cache' = cache
         \/ /\ f.page >= QueuePages[f.at][f.vpn]
            /\ fetches' = Over(i) /\ cache' = [ensureCache(f.ctx) EXCEPT !.queues[f.vpn] = got]
  <2>1. f.kind = "queues"
    BY <1>1 DEF Generator
  <2>2. f.gen = state.queueFetchGen
    BY <2>1 DEF PageArrives, Wanted
  <2>3. f.vpn \in Vpns /\ QueuePages[f.at][f.vpn] \in Nat
    BY <2>1, <1>1, PickerAssumption DEF GeneratorTypes
  <2>4. QueuePageArrives(i)
    BY <2>1 DEF PageArrives
  <2>5. /\ f.page <= QueuePages[f.at][f.vpn] /\ state' = s
        /\ \/ fetches' = Over(i) /\ cache' = cache
           \/ /\ fetches' = IF f.page < QueuePages[f.at][f.vpn] THEN Resting(i, got) ELSE Over(i)
              /\ cache' = IF f.page < QueuePages[f.at][f.vpn] THEN cache
                          ELSE [ensureCache(f.ctx) EXCEPT !.queues[f.vpn] = got]
    BY <2>4, Zenon DEF QueuePageArrives
  <2> HIDE DEF f, s, got
  <2> QED
    BY <2>1, <2>2, <2>3, <2>5, <1>1
<1>3. Resting(i, got) = [fetches EXCEPT ![i] = g] /\ Over(i) = [fetches EXCEPT ![i] = Null]
  BY <1>1 DEF Resting, Over, Flights
<1> HIDE DEF f
<1>4. /\ f.vpn \in Vpns /\ got \subseteq Queue /\ got \in SUBSET (Vpn \cup Queue)
      /\ \A q \in got : q.vpn = f.vpn
  BY <1>1, <1>2, QueuePageTypes DEF GeneratorTypes
<1>5. f.own => got = QueuesUpTo(b, f.vpn, f.page)
  <2>1. QueuesUpTo(b, f.vpn, f.page) = QueuesUpTo(b, f.vpn, f.page - 1) \cup QueuePage(b, f.vpn, f.page)
    BY <1>1, QueuePageMore
  <2> QED
    BY <2>1, <1>1, <1>2 DEF OwnLoad
<1>6. ~crossed' => /\ f.own /\ got # Null /\ \A q \in got : q.at = b
  <2> SUFFICES ASSUME f.own
               PROVE  got # Null /\ \A q \in got : q.at = b
    BY <1>1
  <2>1. QueuePages[b][f.vpn] \in Nat /\ b \in Brokers /\ f.page \in 1..QueuePages[b][f.vpn]
    BY <1>1, <1>2, <1>4, PickerAssumption
  <2> QED
    <3>1. QueuesUpTo(b, f.vpn, f.page) # Null
      BY <2>1, <1>4, PickerAssumption
    <3>2. \A q \in QueuesUpTo(b, f.vpn, f.page) : q.at = b
      BY <2>1, <1>1, <1>4, QueuesUpToAt
    <3> QED
      BY <3>1, <3>2, <1>5
<1>7. /\ g \in Generator /\ g.own = f.own /\ g.kind = f.kind /\ g.gen = f.gen
      /\ g.vpn = f.vpn /\ g.got = got /\ g.ctx = f.ctx /\ g.at = f.at /\ Taken(g) = f.page
  BY <1>1, <1>4, RestingTypes
<1>8. f.got \subseteq got
  OBVIOUS
<1> HIDE DEF got, g
<1>9. /\ s \in Picker /\ s.ctx = state.ctx /\ s.selectedVpn = state.selectedVpn
      /\ s.selectedQueue = state.selectedQueue /\ s.listening = state.listening
      /\ s.queueFetchGen = state.queueFetchGen /\ s.vpnFetchGen = state.vpnFetchGen
      /\ s.queueCache[f.vpn] = got
      /\ \A w \in Vpns \ {f.vpn} : s.queueCache[w] = state.queueCache[w]
  <2> DEFINE l == [state.queueCache EXCEPT ![f.vpn] = got]
  <2>1. state \in Picker /\ state.queueCache \in QueueLists
    BY <1>1 DEF Shown, Picker
  <2>2. /\ l \in QueueLists /\ l[f.vpn] = got
        /\ \A w \in Vpns \ {f.vpn} : l[w] = state.queueCache[w]
    BY <2>1, <1>4 DEF QueueLists
  <2>3. s = [state EXCEPT !.queueCache = l]
    BY <2>1 DEF Picker
  <2> HIDE DEF l, s
  <2>4. /\ s \in Picker /\ s.ctx = state.ctx /\ s.selectedVpn = state.selectedVpn
        /\ s.selectedQueue = state.selectedQueue /\ s.listening = state.listening
        /\ s.queueFetchGen = state.queueFetchGen /\ s.vpnFetchGen = state.vpnFetchGen
        /\ s.queueCache = l
    BY <2>1, <2>2, <2>3 DEF Picker
  <2> QED
    BY <2>2, <2>4
<1> HIDE DEF s
<1>10. s # Null
  BY <1>9, PickerAssumption
<1>11. Shown(s, crossed')
  <2>1. OfVpn(s.queueCache)
    BY <1>1, <1>4, <1>9 DEF Shown, OfVpn
  <2>2. ~crossed' => AllAt(s.queueCache, b)
    BY <1>1, <1>6, <1>9 DEF Shown, AllAt
  <2> QED
    BY <2>1, <2>2, <1>1, <1>9 DEF Shown
<1>12. Flights(Over(i), s, crossed')
  <2>1. Flights(Over(i), state, crossed')
    <3>1. Flights([fetches EXCEPT ![i] = Null], state, crossed')
      BY <1>1, OverRight
    <3> QED
      BY <3>1, <1>3
  <2> SUFFICES ASSUME NEW k \in Fetches, Over(i)[k] # Null
               PROVE  Flight(Over(i)[k], s, crossed')
    BY <2>1 DEF Flights
  <2> DEFINE h == Over(i)[k]
  <2>2. h = fetches[k] /\ k # i
    BY <1>1, <1>3 DEF Flights
  <2>3. Flight(h, state, crossed')
    BY <2>1 DEF Flights
  <2>4. GeneratorTypes(h) /\ (h.own => OwnLoad(h, s))
    BY <2>3, <1>9, <1>10 DEF Flight, OwnLoad, GenOf
  <2>5. ~crossed' /\ h.own => Leads(h, s)
    <3> SUFFICES ASSUME ~crossed', h.own, h.kind = "queues", h.gen = s.queueFetchGen
                 PROVE  FALSE
      BY DEF Leads
    <3>1. f.own /\ f.kind = "queues" /\ f.gen = h.gen /\ f # Null
      BY <1>1, <1>2, <1>9
    <3> QED
      BY <3>1, <2>2, <1>1 DEF Flights, Distinct, f
  <2> QED
    BY <2>4, <2>5 DEF Flight
<1>13. Flight(g, s, crossed')
  <2>1. GeneratorTypes(g)
    BY <1>2, <1>4, <1>7 DEF GeneratorTypes
  <2>2. g.own => OwnLoad(g, s)
    BY <1>1, <1>2, <1>5, <1>7, <1>9, <1>10 DEF OwnLoad, GenOf
  <2>3. Leads(g, s)
    BY <1>7, <1>9 DEF Leads, Holds
  <2> QED
    BY <2>1, <2>2, <2>3 DEF Flight
<1>14. Flights(Resting(i, got), s, crossed')
  <2>1. Flights([fetches EXCEPT ![i] = Null], s, crossed')
    BY <1>3, <1>12
  <2>2. fetches[i] # Null /\ g.own = fetches[i].own /\ g.kind = fetches[i].kind /\ g.gen = fetches[i].gen
    BY <1>1, <1>7 DEF f
  <2>3. Flights([fetches EXCEPT ![i] = g], s, crossed')
    <3>1. Flights(fetches, state, crossed')
      BY <1>1
    <3> QED
      BY <2>1, <2>2, <3>1, <1>13, GoesOn
  <2> QED
    BY <2>3, <1>3
<1>15. FlightsRight' /\ ShownRight'
  BY <1>1, <1>2, <1>9, <1>11, <1>12, <1>14 DEF FlightsRight, ShownRight
<1>16. KeptRight'
  <2>1. CASE cache' = cache
    BY <2>1, <1>1 DEF KeptRight
  <2>2. CASE /\ f.page >= QueuePages[f.at][f.vpn]
             /\ cache' = [ensureCache(f.ctx) EXCEPT !.queues[f.vpn] = got]
    <3>1. QueuePages[f.at][f.vpn] \in Nat
      BY <1>1, <1>4, PickerAssumption
    <3>2. f.page = QueuePages[f.at][f.vpn]
      BY <3>1, <2>2, <1>1, <1>2
    <3>3. crossed' \/ got = AllQueues(ensureCache(f.ctx).baseUrl, f.vpn)
      BY <3>2, <1>1, <1>5 DEF AllQueues
    <3>4. Kept(cache', crossed')
      BY <2>2, <3>3, <1>1, <1>4, KeepQueues
    <3> QED
      BY <3>4 DEF KeptRight
  <2> QED
    BY <2>1, <2>2, <1>2
<1>17. ASSUME ~crossed', NEW w \in Vpns
       PROVE  Holds(state.queueCache[w]) \subseteq Holds(state'.queueCache[w])
  <2>1. CASE w = f.vpn
    <3>1. Leads(f, state)
      BY <1>1, <1>17 DEF Flights, Flight, f
    <3> QED
      BY <3>1, <2>1, <1>2, <1>6, <1>8, <1>9, <1>17 DEF Leads, Holds
  <2>2. CASE w # f.vpn
    BY <2>2, <1>2, <1>9
  <2> QED
    BY <2>1, <2>2
<1> QED
  BY <1>1, <1>2, <1>10, <1>15, <1>16, <1>17 DEF PickerInv

LEMMA PickerStep == PickerInv /\ [PickerNext]_pickerVars => PickerInv'
<1> SUFFICES ASSUME PickerInv, [PickerNext]_pickerVars
             PROVE  PickerInv'
  OBVIOUS
<1>1. ASSUME NEW ctx \in Contexts, NEW v \in Vpns \cup {Null}, pickQueue(ctx, v)
      PROVE  PickerInv'
  BY <1>1, PickQueueStep
<1>2. ASSUME NEW v \in Vpns, ClickVpn(v)
      PROVE  PickerInv'
  BY <1>2, ClickVpnStep
<1>3. ASSUME NEW q \in Offered, selectQueue(q)
      PROVE  PickerInv'
  BY <1>3, SelectQueueStep
<1>4. CASE RefreshVpns
  BY <1>4, RefreshVpnsStep
<1>5. CASE RefreshQueues
  BY <1>5, RefreshQueuesStep
<1>6. CASE Confirm \/ Cancel
  BY <1>6, CloseStep DEF Confirm, Cancel
<1>7. CASE PrimaryChanges
  BY <1>7, PrimaryChangesStep
<1>8. ASSUME NEW i \in Fetches, PageArrives(i)
      PROVE  PickerInv'
  <2>1. CASE fetches[i].kind = "vpns"
    BY <2>1, <1>8, VpnPageStep
  <2>2. CASE fetches[i].kind # "vpns"
    BY <2>2, <1>8, QueuePageStep
  <2> QED
    BY <2>1, <2>2
<1>9. ASSUME NEW i \in Fetches, LoadEnds(i)
      PROVE  PickerInv'
  BY <1>9, LoadEndsStep
<1>10. ASSUME NEW i \in Fetches, RestEnds(i)
       PROVE  PickerInv'
  BY <1>10, RestEndsStep
<1>11. CASE UNCHANGED pickerVars
  BY <1>11
     DEF pickerVars, PickerInv, Grounds, KeptRight, ShownRight, FlightsRight, IsOpen
<1> QED
  BY <1>1, <1>2, <1>3, <1>4, <1>5, <1>6, <1>7, <1>8, <1>9, <1>10, <1>11 DEF PickerNext

\* The inductive invariant of the picker, its cache and its loads.
THEOREM PickerInvariant == PickerSpec => []PickerInv
<1>1. PickerInit => PickerInv
  <2> SUFFICES ASSUME PickerInit
               PROVE  PickerInv
    OBVIOUS
  <2>1. Grounds /\ KeptRight /\ ShownRight
    BY DEF PickerInit, Grounds, KeptRight, ShownRight, IsOpen
  <2>2. DOMAIN fetches = Fetches /\ \A i \in Fetches : fetches[i] = Null
    BY DEF PickerInit
  <2>3. FlightsRight
    BY <2>2 DEF FlightsRight, Flights, Distinct
  <2> QED
    BY <2>1, <2>3 DEF PickerInv
<1> QED
  BY <1>1, PickerStep, PTL DEF PickerSpec

\* Every variable of the picker keeps its type, and a load holds entries of its own kind.
THEOREM PickerTypeCorrect == PickerSpec => []PickerTypeOK
<1>1. PickerInv => PickerTypeOK
  <2> SUFFICES ASSUME PickerInv
               PROVE  PickerTypeOK
    OBVIOUS
  <2>1. /\ primary \in Brokers \cup {Null} /\ crossed \in BOOLEAN
        /\ cache # Null => cache \in Cache
        /\ IsOpen => state \in Picker /\ (state.listening => state.selectedVpn # Null)
        /\ DOMAIN fetches = Fetches
    BY DEF PickerInv, Grounds, KeptRight, Kept, ShownRight, Shown, FlightsRight, Flights
  <2>2. ASSUME NEW i \in Fetches, fetches[i] # Null
        PROVE  /\ fetches[i] \in Generator
               /\ IF fetches[i].kind = "vpns" THEN fetches[i].got \subseteq Vpn
                  ELSE fetches[i].got \subseteq Queue /\ fetches[i].vpn \in Vpns
    <3>1. GeneratorTypes(fetches[i])
      BY <2>2 DEF PickerInv, FlightsRight, Flights, Flight
    <3>2. fetches[i].kind \in {"vpns", "queues"}
      BY <3>1 DEF GeneratorTypes, Generator
    <3> QED
      BY <3>1, <3>2 DEF GeneratorTypes
  <2> QED
    BY <2>1, <2>2 DEF PickerTypeOK, Cache, Generator
<1> QED
  BY <1>1, PickerInvariant, PTL

\* However switches, refreshes and pages interleave, what can be confirmed is a queue of the
\* VPN that is returned with it.
THEOREM PickListed == PickerSpec => []PickIsListed
<1>1. PickerInv => PickIsListed
  BY DEF PickerInv, Grounds, ShownRight, Shown, PickIsListed
<1> QED
  BY <1>1, PickerInvariant, PTL

\* The cache holds whole lists of its broker or none.
THEOREM CacheWhole == PickerSpec => []CacheIsWhole
<1>1. PickerInv => CacheIsWhole
  BY DEF PickerInv, KeptRight, Kept, CacheIsWhole
<1> QED
  BY <1>1, PickerInvariant, PTL

\* Nothing but the user takes an entry from a list of queues on show.
THEOREM ListsGrow == PickerSpec => ListsOnlyGrow
<1>1. PickerInv /\ [PickerNext]_pickerVars =>
        [IsOpen /\ state' # Null /\ ~RefreshQueues /\ ~crossed' =>
           \A v \in Vpns : Holds(state.queueCache[v]) \subseteq Holds(state'.queueCache[v])]_pickerVars
  <2> SUFFICES ASSUME PickerInv, PickerNext, IsOpen, state' # Null, ~RefreshQueues, ~crossed',
                      NEW w \in Vpns
               PROVE  Holds(state.queueCache[w]) \subseteq Holds(state'.queueCache[w])
    BY DEF pickerVars
  <2>0. /\ Shown(state, crossed) /\ Flights(fetches, state, crossed) /\ Beneath(primary, state.ctx)
        /\ Grounds
    BY DEF PickerInv, ShownRight, FlightsRight
  <2>1. ASSUME NEW v \in Vpns, ClickVpn(v)
        PROVE  Holds(state.queueCache[w]) \subseteq Holds(state'.queueCache[w])
    <3>1. selectVpn(fetches, state, v)
      BY <2>1 DEF ClickVpn
    <3> QED
      BY <3>1, <2>0, SelectVpnRight DEF Grounds
  <2>2. ASSUME NEW q \in Offered, selectQueue(q)
        PROVE  Holds(state.queueCache[w]) \subseteq Holds(state'.queueCache[w])
    BY <2>0, <2>2 DEF selectQueue, Shown, Picker
  <2>3. CASE RefreshVpns
    <3> DEFINE u == [state EXCEPT !.vpns = Null]
    <3>1. fetchVpns(fetches, u) /\ Null \in VpnList
      BY <2>3 DEF RefreshVpns, VpnList
    <3>2. /\ Shown(u, crossed) /\ Flights(fetches, u, crossed) /\ u.ctx = state.ctx
          /\ u.queueCache = state.queueCache
      BY <3>1, <2>0, OtherVpns
    <3> HIDE DEF u
    <3>3. state'.queueCache = u.queueCache
      BY <3>1, <3>2, <2>0, FetchVpnsRight DEF Grounds
    <3> QED
      BY <3>2, <3>3
  <2>4. ASSUME NEW i \in Fetches, PageArrives(i)
        PROVE  Holds(state.queueCache[w]) \subseteq Holds(state'.queueCache[w])
    <3>1. CASE fetches[i].kind = "vpns"
      BY <3>1, <2>4, VpnPageStep
    <3>2. CASE fetches[i].kind # "vpns"
      BY <3>2, <2>4, QueuePageStep
    <3> QED
      BY <3>1, <3>2
  <2>5. CASE PrimaryChanges \/ (\E i \in Fetches : LoadEnds(i) \/ RestEnds(i))
    BY <2>5 DEF PrimaryChanges, LoadEnds, RestEnds
  <2>6. ~Confirm /\ ~Cancel /\ ~(\E ctx \in Contexts, v \in Vpns \cup {Null} : pickQueue(ctx, v))
    BY DEF Confirm, Cancel, resolveAndClose, pickQueue
  <2> QED
    BY <2>1, <2>2, <2>3, <2>4, <2>5, <2>6 DEF PickerNext
<1> QED
  BY <1>1, PickerInvariant, PTL DEF PickerSpec, ListsOnlyGrow

-----------------------------------------------------------------------------
(* A text that a pattern reads.                                            *)

\* The induction over natural numbers, for a set of them.
LEMMA NatsInduction ==
  ASSUME NEW T, 0 \in T, \A n \in Nat : n \in T => n + 1 \in T
  PROVE  \A n \in Nat : n \in T
<1> SUFFICES ASSUME \E n \in Nat : n \notin T
             PROVE  FALSE
  OBVIOUS
<1> DEFINE Out == {n \in Nat : n \notin T}
<1>1. PICK n \in Out : \A m \in Out : ~(<<m, n>> \in OpToRel(<, Nat))
  <2>1. Out \subseteq Nat /\ Out # {}
    OBVIOUS
  <2> HIDE DEF Out
  <2> QED
    BY <2>1, NatLessThanWellFounded, WFMin
<1>2. n \in Nat /\ n # 0 /\ n - 1 \in Nat /\ n - 1 < n
  OBVIOUS
<1>3. n - 1 \in Out
  BY <1>2
<1>4. <<n - 1, n>> \in OpToRel(<, Nat)
  BY <1>2 DEF OpToRel
<1> QED
  BY <1>1, <1>3, <1>4

\* The character k of the pattern p, or the wildcard there, takes the piece of t between two cuts.
Piece(p, wild, t, k, c, d) ==
  IF k \in wild THEN c <= d ELSE d = c + 1 /\ t[d] = p[k]

Cuts(p, wild, i, t, cut) ==
  /\ cut \in [i..(Len(p) + 1) -> 0..Len(t)]
  /\ cut[i] = 0 /\ cut[Len(p) + 1] = Len(t)
  /\ \A k \in i..Len(p) : Piece(p, wild, t, k, cut[k], cut[k + 1])

\* What is left of the pattern from i on reads the whole of t.
Fits(p, wild, i, t) == \E cut : Cuts(p, wild, i, t, cut)

LEMMA CutTypes ==
  ASSUME NEW C, NEW p \in Seq(C), NEW wild, NEW i \in Nat, NEW t \in Seq(C),
         NEW cut, Cuts(p, wild, i, t, cut)
  PROVE  \A k \in i..(Len(p) + 1) : cut[k] \in 0..Len(t)
  BY DEF Cuts

LEMMA ReadsFits ==
  ASSUME NEW C, NEW X, NEW p \in Seq(X), NEW wild, NEW t \in Seq(C)
  PROVE  Reads(p, wild, C, t) <=> Fits(p, wild, 1, t)
<1>1. Len(p) \in Nat /\ Len(t) \in Nat /\ DOMAIN p = 1..Len(p)
  OBVIOUS
<1>2. \A x \in 1..Len(t) : t[x] \in C
  OBVIOUS
<1>3. ASSUME NEW cut \in [1..(Len(p) + 1) -> 0..Len(t)], NEW k \in DOMAIN p
      PROVE  \A x \in (cut[k] + 1)..cut[k + 1] : t[x] \in C
  BY <1>1, <1>2
<1>4. ASSUME NEW cut \in [1..(Len(p) + 1) -> 0..Len(t)]
      PROVE  (/\ cut[1] = 0 /\ cut[Len(p) + 1] = Len(t)
              /\ \A k \in DOMAIN p :
                   IF k \in wild
                   THEN /\ cut[k] <= cut[k + 1]
                        /\ \A x \in (cut[k] + 1)..cut[k + 1] : t[x] \in C
                   ELSE cut[k + 1] = cut[k] + 1 /\ t[cut[k + 1]] = p[k])
             <=> Cuts(p, wild, 1, t, cut)
  BY <1>1, <1>3 DEF Cuts, Piece
<1> QED
  BY <1>4 DEF Reads, Fits, Cuts

LEMMA FitsEmpty ==
  ASSUME NEW C, NEW p \in Seq(C), NEW wild, NEW i \in 1..(Len(p) + 1)
  PROVE  Fits(p, wild, i, <<>>) <=> \A k \in i..Len(p) : k \in wild
<1>1. Len(p) \in Nat
  OBVIOUS
<1>2. ASSUME Fits(p, wild, i, <<>>)
      PROVE  \A k \in i..Len(p) : k \in wild
  <2>1. PICK cut : Cuts(p, wild, i, <<>>, cut)
    BY <1>2 DEF Fits
  <2>2. \A k \in i..(Len(p) + 1) : cut[k] = 0
    BY <2>1 DEF Cuts
  <2> QED
    BY <1>1, <2>1, <2>2 DEF Cuts, Piece
<1>3. ASSUME \A k \in i..Len(p) : k \in wild
      PROVE  Fits(p, wild, i, <<>>)
  <2>1. Cuts(p, wild, i, <<>>, [k \in i..(Len(p) + 1) |-> 0])
    BY <1>1, <1>3 DEF Cuts, Piece
  <2> QED
    BY <2>1 DEF Fits
<1> QED
  BY <1>2, <1>3

LEMMA FitsEnd ==
  ASSUME NEW C, NEW p \in Seq(C), NEW wild, NEW t \in Seq(C)
  PROVE  Fits(p, wild, Len(p) + 1, t) <=> t = <<>>
<1>1. Len(p) \in Nat /\ Len(t) \in Nat
  OBVIOUS
<1>2. ASSUME Fits(p, wild, Len(p) + 1, t)
      PROVE  t = <<>>
  <2>1. PICK cut : Cuts(p, wild, Len(p) + 1, t, cut)
    BY <1>2 DEF Fits
  <2>2. Len(t) = 0
    BY <2>1 DEF Cuts
  <2> QED
    BY <2>2
<1>3. Fits(p, wild, Len(p) + 1, <<>>)
  BY <1>1, FitsEmpty
<1> QED
  BY <1>2, <1>3

\* Cuts do not go back.
LEMMA CutsGrow ==
  ASSUME NEW C, NEW p \in Seq(C), NEW wild, NEW i \in 1..Len(p), NEW t \in Seq(C),
         NEW cut, Cuts(p, wild, i, t, cut)
  PROVE  \A k \in (i + 1)..(Len(p) + 1) : cut[i + 1] <= cut[k]
<1>1. Len(p) \in Nat /\ Len(t) \in Nat
  OBVIOUS
<1>2. ASSUME NEW k \in i..(Len(p) + 1)
      PROVE  cut[k] \in Nat
  <2>1. cut[k] \in 0..Len(t)
    BY DEF Cuts
  <2> QED
    BY <2>1, <1>1
<1>3. ASSUME NEW k \in i..Len(p)
      PROVE  cut[k] <= cut[k + 1]
  <2>1. cut[k] \in Nat /\ cut[k + 1] \in Nat
    BY <1>1, <1>2
  <2>2. Piece(p, wild, t, k, cut[k], cut[k + 1])
    BY DEF Cuts
  <2> QED
    BY <2>1, <2>2 DEF Piece
<1> DEFINE T == {n \in Nat : i + 1 + n <= Len(p) + 1 => cut[i + 1] <= cut[i + 1 + n]}
<1>4. 0 \in T
  BY <1>1, <1>2
<1>5. ASSUME NEW n \in Nat, n \in T, i + 1 + (n + 1) <= Len(p) + 1
      PROVE  cut[i + 1] <= cut[i + 1 + (n + 1)]
  <2>1. cut[i + 1] <= cut[i + 1 + n]
    BY <1>1, <1>5
  <2>2. i + 1 + n \in i..Len(p) /\ i + 1 + (n + 1) = (i + 1 + n) + 1
    BY <1>1, <1>5
  <2>3. cut[i + 1 + n] <= cut[(i + 1 + n) + 1]
    BY <1>3, <2>2
  <2> DEFINE k == i + 1 + n
  <2>4. k \in i..Len(p) /\ i + 1 + (n + 1) = k + 1 /\ cut[i + 1] <= cut[k] /\ cut[k] <= cut[k + 1]
    BY <2>1, <2>2, <2>3
  <2> HIDE DEF k
  <2>5. cut[i + 1] \in Nat /\ cut[k] \in Nat /\ cut[k + 1] \in Nat
    BY <1>1, <1>2, <2>4
  <2> QED
    BY <2>4, <2>5
<1>6. \A n \in Nat : n \in T => n + 1 \in T
  BY <1>5
<1> HIDE DEF T
<1>7. \A n \in Nat : n \in T
  BY <1>4, <1>6, NatsInduction
<1> USE DEF T
<1>8. ASSUME NEW k \in (i + 1)..(Len(p) + 1)
      PROVE  cut[i + 1] <= cut[k]
  <2>1. k - (i + 1) \in Nat /\ i + 1 + (k - (i + 1)) = k
    BY <1>1
  <2>2. k - (i + 1) \in T
    BY <1>7, <2>1
  <2> QED
    BY <1>1, <2>1, <2>2
<1> QED
  BY <1>8

\* u is t after one more character.
Longer(u, t) ==
  Len(u) = Len(t) + 1 /\ \A k \in 1..Len(t) : u[k + 1] = t[k]

\* The cuts of a shorter text, moved up by a character in front.
LEMMA CutsUp ==
  ASSUME NEW C, NEW p \in Seq(C), NEW wild, NEW i \in 1..Len(p), NEW t \in Seq(C), NEW u \in Seq(C),
         Longer(u, t), NEW cut, NEW j \in {i, i + 1}, Cuts(p, wild, j, t, cut),
         Piece(p, wild, u, i, 0, cut[i + 1] + 1)
  PROVE  Fits(p, wild, i, u)
<1> DEFINE n == Len(p)
           up == [k \in i..(n + 1) |-> IF k = i THEN 0 ELSE cut[k] + 1]
<1>1. n \in Nat /\ Len(t) \in Nat /\ Len(u) = Len(t) + 1 /\ i \in Nat /\ i >= 1 /\ i <= n
  BY DEF Longer
<1>2. \A k \in (i + 1)..(n + 1) : cut[k] \in 0..Len(t)
  <2>1. j \in Nat /\ \A k \in (i + 1)..(n + 1) : k \in j..(n + 1)
    BY <1>1
  <2>2. \A k \in j..(n + 1) : cut[k] \in 0..Len(t)
    BY <2>1, CutTypes
  <2> QED
    BY <2>1, <2>2
<1>3. up \in [i..(n + 1) -> 0..Len(u)]
  BY <1>1, <1>2
<1>4. /\ up[i] = 0
      /\ \A k \in (i + 1)..(n + 1) : up[k] = cut[k] + 1
  BY <1>1
<1>5. up[n + 1] = Len(u)
  BY <1>1, <1>4 DEF Cuts
<1> HIDE DEF up
<1>6. ASSUME NEW k \in (i + 1)..n
      PROVE  Piece(p, wild, u, k, up[k], up[k + 1])
  <2>1. Piece(p, wild, t, k, cut[k], cut[k + 1])
    BY <1>1 DEF Cuts
  <2>2. /\ up[k] = cut[k] + 1 /\ up[k + 1] = cut[k + 1] + 1
        /\ cut[k] \in 0..Len(t) /\ cut[k + 1] \in 0..Len(t)
    BY <1>1, <1>2, <1>4
  <2>3. CASE k \in wild
    BY <2>1, <2>2, <2>3 DEF Piece
  <2>4. CASE k \notin wild
    <3>1. cut[k + 1] = cut[k] + 1 /\ t[cut[k + 1]] = p[k]
      BY <2>1, <2>4 DEF Piece
    <3>2. cut[k + 1] \in 1..Len(t)
      BY <1>1, <2>2, <3>1
    <3>3. u[cut[k + 1] + 1] = t[cut[k + 1]]
      BY <3>2 DEF Longer
    <3> QED
      BY <2>2, <2>4, <3>1, <3>3 DEF Piece
  <2> QED
    BY <2>3, <2>4
<1>7. Piece(p, wild, u, i, up[i], up[i + 1])
  BY <1>1, <1>4
<1>8. Cuts(p, wild, i, u, up)
  BY <1>1, <1>3, <1>4, <1>5, <1>6, <1>7 DEF Cuts
<1> QED
  BY <1>8 DEF Fits

\* The cuts of a longer text, moved down by its first character.
LEMMA CutsDown ==
  ASSUME NEW C, NEW p \in Seq(C), NEW wild, NEW i \in 1..Len(p), NEW t \in Seq(C), NEW u \in Seq(C),
         Longer(u, t), NEW cut, Cuts(p, wild, i, u, cut), cut[i + 1] # 0, NEW j \in {i, i + 1},
         j = i => i \in wild, j = i + 1 => cut[i + 1] = 1
  PROVE  Fits(p, wild, j, t)
<1> DEFINE n == Len(p)
           down == [k \in j..(n + 1) |-> IF k = i THEN 0 ELSE cut[k] - 1]
<1>1. n \in Nat /\ Len(t) \in Nat /\ Len(u) = Len(t) + 1 /\ i \in Nat /\ i >= 1 /\ i <= n
  BY DEF Longer
<1>2. \A k \in (i + 1)..(n + 1) : cut[k] \in 0..Len(u)
  <2>1. \A k \in (i + 1)..(n + 1) : k \in i..(n + 1)
    BY <1>1
  <2>2. \A k \in i..(n + 1) : cut[k] \in 0..Len(u)
    BY <1>1, CutTypes
  <2> QED
    BY <2>1, <2>2
<1>3. \A k \in (i + 1)..(n + 1) : cut[k] \in 1..Len(u)
  <2>1. \A k \in (i + 1)..(n + 1) : cut[i + 1] <= cut[k]
    BY CutsGrow
  <2>2. i + 1 \in (i + 1)..(n + 1)
    BY <1>1
  <2> QED
    BY <1>1, <1>2, <2>1, <2>2
<1>4. down \in [j..(n + 1) -> 0..Len(t)]
  BY <1>1, <1>3
<1>5. \A k \in (i + 1)..(n + 1) : down[k] = cut[k] - 1
  BY <1>1
<1>6. down[j] = 0
  BY <1>1, <1>5
<1>7. down[n + 1] = Len(t)
  BY <1>1, <1>5 DEF Cuts
<1>8. j = i => down[i] = 0
  BY <1>1
<1> HIDE DEF down
<1>9. ASSUME NEW k \in (i + 1)..n
      PROVE  Piece(p, wild, t, k, down[k], down[k + 1])
  <2>1. Piece(p, wild, u, k, cut[k], cut[k + 1])
    BY <1>1 DEF Cuts
  <2>2. /\ down[k] = cut[k] - 1 /\ down[k + 1] = cut[k + 1] - 1
        /\ cut[k] \in 1..Len(u) /\ cut[k + 1] \in 1..Len(u)
    BY <1>1, <1>3, <1>5
  <2>3. CASE k \in wild
    BY <2>1, <2>2, <2>3 DEF Piece
  <2>4. CASE k \notin wild
    <3>1. cut[k + 1] = cut[k] + 1 /\ u[cut[k + 1]] = p[k]
      BY <2>1, <2>4 DEF Piece
    <3>2. down[k + 1] \in 1..Len(t)
      BY <1>1, <2>2, <3>1
    <3>3. u[down[k + 1] + 1] = t[down[k + 1]]
      BY <3>2 DEF Longer
    <3>4. down[k + 1] + 1 = cut[k + 1] /\ down[k + 1] = down[k] + 1
      BY <1>1, <2>2, <3>1
    <3> QED
      BY <2>4, <3>1, <3>3, <3>4 DEF Piece
  <2> QED
    BY <2>3, <2>4
<1>10. ASSUME j = i
       PROVE  Piece(p, wild, t, i, down[i], down[i + 1])
  <2>1. down[i + 1] \in Nat
    BY <1>1, <1>3, <1>5
  <2> QED
    BY <1>8, <1>10, <2>1 DEF Piece
<1>11. \A k \in j..n : Piece(p, wild, t, k, down[k], down[k + 1])
  <2>1. ASSUME NEW k \in j..n
        PROVE  Piece(p, wild, t, k, down[k], down[k + 1])
    <3>1. k \in (i + 1)..n \/ (k = i /\ j = i)
      BY <1>1
    <3> QED
      BY <3>1, <1>9, <1>10
  <2> QED
    BY <2>1
<1>12. Cuts(p, wild, j, t, down)
  BY <1>1, <1>4, <1>6, <1>7, <1>11 DEF Cuts
<1> QED
  BY <1>12 DEF Fits

\* A wildcard may take nothing.
LEMMA FitsSkip ==
  ASSUME NEW C, NEW p \in Seq(C), NEW wild, NEW i \in 1..Len(p), i \in wild, NEW t \in Seq(C),
         Fits(p, wild, i + 1, t)
  PROVE  Fits(p, wild, i, t)
<1> DEFINE n == Len(p)
<1>1. n \in Nat /\ Len(t) \in Nat /\ i \in Nat /\ i >= 1 /\ i <= n
  OBVIOUS
<1>2. PICK cut : Cuts(p, wild, i + 1, t, cut)
  BY DEF Fits
<1> DEFINE same == [k \in i..(n + 1) |-> IF k = i THEN 0 ELSE cut[k]]
<1>3. same \in [i..(n + 1) -> 0..Len(t)]
  BY <1>1, <1>2 DEF Cuts
<1>4. same[i] = 0 /\ \A k \in (i + 1)..(n + 1) : same[k] = cut[k]
  BY <1>1
<1> HIDE DEF same
<1>5. same[i] = 0 /\ same[n + 1] = Len(t) /\ same[i + 1] = 0
  BY <1>1, <1>2, <1>4 DEF Cuts
<1>6. \A k \in (i + 1)..n : Piece(p, wild, t, k, same[k], same[k + 1])
  BY <1>1, <1>2, <1>4 DEF Cuts
<1>7. Piece(p, wild, t, i, same[i], same[i + 1])
  BY <1>5 DEF Piece
<1>8. Cuts(p, wild, i, t, same)
  BY <1>1, <1>3, <1>5, <1>6, <1>7 DEF Cuts
<1> QED
  BY <1>8 DEF Fits

\* A wildcard takes one character more.
LEMMA FitsMore ==
  ASSUME NEW C, NEW p \in Seq(C), NEW wild, NEW i \in 1..Len(p), i \in wild, NEW t \in Seq(C),
         NEW u \in Seq(C), Longer(u, t), Fits(p, wild, i, t)
  PROVE  Fits(p, wild, i, u)
<1>1. PICK cut : Cuts(p, wild, i, t, cut)
  BY DEF Fits
<1>2. cut[i + 1] \in Nat
  <2>1. i \in Nat
    OBVIOUS
  <2>2. \A k \in i..(Len(p) + 1) : cut[k] \in 0..Len(t)
    BY <1>1, <2>1, CutTypes
  <2> QED
    BY <2>2
<1>3. Piece(p, wild, u, i, 0, cut[i + 1] + 1)
  BY <1>2 DEF Piece
<1> QED
  BY <1>1, <1>3, CutsUp

\* A character takes itself.
LEMMA FitsChar ==
  ASSUME NEW C, NEW p \in Seq(C), NEW wild, NEW i \in 1..Len(p), i \notin wild, NEW t \in Seq(C),
         NEW u \in Seq(C), Longer(u, t), u[1] = p[i], Fits(p, wild, i + 1, t)
  PROVE  Fits(p, wild, i, u)
<1>1. PICK cut : Cuts(p, wild, i + 1, t, cut)
  BY DEF Fits
<1>2. cut[i + 1] = 0
  BY <1>1 DEF Cuts
<1>3. Piece(p, wild, u, i, 0, cut[i + 1] + 1)
  BY <1>2 DEF Piece
<1> QED
  BY <1>1, <1>3, CutsUp

LEMMA WildFits ==
  ASSUME NEW C, NEW p \in Seq(C), NEW wild, NEW i \in 1..Len(p), i \in wild, NEW t \in Seq(C),
         NEW u \in Seq(C), Longer(u, t), Fits(p, wild, i, u)
  PROVE  Fits(p, wild, i + 1, u) \/ Fits(p, wild, i, t)
<1>1. PICK cut : Cuts(p, wild, i, u, cut)
  BY DEF Fits
<1>2. CASE cut[i + 1] # 0
  BY <1>1, <1>2, CutsDown
<1>3. CASE cut[i + 1] = 0
  <2> DEFINE n == Len(p)
             rest == [k \in (i + 1)..(n + 1) |-> cut[k]]
  <2>1. n \in Nat /\ Len(u) \in Nat /\ i \in Nat /\ i >= 1 /\ i <= n
    OBVIOUS
  <2>2. rest \in [(i + 1)..(n + 1) -> 0..Len(u)]
    BY <1>1, <2>1 DEF Cuts
  <2>3. \A k \in (i + 1)..(n + 1) : rest[k] = cut[k]
    OBVIOUS
  <2> HIDE DEF rest
  <2>7. /\ cut[n + 1] = Len(u)
        /\ \A k \in i..n : Piece(p, wild, u, k, cut[k], cut[k + 1])
    BY <1>1 DEF Cuts
  <2>4. rest[i + 1] = 0 /\ rest[n + 1] = Len(u)
    BY <1>3, <2>1, <2>3, <2>7
  <2>5. ASSUME NEW k \in (i + 1)..n
        PROVE  Piece(p, wild, u, k, rest[k], rest[k + 1])
    <3>1. k \in i..n /\ k \in (i + 1)..(n + 1) /\ k + 1 \in (i + 1)..(n + 1)
      BY <2>1
    <3>2. rest[k] = cut[k] /\ rest[k + 1] = cut[k + 1]
      BY <2>3, <3>1
    <3> QED
      BY <2>7, <3>1, <3>2
  <2>6. Cuts(p, wild, i + 1, u, rest)
    BY <2>1, <2>2, <2>4, <2>5 DEF Cuts
  <2> QED
    BY <2>6 DEF Fits
<1> QED
  BY <1>2, <1>3

LEMMA CharFits ==
  ASSUME NEW C, NEW p \in Seq(C), NEW wild, NEW i \in 1..Len(p), i \notin wild, NEW t \in Seq(C),
         NEW u \in Seq(C), Longer(u, t), Fits(p, wild, i, u)
  PROVE  u[1] = p[i] /\ Fits(p, wild, i + 1, t)
<1>1. PICK cut : Cuts(p, wild, i, u, cut)
  BY DEF Fits
<1>2. Len(p) \in Nat /\ i \in i..Len(p) /\ cut[i] = 0
  BY <1>1 DEF Cuts
<1>3. Piece(p, wild, u, i, cut[i], cut[i + 1])
  BY <1>1, <1>2 DEF Cuts
<1>4. cut[i + 1] = 1 /\ u[1] = p[i]
  BY <1>2, <1>3 DEF Piece
<1> QED
  BY <1>1, <1>4, CutsDown

-----------------------------------------------------------------------------
(* Two patterns that read one text.                                        *)

\* Some text is read by what is left of both patterns.
Common(C, a, i, b, j) ==
  \E t \in Seq(C) : Fits(a, Stars(a), i, t) /\ Fits(b, Stars(b), j, t)

LEMMA CommonSwap ==
  ASSUME NEW C, NEW a, NEW i, NEW b, NEW j
  PROVE  Common(C, a, i, b, j) <=> Common(C, b, j, a, i)
  BY DEF Common

\* A text after one more character.
LEMMA OneMoreChar ==
  ASSUME NEW C, NEW t \in Seq(C), NEW c \in C
  PROVE  \E u \in Seq(C) : Longer(u, t) /\ u[1] = c
<1>1. <<c>> \o t \in Seq(C)
  OBVIOUS
<1>2. Longer(<<c>> \o t, t) /\ (<<c>> \o t)[1] = c
  BY DEF Longer
<1> QED
  BY <1>1, <1>2

LEMMA OneLess ==
  ASSUME NEW C, NEW u \in Seq(C), u # <<>>
  PROVE  \E t \in Seq(C) : Longer(u, t) /\ Len(t) \in Nat /\ Len(t) + 1 = Len(u)
<1>1. Tail(u) \in Seq(C)
  OBVIOUS
<1>2. Longer(u, Tail(u)) /\ Len(Tail(u)) \in Nat
  BY DEF Longer
<1> QED
  BY <1>1, <1>2 DEF Longer

LEMMA CharOf ==
  ASSUME NEW C, NEW b \in Seq(C \cup {Star}), NEW j \in 1..Len(b)
  PROVE  /\ j \in Stars(b) <=> b[j] = Star
         /\ j \notin Stars(b) => b[j] \in C
<1>1. j \in DOMAIN b /\ b[j] \in C \cup {Star}
  OBVIOUS
<1> QED
  BY <1>1 DEF Stars

\* At a star of the one pattern it takes nothing more, or what the other one takes next.
LEMMA CommonStar ==
  ASSUME NEW C, NEW a \in Seq(C \cup {Star}), NEW i \in 1..Len(a), a[i] = Star,
         NEW b \in Seq(C \cup {Star}), NEW j \in 1..Len(b)
  PROVE  Common(C, a, i, b, j) <=> Common(C, a, i + 1, b, j) \/ Common(C, a, i, b, j + 1)
<1> DEFINE X == C \cup {Star}
<1>1. Seq(C) \subseteq Seq(X)
  OBVIOUS
<1>2. i \in Stars(a)
  BY CharOf
<1>3. ASSUME Common(C, a, i + 1, b, j)
      PROVE  Common(C, a, i, b, j)
  <2>1. PICK t \in Seq(C) : Fits(a, Stars(a), i + 1, t) /\ Fits(b, Stars(b), j, t)
    BY <1>3 DEF Common
  <2>2. Fits(a, Stars(a), i, t)
    BY <1>1, <1>2, <2>1, FitsSkip
  <2> QED
    BY <2>1, <2>2 DEF Common
<1>4. ASSUME Common(C, a, i, b, j + 1)
      PROVE  Common(C, a, i, b, j)
  <2>1. PICK t \in Seq(C) : Fits(a, Stars(a), i, t) /\ Fits(b, Stars(b), j + 1, t)
    BY <1>4 DEF Common
  <2>2. CASE j \in Stars(b)
    <3>1. t \in Seq(X)
      BY <1>1
    <3>2. Fits(b, Stars(b), j, t)
      BY <2>1, <2>2, <3>1, FitsSkip
    <3> QED
      BY <2>1, <3>2 DEF Common
  <2>3. CASE j \notin Stars(b)
    <3>1. PICK c \in C : c = b[j]
      BY <2>3, CharOf
    <3>2. PICK u \in Seq(C) : Longer(u, t) /\ u[1] = c
      BY OneMoreChar
    <3>3. Fits(a, Stars(a), i, u)
      BY <1>1, <1>2, <2>1, <3>2, FitsMore
    <3>4. Fits(b, Stars(b), j, u)
      BY <1>1, <2>1, <2>3, <3>1, <3>2, FitsChar
    <3> QED
      BY <3>3, <3>4 DEF Common
  <2> QED
    BY <2>2, <2>3
<1>5. ASSUME Common(C, a, i, b, j)
      PROVE  Common(C, a, i + 1, b, j) \/ Common(C, a, i, b, j + 1)
  <2> DEFINE Goal == Common(C, a, i + 1, b, j) \/ Common(C, a, i, b, j + 1)
             Both(t) == Fits(a, Stars(a), i, t) /\ Fits(b, Stars(b), j, t)
             T == {n \in Nat : \A t \in Seq(C) : Len(t) = n /\ Both(t) => Goal}
  <2>1. ASSUME NEW t \in Seq(C), Len(t) = 0, Both(t)
        PROVE  Goal
    <3>1. t = <<>>
      BY <2>1
    <3>2. \A k \in i..Len(a) : k \in Stars(a)
      BY <2>1, <3>1, FitsEmpty
    <3>3. Fits(a, Stars(a), i + 1, <<>>)
      <4>1. i + 1 \in 1..(Len(a) + 1) /\ \A k \in (i + 1)..Len(a) : k \in Stars(a)
        BY <3>2
      <4> QED
        BY <4>1, FitsEmpty
    <3> QED
      BY <2>1, <3>1, <3>3 DEF Common
  <2>2. ASSUME NEW n \in Nat, n \in T, NEW u \in Seq(C), Len(u) = n + 1, Both(u)
        PROVE  Goal
    <3>1. PICK t \in Seq(C) : Longer(u, t) /\ Len(t) \in Nat /\ Len(t) + 1 = Len(u)
      <4>1. u # <<>>
        BY <2>2
      <4> QED
        BY <4>1, OneLess
    <3>2. Len(t) = n
      BY <2>2, <3>1
    <3>3. Fits(a, Stars(a), i + 1, u) \/ Fits(a, Stars(a), i, t)
      BY <1>1, <1>2, <2>2, <3>1, WildFits
    <3>4. CASE Fits(a, Stars(a), i + 1, u)
      BY <2>2, <3>4 DEF Common
    <3>5. CASE Fits(a, Stars(a), i, t) /\ j \in Stars(b)
      <4>1. Fits(b, Stars(b), j + 1, u) \/ Fits(b, Stars(b), j, t)
        BY <1>1, <2>2, <3>1, <3>5, WildFits
      <4>2. CASE Fits(b, Stars(b), j + 1, u)
        BY <2>2, <4>2 DEF Common
      <4>3. CASE Fits(b, Stars(b), j, t)
        <5>1. Both(t)
          BY <3>5, <4>3
        <5> HIDE DEF Both, Goal
        <5> QED
          BY <2>2, <3>2, <5>1
      <4> QED
        BY <4>1, <4>2, <4>3
    <3>6. CASE Fits(a, Stars(a), i, t) /\ j \notin Stars(b)
      <4>1. Fits(b, Stars(b), j + 1, t)
        BY <1>1, <2>2, <3>1, <3>6, CharFits
      <4> QED
        BY <3>6, <4>1 DEF Common
    <3> QED
      BY <3>3, <3>4, <3>5, <3>6
  <2> HIDE DEF Goal, Both
  <2>3. 0 \in T
    BY <2>1
  <2>4. \A n \in Nat : n \in T => n + 1 \in T
    BY <2>2
  <2> HIDE DEF T
  <2>5. \A n \in Nat : n \in T
    BY <2>3, <2>4, NatsInduction
  <2>6. PICK t \in Seq(C) : Both(t)
    BY <1>5 DEF Common, Both
  <2>7. Len(t) \in T
    BY <2>5
  <2>8. Goal
    BY <2>6, <2>7 DEF T
  <2> QED
    BY <2>8 DEF Goal
<1> QED
  BY <1>3, <1>4, <1>5

LEMMA CommonChars ==
  ASSUME NEW C, NEW a \in Seq(C \cup {Star}), NEW i \in 1..Len(a), a[i] # Star,
         NEW b \in Seq(C \cup {Star}), NEW j \in 1..Len(b), b[j] # Star
  PROVE  Common(C, a, i, b, j) <=> a[i] = b[j] /\ Common(C, a, i + 1, b, j + 1)
<1> DEFINE X == C \cup {Star}
<1>1. Seq(C) \subseteq Seq(X)
  OBVIOUS
<1>2. i \notin Stars(a) /\ j \notin Stars(b) /\ a[i] \in C
  BY CharOf
<1>3. ASSUME Common(C, a, i, b, j)
      PROVE  a[i] = b[j] /\ Common(C, a, i + 1, b, j + 1)
  <2>1. PICK u \in Seq(C) : Fits(a, Stars(a), i, u) /\ Fits(b, Stars(b), j, u)
    BY <1>3 DEF Common
  <2>2. u # <<>>
    <3>1. ASSUME u = <<>>
          PROVE  FALSE
      <4>1. i \in 1..(Len(a) + 1) /\ i \in i..Len(a)
        OBVIOUS
      <4>2. \A k \in i..Len(a) : k \in Stars(a)
        BY <2>1, <3>1, <4>1, FitsEmpty
      <4> QED
        BY <1>2, <4>1, <4>2
    <3> QED
      BY <3>1
  <2>3. PICK t \in Seq(C) : Longer(u, t)
    BY <2>2, OneLess
  <2>4. u[1] = a[i] /\ Fits(a, Stars(a), i + 1, t)
    BY <1>1, <1>2, <2>1, <2>3, CharFits
  <2>5. u[1] = b[j] /\ Fits(b, Stars(b), j + 1, t)
    BY <1>1, <1>2, <2>1, <2>3, CharFits
  <2> QED
    BY <2>4, <2>5 DEF Common
<1>4. ASSUME a[i] = b[j], Common(C, a, i + 1, b, j + 1)
      PROVE  Common(C, a, i, b, j)
  <2>1. PICK t \in Seq(C) : Fits(a, Stars(a), i + 1, t) /\ Fits(b, Stars(b), j + 1, t)
    BY <1>4 DEF Common
  <2>5. PICK c \in C : c = a[i]
    BY <1>2
  <2>2. PICK u \in Seq(C) : Longer(u, t) /\ u[1] = c
    BY OneMoreChar
  <2>6. u[1] = a[i] /\ u[1] = b[j]
    BY <1>4, <2>2, <2>5
  <2>3. Fits(a, Stars(a), i, u)
    BY <1>1, <1>2, <2>1, <2>2, <2>6, FitsChar
  <2>4. Fits(b, Stars(b), j, u)
    BY <1>1, <1>2, <2>1, <2>2, <2>6, FitsChar
  <2> QED
    BY <2>3, <2>4 DEF Common
<1> QED
  BY <1>3, <1>4

\* At the end of the one pattern the other one must read nothing.
LEMMA CommonEnd ==
  ASSUME NEW C, NEW a \in Seq(C \cup {Star}), NEW b \in Seq(C \cup {Star}), NEW j \in 1..(Len(b) + 1)
  PROVE  Common(C, a, Len(a) + 1, b, j) <=> \A k \in j..Len(b) : b[k] = Star
<1> DEFINE X == C \cup {Star}
<1>1. Seq(C) \subseteq Seq(X) /\ <<>> \in Seq(C)
  OBVIOUS
<1>2. \A t \in Seq(C) : Fits(a, Stars(a), Len(a) + 1, t) <=> t = <<>>
  BY <1>1, FitsEnd
<1>3. Common(C, a, Len(a) + 1, b, j) <=> Fits(b, Stars(b), j, <<>>)
  BY <1>1, <1>2 DEF Common
<1>4. Fits(b, Stars(b), j, <<>>) <=> \A k \in j..Len(b) : k \in Stars(b)
  BY FitsEmpty
<1>5. \A k \in j..Len(b) : k \in Stars(b) <=> b[k] = Star
  BY DEF Stars
<1> QED
  BY <1>3, <1>4, <1>5

-----------------------------------------------------------------------------
(* The recursion of levelsIntersect.                                       *)

Places(a, b) == (1..(Len(a) + 1)) \X (1..(Len(b) + 1))

RecAt(f, a, b, i, j) ==
  IF i > Len(a) \/ j > Len(b)
  THEN /\ \A p \in i..Len(a) : a[p] = Star
       /\ \A p \in j..Len(b) : b[p] = Star
  ELSE IF Star \in {a[i], b[j]}
  THEN f[<<i + 1, j>>] \/ f[<<i, j + 1>>]
  ELSE a[i] = b[j] /\ f[<<i + 1, j + 1>>]

Recursion(f, a, b) == f = [x \in Places(a, b) |-> RecAt(f, a, b, x[1], x[2])]

LEMMA RecursionChosen ==
  ASSUME NEW a, NEW b
  PROVE  levelsIntersect(a, b) = (CHOOSE f : Recursion(f, a, b))[<<1, 1>>]
  BY DEF levelsIntersect, Recursion, RecAt, Places

LEMMA RecursionAt ==
  ASSUME NEW a, NEW b, NEW f, Recursion(f, a, b),
         NEW i \in 1..(Len(a) + 1), NEW j \in 1..(Len(b) + 1)
  PROVE  f[<<i, j>>] = RecAt(f, a, b, i, j)
<1> DEFINE e(x) == RecAt(f, a, b, x[1], x[2])
<1>1. f = [x \in Places(a, b) |-> e(x)]
  BY DEF Recursion
<1>2. <<i, j>> \in Places(a, b)
  BY DEF Places
<1>3. e(<<i, j>>) = RecAt(f, a, b, i, j)
  OBVIOUS
<1> HIDE DEF e
<1>4. f[<<i, j>>] = e(<<i, j>>)
  BY <1>1, <1>2
<1> QED
  BY <1>3, <1>4

\* Whether there is a common text follows the recursion.
LEMMA CommonAt ==
  ASSUME NEW C, Star \notin C, NEW a \in Seq(C \cup {Star}), NEW b \in Seq(C \cup {Star}),
         NEW f, \A i \in 1..(Len(a) + 1), j \in 1..(Len(b) + 1) : f[<<i, j>>] = Common(C, a, i, b, j),
         NEW i \in 1..(Len(a) + 1), NEW j \in 1..(Len(b) + 1)
  PROVE  Common(C, a, i, b, j) <=> RecAt(f, a, b, i, j)
<1>1. Len(a) \in Nat /\ Len(b) \in Nat
  OBVIOUS
<1>2. CASE i > Len(a)
  <2>1. i = Len(a) + 1
    BY <1>1, <1>2
  <2>2. Common(C, a, i, b, j) <=> \A k \in j..Len(b) : b[k] = Star
    BY <2>1, CommonEnd
  <2>3. \A k \in i..Len(a) : a[k] = Star
    BY <1>1, <2>1
  <2> QED
    BY <1>2, <2>2, <2>3 DEF RecAt
<1>3. CASE i <= Len(a) /\ j > Len(b)
  <2>1. j = Len(b) + 1
    BY <1>1, <1>3
  <2>2. Common(C, b, j, a, i) <=> \A k \in i..Len(a) : a[k] = Star
    BY <2>1, CommonEnd
  <2>3. \A k \in j..Len(b) : b[k] = Star
    BY <1>1, <2>1
  <2>4. Common(C, a, i, b, j) <=> Common(C, b, j, a, i)
    BY CommonSwap
  <2> QED
    BY <1>3, <2>2, <2>3, <2>4 DEF RecAt
<1>4. CASE i <= Len(a) /\ j <= Len(b)
  <2>1. i \in 1..Len(a) /\ j \in 1..Len(b) /\ ~(i > Len(a) \/ j > Len(b))
    BY <1>1, <1>4
  <2>2. /\ i + 1 \in 1..(Len(a) + 1) /\ j + 1 \in 1..(Len(b) + 1)
    BY <1>1, <2>1
  <2>3. /\ f[<<i + 1, j>>] = Common(C, a, i + 1, b, j)
        /\ f[<<i, j + 1>>] = Common(C, a, i, b, j + 1)
        /\ f[<<i + 1, j + 1>>] = Common(C, a, i + 1, b, j + 1)
    BY <2>2
  <2>4. CASE a[i] = Star \/ b[j] = Star
    <3>1. RecAt(f, a, b, i, j) = (f[<<i + 1, j>>] \/ f[<<i, j + 1>>])
      BY <2>1, <2>4 DEF RecAt
    <3>2. CASE a[i] = Star
      <4>1. Common(C, a, i, b, j) <=> Common(C, a, i + 1, b, j) \/ Common(C, a, i, b, j + 1)
        BY <2>1, <3>2, CommonStar
      <4> QED
        BY <2>3, <3>1, <4>1
    <3>3. CASE b[j] = Star
      <4>1. Common(C, b, j, a, i) <=> Common(C, b, j + 1, a, i) \/ Common(C, b, j, a, i + 1)
        BY <2>1, <3>3, CommonStar
      <4>2. /\ Common(C, a, i, b, j) <=> Common(C, b, j, a, i)
            /\ Common(C, a, i + 1, b, j) <=> Common(C, b, j, a, i + 1)
            /\ Common(C, a, i, b, j + 1) <=> Common(C, b, j + 1, a, i)
        BY CommonSwap
      <4> QED
        BY <2>3, <3>1, <4>1, <4>2
    <3> QED
      BY <2>4, <3>2, <3>3
  <2>5. CASE a[i] # Star /\ b[j] # Star
    <3>1. RecAt(f, a, b, i, j) = (a[i] = b[j] /\ f[<<i + 1, j + 1>>])
      BY <2>1, <2>5 DEF RecAt
    <3>2. Common(C, a, i, b, j) <=> a[i] = b[j] /\ Common(C, a, i + 1, b, j + 1)
      BY <2>1, <2>5, CommonChars
    <3> QED
      BY <2>3, <3>1, <3>2
  <2> QED
    BY <2>4, <2>5
<1> QED
  BY <1>1, <1>2, <1>3, <1>4

\* There is one function that does, and no other.
LEMMA RecursionIsCommon ==
  ASSUME NEW C, Star \notin C, NEW a \in Seq(C \cup {Star}), NEW b \in Seq(C \cup {Star}),
         NEW f, Recursion(f, a, b)
  PROVE  f[<<1, 1>>] <=> Common(C, a, 1, b, 1)
<1>1. Len(a) \in Nat /\ Len(b) \in Nat
  OBVIOUS
<1> DEFINE g == [x \in Places(a, b) |-> Common(C, a, x[1], b, x[2])]
           left(i, j) == (Len(a) + 1 - i) + (Len(b) + 1 - j)
           T == {n \in Nat : \A i \in 1..(Len(a) + 1), j \in 1..(Len(b) + 1) :
                               left(i, j) <= n => f[<<i, j>>] = Common(C, a, i, b, j)}
<1>2. \A i \in 1..(Len(a) + 1), j \in 1..(Len(b) + 1) : g[<<i, j>>] = Common(C, a, i, b, j)
  <2>1. ASSUME NEW i \in 1..(Len(a) + 1), NEW j \in 1..(Len(b) + 1)
        PROVE  g[<<i, j>>] = Common(C, a, i, b, j)
    BY DEF Places
  <2> QED
    BY <2>1
<1> HIDE DEF g
<1>3. ASSUME NEW i \in 1..(Len(a) + 1), NEW j \in 1..(Len(b) + 1),
             i <= Len(a) /\ j <= Len(b) =>
               /\ f[<<i + 1, j>>] = Common(C, a, i + 1, b, j)
               /\ f[<<i, j + 1>>] = Common(C, a, i, b, j + 1)
               /\ f[<<i + 1, j + 1>>] = Common(C, a, i + 1, b, j + 1)
      PROVE  f[<<i, j>>] = Common(C, a, i, b, j)
  <2>1. f[<<i, j>>] = RecAt(f, a, b, i, j)
    BY RecursionAt
  <2>2. Common(C, a, i, b, j) <=> RecAt(g, a, b, i, j)
    BY <1>2, CommonAt
  <2>3. RecAt(f, a, b, i, j) = RecAt(g, a, b, i, j)
    <3>1. CASE i > Len(a) \/ j > Len(b)
      BY <3>1 DEF RecAt
    <3>2. CASE i <= Len(a) /\ j <= Len(b)
      <4>1. i + 1 \in 1..(Len(a) + 1) /\ j + 1 \in 1..(Len(b) + 1)
        BY <1>1, <3>2
      <4>2. /\ g[<<i + 1, j>>] = f[<<i + 1, j>>]
            /\ g[<<i, j + 1>>] = f[<<i, j + 1>>]
            /\ g[<<i + 1, j + 1>>] = f[<<i + 1, j + 1>>]
        BY <1>2, <1>3, <3>2, <4>1
      <4> QED
        BY <4>2 DEF RecAt
    <3> QED
      BY <1>1, <3>1, <3>2
  <2>4. RecAt(g, a, b, i, j) \in BOOLEAN /\ Common(C, a, i, b, j) \in BOOLEAN
    <3>1. Common(C, a, i, b, j) \in BOOLEAN
      BY DEF Common
    <3>2. RecAt(g, a, b, i, j) \in BOOLEAN
      BY DEF RecAt
    <3> QED
      BY <3>1, <3>2
  <2> QED
    BY <2>1, <2>2, <2>3, <2>4
<1>4. 0 \in T
  <2>1. ASSUME NEW i \in 1..(Len(a) + 1), NEW j \in 1..(Len(b) + 1), left(i, j) <= 0
        PROVE  f[<<i, j>>] = Common(C, a, i, b, j)
    <3>1. ~(i <= Len(a) /\ j <= Len(b))
      BY <1>1, <2>1
    <3> HIDE DEF left, T
    <3> QED
      BY <1>3, <3>1
  <2> QED
    BY <2>1
<1>5. ASSUME NEW n \in Nat, n \in T
      PROVE  n + 1 \in T
  <2>1. ASSUME NEW i \in 1..(Len(a) + 1), NEW j \in 1..(Len(b) + 1), left(i, j) <= n + 1
        PROVE  f[<<i, j>>] = Common(C, a, i, b, j)
    <3>1. ASSUME i <= Len(a), j <= Len(b)
          PROVE  /\ f[<<i + 1, j>>] = Common(C, a, i + 1, b, j)
                 /\ f[<<i, j + 1>>] = Common(C, a, i, b, j + 1)
                 /\ f[<<i + 1, j + 1>>] = Common(C, a, i + 1, b, j + 1)
      <4>1. i + 1 \in 1..(Len(a) + 1) /\ j + 1 \in 1..(Len(b) + 1)
        BY <1>1, <3>1
      <4>2. left(i + 1, j) <= n /\ left(i, j + 1) <= n /\ left(i + 1, j + 1) <= n
        BY <1>1, <2>1
      <4> HIDE DEF left
      <4> QED
        BY <1>5, <4>1, <4>2
    <3> QED
      BY <1>3, <3>1
  <2> QED
    BY <2>1
<1>6. \A n \in Nat : n \in T => n + 1 \in T
  BY <1>5
<1> HIDE DEF T
<1>7. \A n \in Nat : n \in T
  BY <1>4, <1>6, NatsInduction
<1>8. left(1, 1) \in T
  BY <1>1, <1>7
<1>9. 1 \in 1..(Len(a) + 1) /\ 1 \in 1..(Len(b) + 1) /\ left(1, 1) <= left(1, 1)
  BY <1>1
<1> HIDE DEF left
<1> QED
  BY <1>8, <1>9 DEF T

LEMMA RecursionSome ==
  ASSUME NEW C, Star \notin C, NEW a \in Seq(C \cup {Star}), NEW b \in Seq(C \cup {Star})
  PROVE  \E f : Recursion(f, a, b)
<1> DEFINE g == [x \in Places(a, b) |-> Common(C, a, x[1], b, x[2])]
           e(x) == RecAt(g, a, b, x[1], x[2])
<1>1. \A i \in 1..(Len(a) + 1), j \in 1..(Len(b) + 1) : g[<<i, j>>] = Common(C, a, i, b, j)
  <2>1. ASSUME NEW i \in 1..(Len(a) + 1), NEW j \in 1..(Len(b) + 1)
        PROVE  g[<<i, j>>] = Common(C, a, i, b, j)
    BY DEF Places
  <2> QED
    BY <2>1
<1>2. \A x \in Places(a, b) : g[x] = Common(C, a, x[1], b, x[2])
  OBVIOUS
<1>3. DOMAIN g = Places(a, b) /\ g = [x \in Places(a, b) |-> g[x]]
  OBVIOUS
<1> HIDE DEF g
<1>4. ASSUME NEW x \in Places(a, b)
      PROVE  g[x] = e(x)
  <2>1. x[1] \in 1..(Len(a) + 1) /\ x[2] \in 1..(Len(b) + 1)
    BY DEF Places
  <2>2. Common(C, a, x[1], b, x[2]) <=> RecAt(g, a, b, x[1], x[2])
    BY <1>1, <2>1, CommonAt
  <2>3. Common(C, a, x[1], b, x[2]) \in BOOLEAN
    BY DEF Common
  <2>4. RecAt(g, a, b, x[1], x[2]) \in BOOLEAN
    BY DEF RecAt
  <2> QED
    BY <1>2, <2>2, <2>3, <2>4
<1> HIDE DEF e
<1>5. g = [x \in Places(a, b) |-> e(x)]
  BY <1>3, <1>4
<1>6. Recursion(g, a, b)
  BY <1>5 DEF Recursion, e
<1> QED
  BY <1>6

\* Two levels intersect exactly when some text is of both (utils.ts 188-229), whatever the
\* characters and however long the levels.
THEOREM LevelsIntersectRight ==
  ASSUME NEW C, Star \notin C, NEW a \in Seq(C \cup {Star}), NEW b \in Seq(C \cup {Star})
  PROVE  levelsIntersect(a, b) <=>
           \E t \in Seq(C) : Reads(a, Stars(a), C, t) /\ Reads(b, Stars(b), C, t)
<1> DEFINE f == CHOOSE f : Recursion(f, a, b)
<1>1. \E h : Recursion(h, a, b)
  BY RecursionSome
<1>2. Recursion(f, a, b)
  BY <1>1, Zenon
<1>3. levelsIntersect(a, b) = f[<<1, 1>>]
  BY RecursionChosen
<1> HIDE DEF f
<1>4. f[<<1, 1>>] <=> Common(C, a, 1, b, 1)
  BY <1>2, RecursionIsCommon
<1>5. \A t \in Seq(C) : /\ Reads(a, Stars(a), C, t) <=> Fits(a, Stars(a), 1, t)
                        /\ Reads(b, Stars(b), C, t) <=> Fits(b, Stars(b), 1, t)
  BY ReadsFits
<1> QED
  BY <1>3, <1>4, <1>5 DEF Common

-----------------------------------------------------------------------------
(* Stored levels, whose stars are wildcards at the end only.               *)

\* A text stands under another name where stars have become Nul.
Renamed(t, w) ==
  /\ Len(w) = Len(t)
  /\ \A k \in 1..Len(t) : w[k] = IF t[k] = Nul THEN Star ELSE t[k]

\* Two patterns ask for the same of a text and of the renamed one.
LEMMA FitsRenamed ==
  ASSUME NEW C, Star \notin C, Nul \notin C, NEW X, NEW Y, NEW p \in Seq(X), NEW q \in Seq(Y),
         NEW wild, Len(p) = Len(q),
         \A k \in 1..Len(p) : k \notin wild =>
           \/ p[k] \in C /\ q[k] = p[k]
           \/ p[k] = Nul /\ q[k] = Star,
         NEW E, E = C \cup {Nul}, NEW D, D = C \cup {Star},
         NEW t \in Seq(E), NEW w \in Seq(D), Renamed(t, w)
  PROVE  Fits(p, wild, 1, t) <=> Fits(q, wild, 1, w)
<1>1. Len(p) \in Nat /\ Len(t) \in Nat /\ Len(w) = Len(t)
  BY DEF Renamed
<1>2. \A k \in 1..Len(t) : t[k] \in C \cup {Nul} /\ w[k] = IF t[k] = Nul THEN Star ELSE t[k]
  BY DEF Renamed
<1>3. Star # Nul
  BY DEF Star, Nul
<1>4. ASSUME NEW cut, cut \in [1..(Len(p) + 1) -> 0..Len(t)], NEW k \in 1..Len(p)
      PROVE  Piece(p, wild, t, k, cut[k], cut[k + 1]) <=> Piece(q, wild, w, k, cut[k], cut[k + 1])
  <2>1. cut[k] \in 0..Len(t) /\ cut[k + 1] \in 0..Len(t)
    BY <1>1, <1>4
  <2>2. CASE k \in wild
    BY <2>2 DEF Piece
  <2>3. CASE k \notin wild /\ cut[k + 1] = cut[k] + 1
    <3>1. cut[k + 1] \in 1..Len(t)
      BY <1>1, <2>1, <2>3
    <3>2. t[cut[k + 1]] = p[k] <=> w[cut[k + 1]] = q[k]
      BY <1>2, <1>3, <2>3, <3>1
    <3> QED
      BY <2>3, <3>2 DEF Piece
  <2>4. CASE k \notin wild /\ cut[k + 1] # cut[k] + 1
    BY <2>4 DEF Piece
  <2> QED
    BY <2>2, <2>3, <2>4
<1>5. ASSUME NEW cut
      PROVE  Cuts(p, wild, 1, t, cut) <=> Cuts(q, wild, 1, w, cut)
  BY <1>1, <1>4 DEF Cuts
<1> QED
  BY <1>5 DEF Fits

LEMMA NormalTypes ==
  ASSUME NEW C, Star \notin C, Nul \notin C, NEW s \in Seq(C \cup {Star})
  PROVE  LET z == normalizeStoredLevel(s) IN
         /\ z \in Seq(C \cup {Nul} \cup {Star}) /\ Len(z) = Len(s)
         /\ \A k \in 1..Len(s) : z[k] = IF s[k] = Star /\ k # Len(s) THEN Nul ELSE s[k]
         /\ Stars(z) = LastStar(s)
<1> DEFINE z == normalizeStoredLevel(s)
           n == Len(s)
<1>1. n \in Nat /\ DOMAIN s = 1..n /\ \A k \in 1..n : s[k] \in C \cup {Star}
  OBVIOUS
<1>2. z = [k \in 1..n |-> IF s[k] = Star /\ k # n THEN Nul ELSE s[k]]
  BY <1>1 DEF normalizeStoredLevel
<1>3. \A k \in 1..n : z[k] = IF s[k] = Star /\ k # n THEN Nul ELSE s[k]
  BY <1>2
<1>4. z \in [1..n -> C \cup {Nul} \cup {Star}]
  BY <1>1, <1>2
<1>5. z \in Seq(C \cup {Nul} \cup {Star}) /\ Len(z) = n /\ DOMAIN z = 1..n
  BY <1>1, <1>4
<1>6. Star # Nul
  BY DEF Star, Nul
<1>7. \A k \in 1..n : z[k] = Star <=> s[k] = Star /\ k = n
  BY <1>3, <1>6
<1>8. Stars(z) = LastStar(s)
  <2>1. Stars(z) = {k \in 1..n : z[k] = Star}
    BY <1>5 DEF Stars
  <2>2. LastStar(s) = {k \in 1..n : s[k] = Star} \cap {n}
    BY <1>1 DEF LastStar, Stars
  <2> QED
    BY <1>7, <2>1, <2>2
<1> HIDE DEF z
<1> QED
  BY <1>3, <1>5, <1>8 DEF z

\* What a filter's level and a stored one have in common.
LEMMA StoredLevels ==
  ASSUME NEW C, Star \notin C, Nul \notin C, NEW l \in Seq(C \cup {Star}), NEW s \in Seq(C \cup {Star})
  PROVE  levelsIntersect(l, normalizeStoredLevel(s)) <=>
           \E w \in Seq(C \cup {Star}) :
             /\ Reads(l, Stars(l), C \cup {Star}, w)
             /\ Reads(s, LastStar(s), C \cup {Star}, w)
<1> DEFINE E == C \cup {Nul}
           D == C \cup {Star}
           z == normalizeStoredLevel(s)
<1>1. Star \notin E /\ Star # Nul
  BY DEF Star, Nul
<1>2. l \in Seq(E \cup {Star})
  OBVIOUS
<1>3. /\ z \in Seq(E \cup {Star}) /\ Len(z) = Len(s)
      /\ \A k \in 1..Len(s) : z[k] = IF s[k] = Star /\ k # Len(s) THEN Nul ELSE s[k]
      /\ Stars(z) = LastStar(s)
  BY NormalTypes
<1> HIDE DEF z
<1>4. levelsIntersect(l, z) <=>
        \E t \in Seq(E) : Reads(l, Stars(l), E, t) /\ Reads(z, Stars(z), E, t)
  BY <1>1, <1>2, <1>3, LevelsIntersectRight
<1>5. ASSUME NEW t \in Seq(E), NEW w \in Seq(D), Renamed(t, w)
      PROVE  /\ Reads(l, Stars(l), E, t) <=> Reads(l, Stars(l), D, w)
             /\ Reads(z, Stars(z), E, t) <=> Reads(s, LastStar(s), D, w)
  <2>1. \A k \in 1..Len(l) : k \notin Stars(l) => l[k] \in C
    BY CharOf
  <2>2. Fits(l, Stars(l), 1, t) <=> Fits(l, Stars(l), 1, w)
    BY <1>5, <2>1, FitsRenamed
  <2>3. ASSUME NEW k \in 1..Len(z), k \notin Stars(z)
        PROVE  \/ z[k] \in C /\ s[k] = z[k]
               \/ z[k] = Nul /\ s[k] = Star
    <3>1. k \in 1..Len(s) /\ s[k] \in C \cup {Star} /\ (s[k] = Star => k # Len(s))
      BY <1>3, <2>3 DEF LastStar, Stars
    <3> QED
      BY <1>3, <3>1
  <2>4. Fits(z, Stars(z), 1, t) <=> Fits(s, Stars(z), 1, w)
    <3> DEFINE wild == Stars(z)
    <3>1. \A k \in 1..Len(z) : k \notin wild =>
            \/ z[k] \in C /\ s[k] = z[k]
            \/ z[k] = Nul /\ s[k] = Star
      BY <2>3
    <3>2. z \in Seq(E \cup {Star}) /\ s \in Seq(D) /\ Len(z) = Len(s)
      BY <1>3
    <3>4. E = C \cup {Nul} /\ D = C \cup {Star}
      OBVIOUS
    <3> DEFINE X == E \cup {Star}
    <3>5. z \in Seq(X) /\ s \in Seq(D) /\ t \in Seq(E) /\ w \in Seq(D)
      BY <3>2
    <3> HIDE DEF wild, X, E, D
    <3>3. Fits(z, wild, 1, t) <=> Fits(s, wild, 1, w)
      BY <1>5, <3>1, <3>2, <3>4, <3>5, FitsRenamed
    <3> QED
      BY <3>3 DEF wild
  <2>5. /\ Reads(l, Stars(l), E, t) <=> Fits(l, Stars(l), 1, t)
        /\ Reads(z, Stars(z), E, t) <=> Fits(z, Stars(z), 1, t)
    BY <1>3, ReadsFits
  <2>6. /\ Reads(l, Stars(l), D, w) <=> Fits(l, Stars(l), 1, w)
        /\ Reads(s, LastStar(s), D, w) <=> Fits(s, LastStar(s), 1, w)
    BY ReadsFits
  <2> QED
    BY <1>3, <2>2, <2>4, <2>5, <2>6
<1>6. ASSUME NEW t \in Seq(E)
      PROVE  \E w \in Seq(D) : Renamed(t, w)
  <2> DEFINE w == [k \in 1..Len(t) |-> IF t[k] = Nul THEN Star ELSE t[k]]
  <2>1. Len(t) \in Nat /\ \A k \in 1..Len(t) : t[k] \in C \cup {Nul}
    OBVIOUS
  <2>2. w \in [1..Len(t) -> D]
    BY <2>1
  <2>3. w \in Seq(D) /\ Len(w) = Len(t)
    BY <2>1, <2>2
  <2>4. \A k \in 1..Len(t) : w[k] = IF t[k] = Nul THEN Star ELSE t[k]
    OBVIOUS
  <2> HIDE DEF w
  <2> QED
    BY <2>3, <2>4 DEF Renamed
<1>7. ASSUME NEW w \in Seq(D)
      PROVE  \E t \in Seq(E) : Renamed(t, w)
  <2> DEFINE t == [k \in 1..Len(w) |-> IF w[k] = Star THEN Nul ELSE w[k]]
  <2>1. Len(w) \in Nat /\ \A k \in 1..Len(w) : w[k] \in C \cup {Star}
    OBVIOUS
  <2>2. t \in [1..Len(w) -> E]
    BY <2>1
  <2>3. t \in Seq(E) /\ Len(t) = Len(w)
    BY <2>1, <2>2
  <2>4. \A k \in 1..Len(w) : t[k] = IF w[k] = Star THEN Nul ELSE w[k]
    OBVIOUS
  <2> HIDE DEF t
  <2>5. \A k \in 1..Len(t) : w[k] = IF t[k] = Nul THEN Star ELSE t[k]
    BY <1>1, <2>1, <2>3, <2>4
  <2> QED
    BY <2>3, <2>5 DEF Renamed
<1> QED
  BY <1>4, <1>5, <1>6, <1>7 DEF z

-----------------------------------------------------------------------------
(* The walk over the levels of two topics.                                 *)

\* The walk ends at level m: at a ">", or where a topic ends.
EndsAt(a, b, m) ==
  IF m > Len(a) \/ m > Len(b) THEN Len(a) = Len(b) ELSE Rest \in {a[m], b[m]}

\* From level k on it comes to an end that agrees.
Agree(a, b, k) ==
  \E m \in Nat : /\ k <= m /\ m <= Len(a) + 1 /\ m <= Len(b) + 1 /\ EndsAt(a, b, m)
                 /\ \A i \in k..(m - 1) : levelsIntersect(a[i], b[i])

WalkAt(f, a, b, k) ==
  IF k > Len(a) \/ k > Len(b) THEN Len(a) = Len(b)
  ELSE \/ Rest \in {a[k], b[k]}
       \/ levelsIntersect(a[k], b[k]) /\ f[k + 1]

Walk(f, a, b, n) == f = [k \in 1..(n + 1) |-> WalkAt(f, a, b, k)]

LEMMA WalkChosen ==
  ASSUME NEW a, NEW b
  PROVE  matchTopicLevels(a, b) = (CHOOSE f : Walk(f, a, b, Max({Len(a), Len(b)})))[1]
  BY DEF matchTopicLevels, Walk, WalkAt

LEMMA Longest ==
  ASSUME NEW m \in Nat, NEW n \in Nat
  PROVE  Max({m, n}) = IF m < n THEN n ELSE m
<1>1. PICK x \in {m, n} : \A y \in {m, n} : x >= y
  OBVIOUS
<1>2. Max({m, n}) \in {m, n} /\ \A y \in {m, n} : Max({m, n}) >= y
  BY <1>1 DEF Max
<1> QED
  BY <1>2

LEMMA AgreeAt ==
  ASSUME NEW X, NEW Y, NEW a \in Seq(X), NEW b \in Seq(Y), NEW n \in Nat,
         n = IF Len(a) < Len(b) THEN Len(b) ELSE Len(a),
         NEW k \in 1..(n + 1), NEW f, k <= n => f[k + 1] = Agree(a, b, k + 1)
  PROVE  Agree(a, b, k) <=> WalkAt(f, a, b, k)
<1>1. Len(a) \in Nat /\ Len(b) \in Nat /\ k \in Nat
  OBVIOUS
<1>2. CASE k > Len(a) \/ k > Len(b)
  <2>1. WalkAt(f, a, b, k) <=> Len(a) = Len(b)
    BY <1>2 DEF WalkAt
  <2>2. ASSUME Agree(a, b, k)
        PROVE  Len(a) = Len(b)
    <3>1. PICK m \in Nat : k <= m /\ m <= Len(a) + 1 /\ m <= Len(b) + 1 /\ EndsAt(a, b, m)
      BY <2>2 DEF Agree
    <3>2. m > Len(a) \/ m > Len(b)
      BY <1>1, <1>2, <3>1
    <3> QED
      BY <3>1, <3>2 DEF EndsAt
  <2>3. ASSUME Len(a) = Len(b)
        PROVE  Agree(a, b, k)
    <3>1. k = Len(a) + 1 /\ k = Len(b) + 1
      BY <1>1, <1>2, <2>3
    <3>2. EndsAt(a, b, k)
      BY <1>2, <2>3 DEF EndsAt
    <3>3. \A i \in k..(k - 1) : levelsIntersect(a[i], b[i])
      BY <1>1
    <3> QED
      BY <1>1, <3>1, <3>2, <3>3 DEF Agree
  <2> QED
    BY <2>1, <2>2, <2>3
<1>3. CASE k <= Len(a) /\ k <= Len(b)
  <2>1. ~(k > Len(a) \/ k > Len(b)) /\ k <= n
    BY <1>1, <1>3
  <2>2. WalkAt(f, a, b, k) <=> \/ Rest \in {a[k], b[k]}
                               \/ levelsIntersect(a[k], b[k]) /\ Agree(a, b, k + 1)
    BY <2>1 DEF WalkAt
  <2>3. ASSUME Rest \in {a[k], b[k]}
        PROVE  Agree(a, b, k)
    <3>1. EndsAt(a, b, k)
      BY <2>1, <2>3 DEF EndsAt
    <3>2. \A i \in k..(k - 1) : levelsIntersect(a[i], b[i])
      BY <1>1
    <3>3. k <= k /\ k <= Len(a) + 1 /\ k <= Len(b) + 1
      BY <1>1, <1>3
    <3> QED
      BY <1>1, <3>1, <3>2, <3>3 DEF Agree
  <2>4. ASSUME levelsIntersect(a[k], b[k]), Agree(a, b, k + 1)
        PROVE  Agree(a, b, k)
    <3>1. PICK m \in Nat : /\ k + 1 <= m /\ m <= Len(a) + 1 /\ m <= Len(b) + 1 /\ EndsAt(a, b, m)
                           /\ \A i \in (k + 1)..(m - 1) : levelsIntersect(a[i], b[i])
      BY <2>4 DEF Agree
    <3>2. ASSUME NEW i \in k..(m - 1)
          PROVE  levelsIntersect(a[i], b[i])
      <4>1. i = k \/ i \in (k + 1)..(m - 1)
        BY <1>1
      <4> QED
        BY <2>4, <3>1, <4>1
    <3>3. k <= m
      BY <1>1, <3>1
    <3> QED
      BY <3>1, <3>2, <3>3 DEF Agree
  <2>5. ASSUME Agree(a, b, k)
        PROVE  Rest \in {a[k], b[k]} \/ (levelsIntersect(a[k], b[k]) /\ Agree(a, b, k + 1))
    <3>1. PICK m \in Nat : /\ k <= m /\ m <= Len(a) + 1 /\ m <= Len(b) + 1 /\ EndsAt(a, b, m)
                           /\ \A i \in k..(m - 1) : levelsIntersect(a[i], b[i])
      BY <2>5 DEF Agree
    <3>2. CASE m = k
      BY <2>1, <3>1, <3>2 DEF EndsAt
    <3>3. CASE k + 1 <= m
      <4>1. k \in k..(m - 1) /\ \A i \in (k + 1)..(m - 1) : i \in k..(m - 1)
        BY <1>1, <3>3
      <4>2. levelsIntersect(a[k], b[k])
        BY <3>1, <4>1
      <4>3. \A i \in (k + 1)..(m - 1) : levelsIntersect(a[i], b[i])
        BY <3>1, <4>1
      <4>4. Agree(a, b, k + 1)
        BY <3>1, <3>3, <4>3 DEF Agree
      <4> QED
        BY <4>2, <4>4
    <3> QED
      BY <1>1, <3>1, <3>2, <3>3
  <2> QED
    BY <2>2, <2>3, <2>4, <2>5
<1> QED
  BY <1>1, <1>2, <1>3

LEMMA WalkIsAgree ==
  ASSUME NEW X, NEW Y, NEW a \in Seq(X), NEW b \in Seq(Y)
  PROVE  matchTopicLevels(a, b) <=> Agree(a, b, 1)
<1> DEFINE n == Max({Len(a), Len(b)})
           f == CHOOSE f : Walk(f, a, b, n)
           g == [k \in 1..(n + 1) |-> Agree(a, b, k)]
<1>1. Len(a) \in Nat /\ Len(b) \in Nat
  OBVIOUS
<1>2. n \in Nat /\ n = IF Len(a) < Len(b) THEN Len(b) ELSE Len(a)
  BY <1>1, Longest
<1>3. matchTopicLevels(a, b) = f[1]
  BY WalkChosen
<1> HIDE DEF n
<1>4. \E h : Walk(h, a, b, n)
  <2> DEFINE e(k) == WalkAt(g, a, b, k)
  <2>1. \A k \in 1..(n + 1) : g[k] = Agree(a, b, k)
    OBVIOUS
  <2>2. g = [k \in 1..(n + 1) |-> g[k]]
    OBVIOUS
  <2> HIDE DEF g
  <2>3. ASSUME NEW k \in 1..(n + 1)
        PROVE  g[k] = e(k)
    <3>1. k <= n => k + 1 \in 1..(n + 1)
      BY <1>2
    <3>2. k <= n => g[k + 1] = Agree(a, b, k + 1)
      BY <2>1, <3>1
    <3>3. Agree(a, b, k) <=> WalkAt(g, a, b, k)
      BY <1>2, <3>2, AgreeAt
    <3>4. Agree(a, b, k) \in BOOLEAN /\ WalkAt(g, a, b, k) \in BOOLEAN
      BY DEF Agree, WalkAt
    <3> QED
      BY <2>1, <3>3, <3>4
  <2> HIDE DEF e
  <2>4. g = [k \in 1..(n + 1) |-> e(k)]
    BY <2>2, <2>3
  <2>5. Walk(g, a, b, n)
    BY <2>4 DEF Walk, e
  <2> QED
    BY <2>5
<1>5. Walk(f, a, b, n)
  BY <1>4, Zenon
<1> HIDE DEF f, g
<1>6. ASSUME NEW k \in 1..(n + 1)
      PROVE  f[k] = WalkAt(f, a, b, k)
  <2> DEFINE e(i) == WalkAt(f, a, b, i)
  <2>1. f = [i \in 1..(n + 1) |-> e(i)]
    BY <1>5 DEF Walk
  <2> HIDE DEF e
  <2>2. f[k] = e(k)
    BY <2>1
  <2> QED
    BY <2>2 DEF e
<1>7. ASSUME NEW k \in 1..(n + 1), k <= n => f[k + 1] = Agree(a, b, k + 1)
      PROVE  f[k] = Agree(a, b, k)
  <2>1. Agree(a, b, k) <=> WalkAt(f, a, b, k)
    BY <1>2, <1>7, AgreeAt
  <2>2. Agree(a, b, k) \in BOOLEAN /\ WalkAt(f, a, b, k) \in BOOLEAN
    BY DEF Agree, WalkAt
  <2>3. f[k] = WalkAt(f, a, b, k)
    BY <1>6
  <2> QED
    BY <2>1, <2>2, <2>3
<1> DEFINE T == {x \in Nat : \A k \in 1..(n + 1) : n + 1 - k <= x => f[k] = Agree(a, b, k)}
<1>8. 0 \in T
  <2>1. ASSUME NEW k \in 1..(n + 1), n + 1 - k <= 0
        PROVE  f[k] = Agree(a, b, k)
    <3>1. ~(k <= n)
      BY <1>2, <2>1
    <3> HIDE DEF T
    <3> QED
      BY <1>7, <3>1
  <2> QED
    BY <2>1
<1>9. ASSUME NEW x \in Nat, x \in T
      PROVE  x + 1 \in T
  <2>1. ASSUME NEW k \in 1..(n + 1), n + 1 - k <= x + 1
        PROVE  f[k] = Agree(a, b, k)
    <3>1. ASSUME k <= n
          PROVE  f[k + 1] = Agree(a, b, k + 1)
      <4>2. n \in Nat /\ k \in Nat
        BY <1>2
      <4>1. k + 1 \in 1..(n + 1) /\ n + 1 - (k + 1) <= x
        BY <2>1, <3>1, <4>2
      <4> QED
        BY <1>9, <4>1
    <3> HIDE DEF T
    <3> QED
      BY <1>7, <3>1
  <2> QED
    BY <2>1
<1>10. \A x \in Nat : x \in T => x + 1 \in T
  BY <1>9
<1> HIDE DEF T
<1>11. \A x \in Nat : x \in T
  BY <1>8, <1>10, NatsInduction
<1>12. n \in T /\ 1 \in 1..(n + 1) /\ n + 1 - 1 <= n
  BY <1>2, <1>11
<1>13. f[1] = Agree(a, b, 1)
  BY <1>12 DEF T
<1> QED
  BY <1>3, <1>13

-----------------------------------------------------------------------------
(* The names that a topic stands for.                                      *)

\* r is the first ">" of t, or behind its last level.
FirstRest(t, r) ==
  /\ r \in 1..(Len(t) + 1)
  /\ \A k \in 1..(r - 1) : t[k] # Rest
  /\ r <= Len(t) => t[r] = Rest

LEMMA SomeRest ==
  ASSUME NEW X, NEW t \in Seq(X)
  PROVE  \E r : FirstRest(t, r)
<1>1. Len(t) \in Nat
  OBVIOUS
<1> DEFINE Ends == {k \in Nat : /\ k \in 1..(Len(t) + 1)
                                /\ k <= Len(t) => t[k] = Rest}
<1>2. PICK r \in Ends : \A k \in Ends : ~(<<k, r>> \in OpToRel(<, Nat))
  <2>1. Len(t) + 1 \in Ends
    BY <1>1
  <2>2. Ends \subseteq Nat /\ Ends # {}
    BY <2>1
  <2> HIDE DEF Ends
  <2> QED
    BY <2>2, NatLessThanWellFounded, WFMin
<1>3. ASSUME NEW k \in 1..(r - 1), t[k] = Rest
      PROVE  FALSE
  <2>1. r \in Nat /\ k \in Nat /\ k < r /\ k \in Ends
    BY <1>1, <1>3
  <2>2. <<k, r>> \in OpToRel(<, Nat)
    BY <2>1 DEF OpToRel
  <2> QED
    BY <1>2, <2>1, <2>2
<1> QED
  BY <1>3 DEF FirstRest

\* The levels of n before r are of those of t, and it has as many as t asks for.
Named(t, F, r, n) ==
  /\ \A k \in 1..(r - 1) : n[k] \in F[t[k]]
  /\ IF r <= Len(t) THEN Len(n) >= r ELSE Len(n) = Len(t)

\* What a name must be, given the first ">".
LEMMA StandsIs ==
  ASSUME NEW X, NEW t \in Seq(X), t # <<>>, NEW r, FirstRest(t, r), NEW W, NEW F
  PROVE  Stands(t, Seq(W), F) = {n \in Seq(W) : Named(t, F, r, n)}
<1> DEFINE S == {k \in DOMAIN t : t[k] = Rest}
<1>1. Len(t) \in Nat /\ Len(t) # 0 /\ DOMAIN t = 1..Len(t) /\ r \in 1..(Len(t) + 1)
  BY DEF FirstRest
<1>2. CASE r <= Len(t)
  <2>1. r \in S /\ \A k \in S : r <= k
    BY <1>1, <1>2 DEF FirstRest
  <2>2. Min(S) = r
    <3>1. S \subseteq Nat
      BY <1>1
    <3> HIDE DEF S
    <3>2. Min(S) \in S /\ \A k \in S : Min(S) <= k
      BY <2>1 DEF Min
    <3>3. Min(S) <= r /\ r <= Min(S)
      BY <2>1, <3>2
    <3>4. Min(S) \in Nat /\ r \in Nat
      BY <2>1, <3>1, <3>2
    <3> QED
      BY <3>3, <3>4
  <2>3. Ended(t) = SubSeq(t, 1, r)
    BY <2>1, <2>2 DEF Ended
  <2>4. Len(SubSeq(t, 1, r)) = r /\ \A k \in 1..r : SubSeq(t, 1, r)[k] = t[k]
    BY <1>1, <1>2
  <2>5. t[r] = Rest
    BY <1>2 DEF FirstRest
  <2> DEFINE e == SubSeq(t, 1, r)
  <2>6. Len(e) = r /\ e[r] = Rest /\ \A k \in 1..(r - 1) : e[k] = t[k]
    BY <1>1, <2>4, <2>5
  <2> HIDE DEF e
  <2>7. Stands(t, Seq(W), F) = {n \in Seq(W) : Len(n) >= r /\ \A k \in 1..(r - 1) : n[k] \in F[e[k]]}
    BY <2>3, <2>6 DEF Stands, e
  <2>8. \A n \in Seq(W) : (\A k \in 1..(r - 1) : n[k] \in F[e[k]]) <=> (\A k \in 1..(r - 1) : n[k] \in F[t[k]])
    BY <2>6
  <2> QED
    BY <1>2, <2>7, <2>8 DEF Named
<1>3. CASE r > Len(t)
  <2>1. r - 1 = Len(t)
    BY <1>1, <1>3
  <2>2. S = {} /\ t[Len(t)] # Rest
    BY <1>1, <2>1 DEF FirstRest
  <2>3. Ended(t) = t
    BY <2>2 DEF Ended
  <2>4. Stands(t, Seq(W), F) = {n \in Seq(W) : Len(n) = Len(t) /\ \A k \in 1..Len(t) : n[k] \in F[t[k]]}
    BY <1>1, <2>2, <2>3 DEF Stands
  <2> QED
    BY <1>1, <1>3, <2>1, <2>4 DEF Named
<1> QED
  BY <1>1, <1>2, <1>3

\* Before level m the topics have words in common.
Shared(f, s, W, F, G, m) == \A i \in 1..(m - 1) : \E w \in W : w \in F[f[i]] /\ w \in G[s[i]]

\* Every level has a word.
Wordy(X, W, F) == \A x \in X : \E w \in W : w \in F[x]

\* A name with common words up to level m, and from there on words of one of the topics.
LEMMA NameBuilt ==
  ASSUME NEW X, NEW f \in Seq(X), NEW s \in Seq(X), NEW W, NEW F, NEW G, Wordy(X, W, G),
         NEW r, FirstRest(f, r), NEW q, FirstRest(s, q), NEW m \in Nat, r <= m, m <= Len(s), r <= Len(f),
         Shared(f, s, W, F, G, m)
  PROVE  \E n \in Seq(W) : Named(f, F, r, n) /\ Named(s, G, q, n)
<1>1. /\ Len(f) \in Nat /\ Len(s) \in Nat /\ r \in 1..Len(f) /\ q \in 1..(Len(s) + 1)
      /\ \A i \in 1..Len(s) : s[i] \in X
  BY DEF FirstRest
<1> DEFINE l == IF q > Len(s) THEN Len(s) ELSE IF q < r THEN r ELSE q
           Fit(i, w) == w \in G[s[i]] /\ (i < m => w \in F[f[i]])
           n == [i \in 1..l |-> CHOOSE w \in W : Fit(i, w)]
<1>2. l \in Nat /\ l >= r /\ l <= Len(s) /\ IF q <= Len(s) THEN l >= q ELSE l = Len(s)
  BY <1>1
<1>3. ASSUME NEW i \in 1..l
      PROVE  \E w \in W : Fit(i, w)
  <2>1. i \in 1..Len(s) /\ (i < m => i \in 1..(m - 1))
    BY <1>2
  <2>2. CASE i < m
    BY <2>1, <2>2 DEF Shared
  <2>3. CASE ~(i < m)
    BY <1>1, <2>1, <2>3 DEF Wordy
  <2> QED
    BY <2>2, <2>3
<1> HIDE DEF l, Fit
<1>4. ASSUME NEW i \in 1..l
      PROVE  n[i] \in W /\ Fit(i, n[i])
  <2>1. n[i] = CHOOSE w \in W : Fit(i, w)
    OBVIOUS
  <2> HIDE DEF n
  <2> QED
    BY <1>3, <2>1
<1>5. n = [i \in 1..l |-> n[i]]
  OBVIOUS
<1> HIDE DEF n
<1>6. n \in [1..l -> W]
  BY <1>4, <1>5
<1>7. n \in Seq(W) /\ Len(n) = l
  BY <1>2, <1>6
<1>8. \A k \in 1..(r - 1) : n[k] \in F[f[k]]
  <2>1. ASSUME NEW k \in 1..(r - 1)
        PROVE  n[k] \in F[f[k]]
    <3>1. k \in 1..l /\ k < m
      BY <1>1, <1>2
    <3> QED
      BY <1>4, <3>1 DEF Fit
  <2> QED
    BY <2>1
<1>9. \A k \in 1..(q - 1) : n[k] \in G[s[k]]
  <2>1. ASSUME NEW k \in 1..(q - 1)
        PROVE  n[k] \in G[s[k]]
    <3>1. k \in 1..l
      BY <1>1, <1>2
    <3> QED
      BY <1>4, <3>1 DEF Fit
  <2> QED
    BY <2>1
<1> QED
  BY <1>1, <1>2, <1>7, <1>8, <1>9 DEF Named

\* Level by level two topics have words in common up to a ">" or to the end of both.
LevelsMeet(f, s, W, F, G, m) ==
  /\ m \in Nat /\ 1 <= m /\ m <= Len(f) + 1 /\ m <= Len(s) + 1
  /\ IF m > Len(f) \/ m > Len(s) THEN Len(f) = Len(s) ELSE f[m] = Rest \/ s[m] = Rest
  /\ Shared(f, s, W, F, G, m)

LEMMA NamesMeet ==
  ASSUME NEW X, NEW f \in Seq(X), NEW s \in Seq(X), f # <<>>, s # <<>>, NEW W, NEW F, NEW G,
         Wordy(X, W, F), Wordy(X, W, G)
  PROVE  (\E m : LevelsMeet(f, s, W, F, G, m)) <=>
           Stands(f, Seq(W), F) \cap Stands(s, Seq(W), G) # {}
<1>1. PICK r : FirstRest(f, r)
  BY SomeRest
<1>2. PICK q : FirstRest(s, q)
  BY SomeRest
<1>3. Len(f) \in Nat /\ Len(s) \in Nat /\ r \in 1..(Len(f) + 1) /\ q \in 1..(Len(s) + 1)
  BY <1>1, <1>2 DEF FirstRest
<1> DEFINE Name(n) == Named(f, F, r, n) /\ Named(s, G, q, n)
<1>4. Stands(f, Seq(W), F) \cap Stands(s, Seq(W), G) # {} <=> \E n \in Seq(W) : Name(n)
  <2>1. Stands(f, Seq(W), F) = {n \in Seq(W) : Named(f, F, r, n)}
    BY <1>1, StandsIs
  <2>2. Stands(s, Seq(W), G) = {n \in Seq(W) : Named(s, G, q, n)}
    BY <1>2, StandsIs
  <2> QED
    BY <2>1, <2>2
<1>5. ASSUME NEW n \in Seq(W), Name(n)
      PROVE  \E m : LevelsMeet(f, s, W, F, G, m)
  <2> DEFINE m == IF r < q THEN r ELSE q
  <2>1. m \in Nat /\ 1 <= m /\ m <= r /\ m <= q /\ (m = r \/ m = q)
    BY <1>3
  <2>2. m <= Len(f) + 1 /\ m <= Len(s) + 1
    BY <1>3, <2>1
  <2>3. \A i \in 1..(m - 1) : \E w \in W : w \in F[f[i]] /\ w \in G[s[i]]
    <3>1. ASSUME NEW i \in 1..(m - 1)
          PROVE  \E w \in W : w \in F[f[i]] /\ w \in G[s[i]]
      <4>1. i \in 1..(r - 1) /\ i \in 1..(q - 1)
        BY <1>3, <2>1
      <4>2. i \in 1..Len(n)
        BY <1>3, <1>5, <4>1 DEF Named
      <4>3. n[i] \in W
        BY <4>2
      <4> QED
        BY <1>5, <4>1, <4>3 DEF Named
    <3> QED
      BY <3>1
  <2>4. CASE m > Len(f) \/ m > Len(s)
    <3>1. Len(n) \in Nat
      OBVIOUS
    <3>2. Len(f) = Len(s)
      BY <1>3, <1>5, <2>1, <2>4, <3>1 DEF Named
    <3> HIDE DEF m
    <3> QED
      BY <2>1, <2>2, <2>3, <2>4, <3>2 DEF LevelsMeet, Shared
  <2>5. CASE ~(m > Len(f) \/ m > Len(s))
    <3>1. f[m] = Rest \/ s[m] = Rest
      BY <1>1, <1>2, <1>3, <2>1, <2>2, <2>5 DEF FirstRest
    <3> HIDE DEF m
    <3> QED
      BY <2>1, <2>2, <2>3, <2>5, <3>1 DEF LevelsMeet, Shared
  <2> QED
    BY <2>4, <2>5
<1>6. ASSUME NEW m, LevelsMeet(f, s, W, F, G, m)
      PROVE  \E n \in Seq(W) : Name(n)
  <2>1. /\ m \in Nat /\ 1 <= m /\ m <= Len(f) + 1 /\ m <= Len(s) + 1
        /\ Shared(f, s, W, F, G, m)
    BY <1>6 DEF LevelsMeet
  <2>2. CASE m > Len(f) \/ m > Len(s)
    <3>1. Len(f) = Len(s) /\ m = Len(f) + 1
      BY <1>3, <1>6, <2>1, <2>2 DEF LevelsMeet
    <3> DEFINE Fit(i, w) == w \in F[f[i]] /\ w \in G[s[i]]
               n == [i \in 1..Len(f) |-> CHOOSE w \in W : Fit(i, w)]
    <3>2. \A i \in 1..Len(f) : \E w \in W : Fit(i, w)
      BY <1>3, <2>1, <3>1 DEF Shared
    <3> HIDE DEF Fit
    <3>3. ASSUME NEW i \in 1..Len(f)
          PROVE  n[i] \in W /\ Fit(i, n[i])
      <4>1. n[i] = CHOOSE w \in W : Fit(i, w)
        OBVIOUS
      <4> HIDE DEF n
      <4> QED
        BY <3>2, <4>1
    <3>4. n = [i \in 1..Len(f) |-> n[i]]
      OBVIOUS
    <3> HIDE DEF n
    <3>5. n \in [1..Len(f) -> W]
      BY <3>3, <3>4
    <3>6. n \in Seq(W) /\ Len(n) = Len(f)
      BY <1>3, <3>5
    <3>7. \A k \in 1..Len(f) : n[k] \in F[f[k]] /\ n[k] \in G[s[k]]
      BY <3>3 DEF Fit
    <3>8. (\A k \in 1..(r - 1) : k \in 1..Len(f)) /\ (\A k \in 1..(q - 1) : k \in 1..Len(f))
      BY <1>3, <3>1
    <3>9. Name(n)
      BY <1>3, <3>1, <3>6, <3>7, <3>8 DEF Named
    <3> HIDE DEF Name
    <3> QED
      BY <3>6, <3>9
  <2>3. CASE m <= Len(f) /\ m <= Len(s) /\ f[m] = Rest
    <3>1. r <= m
      BY <1>1, <1>3, <2>1, <2>3 DEF FirstRest
    <3>2. r <= Len(f)
      BY <1>3, <2>1, <2>3, <3>1
    <3> QED
      BY <1>1, <1>2, <2>1, <2>3, <3>1, <3>2, NameBuilt
  <2>4. CASE m <= Len(f) /\ m <= Len(s) /\ s[m] = Rest
    <3>1. q <= m
      BY <1>2, <1>3, <2>1, <2>4 DEF FirstRest
    <3>2. q <= Len(s)
      BY <1>3, <2>1, <2>4, <3>1
    <3>3. Shared(s, f, W, G, F, m)
      BY <2>1 DEF Shared
    <3>4. \E n \in Seq(W) : Named(s, G, q, n) /\ Named(f, F, r, n)
      BY <1>1, <1>2, <2>1, <2>4, <3>1, <3>2, <3>3, NameBuilt
    <3> QED
      BY <3>4
  <2>5. ~(m > Len(f) \/ m > Len(s)) => m <= Len(f) /\ m <= Len(s) /\ (f[m] = Rest \/ s[m] = Rest)
    BY <1>3, <1>6, <2>1 DEF LevelsMeet
  <2> HIDE DEF Name
  <2> QED
    BY <2>2, <2>3, <2>4, <2>5
<1> HIDE DEF Name
<1> QED
  BY <1>4, <1>5, <1>6

\* Every level reads some word: what it is written.
LEMMA SomeWord ==
  ASSUME NEW D, NEW l \in Seq(D), NEW wild
  PROVE  \E w \in Seq(D) : Reads(l, wild, D, w)
<1>1. Len(l) \in Nat
  OBVIOUS
<1> DEFINE cut == [k \in 1..(Len(l) + 1) |-> k - 1]
<1>2. cut \in [1..(Len(l) + 1) -> 0..Len(l)]
  BY <1>1
<1>3. \A k \in 1..(Len(l) + 1) : cut[k] = k - 1
  OBVIOUS
<1> HIDE DEF cut
<1>4. ASSUME NEW k \in 1..Len(l)
      PROVE  Piece(l, wild, l, k, cut[k], cut[k + 1])
  <2>1. cut[k] = k - 1 /\ cut[k + 1] = k
    BY <1>1, <1>3
  <2> QED
    BY <2>1 DEF Piece
<1>5. cut[1] = 0 /\ cut[Len(l) + 1] = Len(l)
  BY <1>1, <1>3
<1>6. Cuts(l, wild, 1, l, cut)
  BY <1>2, <1>4, <1>5 DEF Cuts
<1>7. Fits(l, wild, 1, l)
  BY <1>6 DEF Fits
<1> QED
  BY <1>7, ReadsFits

LEMMA RestNormal ==
  ASSUME NEW C, Star \notin C, Nul \notin C, NEW s \in Seq(C \cup {Star})
  PROVE  normalizeStoredLevel(s) = Rest <=> s = Rest
<1> DEFINE z == normalizeStoredLevel(s)
<1>1. /\ z \in Seq(C \cup {Nul} \cup {Star}) /\ Len(z) = Len(s)
      /\ \A k \in 1..Len(s) : z[k] = IF s[k] = Star /\ k # Len(s) THEN Nul ELSE s[k]
  BY NormalTypes
<1> HIDE DEF z
<1>2. \A x : x \in Seq(C \cup {Nul} \cup {Star}) => (x = Rest <=> Len(x) = 1 /\ x[1] = ">")
  BY DEF Rest
<1>3. s \in Seq(C \cup {Nul} \cup {Star})
  OBVIOUS
<1>4. Len(s) = 1 => z[1] = s[1]
  BY <1>1
<1> QED
  BY <1>1, <1>2, <1>3, <1>4 DEF z

\* The words that a level of a filter, and of a stored topic, may be.
Words(C) == Seq(C \cup {Star})
ByUser(C) == [l \in Words(C) |-> {w \in Words(C) : Reads(l, Stars(l), C \cup {Star}, w)}]
ByBroker(C) == [l \in Words(C) |-> {w \in Words(C) : Reads(l, LastStar(l), C \cup {Star}, w)}]

\* A topic is listed exactly when some name is both of what the filter asks for and of what the
\* broker delivers for it (utils.ts 86-186), whatever the characters, levels and topics.
THEOREM TopicFilterRight ==
  ASSUME NEW C, Star \notin C, Nul \notin C,
         NEW f \in Seq(Words(C)), NEW s \in Seq(Words(C)), f # <<>>, s # <<>>
  PROVE  topicFilterMatches(f, s) <=>
           Stands(f, Seq(Words(C)), ByUser(C)) \cap Stands(s, Seq(Words(C)), ByBroker(C)) # {}
<1> DEFINE W == Words(C)
           Z == Seq(C \cup {Nul} \cup {Star})
           b == [k \in DOMAIN s |-> normalizeStoredLevel(s[k])]
<1>1. Len(f) \in Nat /\ Len(s) \in Nat /\ DOMAIN s = 1..Len(s)
  OBVIOUS
<1>2. (\A k \in 1..Len(s) : s[k] \in Seq(C \cup {Star})) /\ (\A k \in 1..Len(f) : f[k] \in Seq(C \cup {Star}))
  BY DEF Words
<1>3. \A k \in 1..Len(s) : b[k] = normalizeStoredLevel(s[k])
  BY <1>1
<1>4. \A k \in 1..Len(s) : normalizeStoredLevel(s[k]) \in Z
  BY <1>2, NormalTypes
<1>5. b \in [1..Len(s) -> Z]
  BY <1>1, <1>4
<1>6. b \in Seq(Z) /\ Len(b) = Len(s)
  BY <1>1, <1>5
<1>7. topicFilterMatches(f, s) = matchTopicLevels(f, b)
  BY DEF topicFilterMatches
<1> HIDE DEF b, Z
<1>8. matchTopicLevels(f, b) <=> Agree(f, b, 1)
  BY <1>6, WalkIsAgree
<1>9. ASSUME NEW i \in Nat, i \in 1..Len(f), i \in 1..Len(s)
      PROVE  /\ levelsIntersect(f[i], b[i]) <=> \E w \in W : w \in ByUser(C)[f[i]] /\ w \in ByBroker(C)[s[i]]
             /\ Rest \in {f[i], b[i]} <=> f[i] = Rest \/ s[i] = Rest
  <2>1. f[i] \in Seq(C \cup {Star}) /\ s[i] \in Seq(C \cup {Star}) /\ b[i] = normalizeStoredLevel(s[i])
    BY <1>2, <1>3, <1>9
  <2>2. levelsIntersect(f[i], b[i]) <=>
          \E w \in Seq(C \cup {Star}) :
            /\ Reads(f[i], Stars(f[i]), C \cup {Star}, w)
            /\ Reads(s[i], LastStar(s[i]), C \cup {Star}, w)
    BY <2>1, StoredLevels
  <2>3. /\ ByUser(C)[f[i]] = {w \in W : Reads(f[i], Stars(f[i]), C \cup {Star}, w)}
        /\ ByBroker(C)[s[i]] = {w \in W : Reads(s[i], LastStar(s[i]), C \cup {Star}, w)}
    BY <2>1 DEF ByUser, ByBroker, Words
  <2>4. b[i] = Rest <=> s[i] = Rest
    BY <2>1, RestNormal
  <2> QED
    BY <2>2, <2>3, <2>4 DEF Words
<1>10. ASSUME NEW m
       PROVE  LevelsMeet(f, s, W, ByUser(C), ByBroker(C), m) <=>
                /\ m \in Nat /\ 1 <= m /\ m <= Len(f) + 1 /\ m <= Len(b) + 1 /\ EndsAt(f, b, m)
                /\ \A i \in 1..(m - 1) : levelsIntersect(f[i], b[i])
  <2>1. CASE m \in Nat /\ 1 <= m /\ m <= Len(f) + 1 /\ m <= Len(s) + 1
    <3>1. \A i \in 1..(m - 1) : i \in Nat /\ i \in 1..Len(f) /\ i \in 1..Len(s)
      BY <1>1, <2>1
    <3>2. (\A i \in 1..(m - 1) : levelsIntersect(f[i], b[i])) <=>
            Shared(f, s, W, ByUser(C), ByBroker(C), m)
      BY <1>9, <3>1 DEF Shared
    <3>3. EndsAt(f, b, m) <=>
            IF m > Len(f) \/ m > Len(s) THEN Len(f) = Len(s) ELSE f[m] = Rest \/ s[m] = Rest
      <4>1. CASE m > Len(f) \/ m > Len(s)
        BY <1>6, <4>1 DEF EndsAt
      <4>2. CASE ~(m > Len(f) \/ m > Len(s))
        <5>1. m \in 1..Len(f) /\ m \in 1..Len(s)
          BY <1>1, <2>1, <4>2
        <5>2. Rest \in {f[m], b[m]} <=> f[m] = Rest \/ s[m] = Rest
          BY <1>9, <2>1, <5>1
        <5> QED
          BY <1>6, <4>2, <5>2 DEF EndsAt
      <4> QED
        BY <4>1, <4>2
    <3> QED
      BY <1>6, <2>1, <3>2, <3>3 DEF LevelsMeet
  <2>2. CASE ~(m \in Nat /\ 1 <= m /\ m <= Len(f) + 1 /\ m <= Len(s) + 1)
    BY <1>6, <2>2 DEF LevelsMeet
  <2> QED
    BY <2>1, <2>2
<1>11. Agree(f, b, 1) <=> \E m : LevelsMeet(f, s, W, ByUser(C), ByBroker(C), m)
  BY <1>10 DEF Agree
<1>12. Wordy(W, W, ByUser(C)) /\ Wordy(W, W, ByBroker(C))
  BY SomeWord DEF Wordy, ByUser, ByBroker, Words
<1>13. (\E m : LevelsMeet(f, s, W, ByUser(C), ByBroker(C), m)) <=>
         Stands(f, Seq(W), ByUser(C)) \cap Stands(s, Seq(W), ByBroker(C)) # {}
  <2> HIDE DEF W
  <2>1. f \in Seq(W) /\ s \in Seq(W)
    BY DEF W
  <2> QED
    BY <1>12, <2>1, NamesMeet
<1> QED
  BY <1>7, <1>8, <1>11, <1>13
=============================================================================
