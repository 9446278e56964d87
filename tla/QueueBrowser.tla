---------------------------- MODULE QueueBrowser ----------------------------
(***************************************************************************)
(* The Queue Browser page: the SDK browsers it holds (service.ts), their   *)
(* events (service-events.ts), the message store with its cap (state.js)   *)
(* and what the page shows of it: the dropdown of bound queues, the        *)
(* filter, the table with its check boxes, the details panel, deletions    *)
(* (ui-events.ts, ui-core.js, ui-table.ts, ui-details.ts).                 *)
(*                                                                         *)
(* A message is its queue and its id; the page finds messages and rows by  *)
(* id alone.  The page keeps references to arrays: allMessages is the      *)
(* store's array of the current queue (linked) or an array of its own      *)
(* (own), displayedMessages is allMessages itself (same) or a filtered     *)
(* copy (copy).                                                            *)
(*                                                                         *)
(* Every SDK browser is told apart, because the page knows them by queue   *)
(* name only.  late counts the events that browsers raised after           *)
(* disconnect() was called on them.  broken remembers that a handler ran   *)
(* into an allMessages that is undefined; the model stops there.           *)
(*                                                                         *)
(* Bound: MaxBrowsers browsers are ever created, a late event counting for *)
(* one.                                                                    *)
(***************************************************************************)
EXTENDS Naturals, Sequences, FiniteSets, SequencesExt

CONSTANTS Queues,
          Content,      \* the ids on each queue at the start
          MaxBindings,  \* MAX_BROWSER_BINDINGS
          Cap,          \* state.maxMessagesPerQueue, fixed while connected
          Conds,        \* the conditions a filter may set
          Meets,        \* the conditions each message meets
          MaxBrowsers, Null

ASSUME BrowserAssumption ==
  /\ MaxBindings \in Nat \ {0} /\ Cap \in Nat \ {0} /\ MaxBrowsers \in Nat
  /\ Content \in [Queues -> SUBSET Nat]
  /\ Null \notin Queues /\ Null \notin 1..MaxBrowsers /\ Null \notin Nat

Ids == UNION {Content[q] : q \in Queues}
Msgs == {m \in Queues \X Ids : m[2] \in Content[m[1]]}
Browsers == 1..MaxBrowsers
TableRows == [msg : Msgs, checked : BOOLEAN, canDelete : BOOLEAN]
\* The criteria tell only filters of several conditions apart.
Filters == {f \in [conds : SUBSET Conds, criteria : {"AND", "OR"}] :
              Cardinality(f.conds) < 2 => f.criteria = "OR"}
NoFilter == [conds |-> {}, criteria |-> "OR"]
IdOf(m) == m[2]

VARIABLES
  \* the brokers and the SDK: life of each browser, its queue and permission, how
  \* far it has delivered; the messages removed
  phase, queueOf, permission, cursor, removed,
  session,   \* the service has a session
  inst,      \* browserInstances: the browser of a queue, or Null
  stored,    \* the keys of messageStore
  store,     \* its arrays, empty where there is no key
  options,   \* the dropdown below its first entry
  current,   \* state.currentQueue, which is the dropdown's value
  readOnly,  \* state.currentQueuePermissions.READ_ONLY
  linked, own, same, copy,
  filter,    \* activeFilters
  rows,      \* the table
  details,   \* the id in the details panel, or Null
  late,      \* how many events browsers raised after disconnect()
  broken

sdkVars == <<phase, queueOf, permission, cursor, removed>>
listVars == <<linked, own, same, copy>>
viewVars == <<current, readOnly, listVars, filter, rows, details>>
storeVars == <<inst, stored, store>>
faultVars == <<late, broken>>
browserVars == <<sdkVars, session, storeVars, options, viewVars, faultVars>>

Phases == {"unused", "connecting", "up", "failed", "aborted", "ended"}
Live == {b \in Browsers : phase[b] \in {"connecting", "up"}}

all == IF linked THEN store[current] ELSE own
displayed == IF same THEN all ELSE copy

BrowserInit ==
  /\ phase = [b \in Browsers |-> "unused"] /\ queueOf = [b \in Browsers |-> Null]
  /\ permission = [b \in Browsers |-> "unknown"]
  /\ cursor = [b \in Browsers |-> {}] /\ removed = {}
  /\ session = FALSE
  /\ inst = [q \in Queues |-> Null] /\ stored = {} /\ store = [q \in Queues |-> <<>>]
  /\ options = <<>> /\ current = Null /\ readOnly = FALSE
  /\ linked = FALSE /\ own = <<>> /\ same = TRUE /\ copy = <<>>
  /\ filter = NoFilter /\ rows = <<>> /\ details = Null
  /\ late = 0 /\ broken = FALSE

-----------------------------------------------------------------------------
(* What the page shows.                                                    *)

\* The entries of s at the positions in I, in order.
EntriesAt(s, I) ==
  LET upTo[n \in 0..Len(s)] ==
        IF n = 0 THEN <<>> ELSE IF n \in I THEN Append(upTo[n - 1], s[n]) ELSE upTo[n - 1]
  IN  upTo[Len(s)]

\* Those that are in S (SelectSeq, in a form that can be reasoned about).
Only(s, S) == EntriesAt(s, {i \in DOMAIN s : s[i] \in S})

shouldShowMessage(f, m) ==
  \/ f.conds = {}
  \/ f.criteria = "AND" /\ f.conds \subseteq Meets[m]
  \/ f.criteria = "OR" /\ f.conds \cap Meets[m] # {}
Passing(f) == {m \in Msgs : shouldShowMessage(f, m)}

createRow(m, ro) == [msg |-> m, checked |-> FALSE, canDelete |-> ~ro]
renderList(ms, ro) == [i \in DOMAIN ms |-> createRow(ms[i], ro)]

\* Of each id the first row goes.
removeMessageRow(rs, ids) ==
  EntriesAt(rs, {i \in DOMAIN rs : IdOf(rs[i].msg) \in ids =>
                   \E j \in 1..(i - 1) : IdOf(rs[j].msg) = IdOf(rs[i].msg)})
ClearedIf(det, rs, id) ==
  IF det = id /\ \E i \in DOMAIN rs : IdOf(rs[i].msg) = id THEN Null ELSE det

PermissionOf(q, in) == IF in[q] = Null THEN "unknown" ELSE permission'[in[q]]

\* Mutant: what may be done with a queue is found out once.
BugPermission(q, in, keys, st) ==
  LET ms == IF q # Null /\ q \in keys THEN st[q] ELSE <<>>
      ro == IF q = Null \/ current # Null THEN readOnly ELSE PermissionOf(q, in) = "ro"
  IN  /\ current' = q /\ readOnly' = ro
      /\ linked' = (q # Null /\ q \in keys) /\ own' = <<>>
      /\ same' = TRUE /\ copy' = <<>>
      /\ filter' = NoFilter /\ details' = Null
      /\ rows' = renderList(ms, ro)

\* The browsers, keys and arrays are given as the calling handler leaves them.
handleDropdownChange(q, in, keys, st) ==
  LET ms == IF q # Null /\ q \in keys THEN st[q] ELSE <<>>
      ro == IF q = Null THEN readOnly ELSE PermissionOf(q, in) = "ro"
  IN  /\ current' = q /\ readOnly' = ro
      /\ linked' = (q # Null /\ q \in keys) /\ own' = <<>>
      /\ same' = TRUE /\ copy' = <<>>
      /\ filter' = NoFilter /\ details' = Null
      /\ rows' = renderList(ms, ro)

resetQueueSelection ==
  /\ current' = Null /\ readOnly' = FALSE
  /\ linked' = FALSE /\ own' = <<>> /\ same' = FALSE /\ copy' = <<>>
  /\ filter' = NoFilter /\ rows' = <<>> /\ details' = Null

SelectQueue(q) ==
  /\ session /\ q \in ToSet(options) \ {current}
  /\ UNCHANGED <<sdkVars, session, storeVars, options, faultVars>>
  /\ handleDropdownChange(q, inst, stored, store)

applyFilters(f) ==
  /\ session /\ current # Null
  /\ filter' = f /\ same' = FALSE
  /\ copy' = Only(all, Passing(f))
  /\ rows' = renderList(copy', readOnly) /\ details' = Null
  /\ UNCHANGED <<sdkVars, session, storeVars, options, current, readOnly, linked, own,
                 faultVars>>

clearFilters ==
  /\ session /\ current # Null
  /\ filter' = NoFilter /\ same' = TRUE /\ copy' = <<>>
  /\ rows' = renderList(all, readOnly)
  /\ UNCHANGED <<sdkVars, session, storeVars, options, current, readOnly, linked, own,
                 details, faultVars>>

CheckRow(i) ==
  /\ session /\ i \in DOMAIN rows
  /\ rows' = [rows EXCEPT ![i].checked = ~@]
  /\ UNCHANGED <<sdkVars, session, storeVars, options, current, readOnly, listVars,
                 filter, details, faultVars>>

CheckAll(checked) ==
  /\ session /\ rows # <<>>
  /\ rows' = [i \in DOMAIN rows |-> [rows[i] EXCEPT !.checked = checked]]
  /\ UNCHANGED <<sdkVars, session, storeVars, options, current, readOnly, listVars,
                 filter, details, faultVars>>

\* A row without its message in displayedMessages opens nothing.
selectMessage(i) ==
  /\ session /\ i \in DOMAIN rows
  /\ LET id == IdOf(rows[i].msg)
     IN  /\ \E k \in DOMAIN displayed : IdOf(displayed[k]) = id
         /\ details' = id
  /\ UNCHANGED <<sdkVars, session, storeVars, options, current, readOnly, listVars,
                 filter, rows, faultVars>>

-----------------------------------------------------------------------------
(* Binding and unbinding.                                                  *)

Used == {b \in Browsers : phase[b] # "unused"}
\* The bound allows another browser, or a late event.
Spare == Cardinality(Used) + late < MaxBrowsers
Fresh(b) == Spare /\ b = Cardinality(Used) + 1

\* Where disconnect() leaves a browser.
AfterDisconnect(ph) == IF ph \in {"connecting", "aborted"} THEN "aborted" ELSE "ended"

\* Mutant: the limit counts browsers that are up.
BugAtLimit == Cardinality({q \in Queues : inst[q] # Null /\ phase[inst[q]] = "up"}) >= MaxBindings

AtLimit == Cardinality({q \in Queues : inst[q] # Null}) >= MaxBindings

\* createBrowser: the store is made before the limit is looked at; createQueueBrowser
\* or connect may throw.
createBrowser(q) ==
  IF ~session THEN UNCHANGED <<sdkVars, storeVars>>
  ELSE IF AtLimit
  THEN stored' = stored \cup {q} /\ UNCHANGED <<sdkVars, inst, store>>
  ELSE \/ \E b \in Browsers :
            /\ Fresh(b)
            /\ phase' = [phase EXCEPT ![b] = "connecting"]
            /\ queueOf' = [queueOf EXCEPT ![b] = q]
            /\ inst' = [inst EXCEPT ![q] = b]
            /\ stored' = stored \cup {q}
            /\ UNCHANGED <<permission, cursor, removed, store>>
       \/ /\ inst' = [inst EXCEPT ![q] = Null]
          /\ stored' = stored \ {q} /\ store' = [store EXCEPT ![q] = <<>>]
          /\ UNCHANGED sdkVars

handleBindClick(q) ==
  IF inst[q] # Null THEN UNCHANGED <<sdkVars, storeVars>> ELSE createBrowser(q)

\* A throw inside createBrowser removes the array that allMessages may be.
KeepList(q) ==
  IF linked /\ current = q /\ q \notin stored'
  THEN linked' = FALSE /\ own' = store[q]
  ELSE UNCHANGED <<linked, own>>

\* The button, or browser:browse-queue, which clicks it 200 ms after another module asked
\* for it, whatever has happened to the connection since.
Bind(q) ==
  /\ handleBindClick(q) /\ KeepList(q)
  /\ UNCHANGED <<session, options, current, readOnly, same, copy, filter, rows, details,
                 faultVars>>

\* disconnectBrowser, by the queue's name.
disconnectBrowser(q) ==
  /\ phase' = IF inst[q] = Null THEN phase ELSE [phase EXCEPT ![inst[q]] = AfterDisconnect(@)]
  /\ inst' = [inst EXCEPT ![q] = Null]
  /\ stored' = stored \ {q} /\ store' = [store EXCEPT ![q] = <<>>]

handleUnbindClick ==
  /\ session /\ current # Null
  /\ UNCHANGED <<queueOf, permission, cursor, removed, session, faultVars>>
  /\ disconnectBrowser(current)
  /\ options' = RemoveFirst(options, current)
  /\ IF options' # <<>>
     THEN handleDropdownChange(Head(options'), inst', stored', store')
     ELSE resetQueueSelection

-----------------------------------------------------------------------------
(* Events of a browser.  A browser that was disconnected may have one on    *)
(* its way.                                                                *)

InTime(b, ph) == phase[b] = ph /\ UNCHANGED late
Late(b, ph) ==
  /\ phase[b] = ph /\ Spare /\ late' = late + 1

\* onBrowserUp, with addQueueToDropdown: the queue is entered and selected.
BrowserUp(b) ==
  LET q == queueOf[b]
  IN  /\ InTime(b, "connecting") \/ Late(b, "aborted")
      /\ phase' = [phase EXCEPT ![b] = IF @ = "connecting" THEN "up" ELSE "ended"]
      /\ \E p \in {"ro", "rw"} : permission' = [permission EXCEPT ![b] = p]
      /\ options' = IF Contains(options, q) THEN options ELSE Append(options, q)
      /\ UNCHANGED <<queueOf, cursor, removed, session, storeVars, broken>>
      /\ handleDropdownChange(q, inst, stored, store)

\* onConnectFailed ends whatever browser the queue has by now.
BrowserFailed(b) ==
  LET q == queueOf[b]
  IN  /\ InTime(b, "connecting") \/ Late(b, "aborted")
      /\ disconnectBrowser(q) /\ KeepList(q)
      /\ UNCHANGED <<queueOf, permission, cursor, removed, session, options, current,
                     readOnly, same, copy, filter, rows, details, broken>>

AtCap(q) == q \in stored /\ Len(store[q]) >= Cap
ingestMessage(q, m) ==
  /\ stored' = stored
  /\ store' = IF q \in stored
              THEN [store EXCEPT ![q] = Append(IF AtCap(q) THEN Tail(@) ELSE @, m)]
              ELSE store

\* Mutant: the row of the message that leaves the window stays.
BugDropOldest(q) == [rows |-> rows, copy |-> copy, details |-> details]

\* What the page shows once the oldest message of its queue has left the window.
DropOldest(q) ==
  IF ~AtCap(q) THEN [rows |-> rows, copy |-> copy, details |-> details]
  ELSE LET old == Head(store[q])
       IN  [rows |-> removeMessageRow(rows, {IdOf(old)}),
            copy |-> IF same THEN copy ELSE RemoveFirst(copy, old),
            details |-> ClearedIf(details, rows, IdOf(old))]

\* onMessage: displayedMessages that were the page's own array become a copy when
\* allMessages is the store's again.
onMessage(q, m) ==
  LET drop == DropOldest(q)
      shows == shouldShowMessage(filter, m)
  IN  /\ ingestMessage(q, m)
      /\ IF current # q
         THEN UNCHANGED <<listVars, rows, details, broken>>
         ELSE IF q \notin stored
         THEN broken' = TRUE /\ UNCHANGED <<listVars, rows, details>>
         ELSE /\ linked' = TRUE /\ own' = <<>>
              /\ same' = (same /\ linked)
              /\ LET base == IF same THEN own ELSE drop.copy
                 IN  copy' = CASE same' -> <<>>
                               [] ~same' /\ shows -> Append(base, m)
                               [] OTHER -> base
              /\ rows' = IF shows THEN Append(drop.rows, createRow(m, readOnly)) ELSE drop.rows
              /\ details' = drop.details
              /\ UNCHANGED broken

\* The next message in order that is still there.
Message(b) ==
  LET q == queueOf[b]
  IN  /\ InTime(b, "up") \/ Late(b, "ended")
      /\ \E i \in Content[q] \ cursor[b] :
           /\ <<q, i>> \notin removed
           /\ \A j \in Content[q] : j < i => j \in cursor[b] \/ <<q, j>> \in removed
           /\ \A j \in cursor[b] : j < i
           /\ cursor' = [cursor EXCEPT ![b] = @ \cup {i}]
           /\ onMessage(q, <<q, i>>)
      /\ UNCHANGED <<phase, queueOf, permission, removed, session, inst, options, current,
                     readOnly, filter>>

-----------------------------------------------------------------------------
(* Deletions.  The confirmation blocks the thread.                         *)

getSelectedMessageIds == {IdOf(rows[i].msg) : i \in {k \in DOMAIN rows : rows[k].checked}}

\* updateCounts: the button shows, and can be clicked.
CanBulkDelete == ~readOnly /\ getSelectedMessageIds # {}

WriteBack(q, kept) == [store EXCEPT ![q] = kept]

\* removeMessageFromQueue throws for the ids in failing.
deleteMessages(ids, failing) ==
  LET done == ids \ failing
      keep == {m \in Msgs : IdOf(m) \notin done}
  IN  /\ inst[current] # Null /\ current \in stored
      /\ done # {}
      /\ removed' = removed \cup {<<queueOf[inst[current]], i>> : i \in done}
      /\ rows' = removeMessageRow(rows, done)
      /\ details' = IF details \in done THEN Null ELSE details
      /\ store' = WriteBack(current, Only(all, keep))
      /\ linked' = TRUE /\ own' = <<>>
      /\ same' = FALSE /\ copy' = Only(displayed, keep)
      /\ UNCHANGED <<phase, queueOf, permission, cursor, session, inst, stored, options,
                     current, readOnly, filter, faultVars>>

\* Only a browser that is up removes anything (one that went down, for which the page shows
\* a banner, is one that is silent and removes nothing).
Removable(ids) ==
  {f \in SUBSET ids : inst[current] # Null /\ phase[inst[current]] # "up" => f = ids}

handleBulkDelete ==
  /\ session /\ current # Null /\ CanBulkDelete
  /\ \E f \in Removable(getSelectedMessageIds) : deleteMessages(getSelectedMessageIds, f)

handleDelete(i) ==
  /\ session /\ current # Null /\ i \in DOMAIN rows /\ rows[i].canDelete
  /\ \E f \in Removable({IdOf(rows[i].msg)}) : deleteMessages({IdOf(rows[i].msg)}, f)

-----------------------------------------------------------------------------
(* The connection.                                                         *)

Connected ==
  /\ ~session /\ session' = TRUE
  /\ UNCHANGED <<sdkVars, storeVars, options, viewVars, faultVars>>

disconnectAll ==
  /\ inst' = [q \in Queues |-> Null]
  /\ stored' = {} /\ store' = [q \in Queues |-> <<>>]

\* handleDisconnect, with resetUI; the session takes its browsers with it.
ClientDisconnected ==
  /\ session /\ session' = FALSE
  /\ phase' = [b \in Browsers |-> IF b \in Live THEN AfterDisconnect(phase[b]) ELSE phase[b]]
  /\ disconnectAll
  /\ options' = <<>>
  /\ UNCHANGED <<queueOf, permission, cursor, removed, faultVars>>
  /\ handleDropdownChange(Null, inst', stored', store')

-----------------------------------------------------------------------------
BrowserNext ==
  /\ ~broken
  /\ \/ Connected \/ ClientDisconnected \/ handleUnbindClick \/ handleBulkDelete \/ clearFilters
     \/ \E q \in Queues : Bind(q) \/ SelectQueue(q)
     \/ \E b \in Browsers : BrowserUp(b) \/ BrowserFailed(b) \/ Message(b)
     \/ \E f \in Filters : applyFilters(f)
     \/ \E i \in DOMAIN rows : CheckRow(i) \/ selectMessage(i) \/ handleDelete(i)
     \/ \E c \in BOOLEAN : CheckAll(c)

BrowserSpec == BrowserInit /\ [][BrowserNext]_browserVars

\* What steps and properties depend on: not on a browser no event can come from.
Silent(b) == phase[b] = "failed" \/ (phase[b] \in {"aborted", "ended"} /\ ~Spare)
Seen ==
  LET past(f) == [b \in Browsers |-> IF Silent(b) THEN Null ELSE f[b]]
  IN  <<[b \in Browsers |-> IF Silent(b) THEN "failed" ELSE phase[b]], past(queueOf),
        past(permission), past(cursor), removed, session, storeVars, options, viewVars,
        faultVars>>

-----------------------------------------------------------------------------
BrowserTypeOK ==
  /\ phase \in [Browsers -> Phases] /\ queueOf \in [Browsers -> Queues \cup {Null}]
  /\ permission \in [Browsers -> {"unknown", "ro", "rw"}]
  /\ cursor \in [Browsers -> SUBSET Nat] /\ removed \subseteq Msgs /\ session \in BOOLEAN
  /\ inst \in [Queues -> Browsers \cup {Null}] /\ stored \subseteq Queues
  /\ store \in [Queues -> Seq(Msgs)] /\ \A q \in Queues \ stored : store[q] = <<>>
  /\ options \in Seq(Queues) /\ current \in Queues \cup {Null} /\ readOnly \in BOOLEAN
  /\ linked \in BOOLEAN /\ (linked => current \in stored) /\ own \in Seq(Msgs)
  /\ same \in BOOLEAN /\ copy \in Seq(Msgs)
  /\ filter \in Filters /\ rows \in Seq(TableRows) /\ details \in Ids \cup {Null}
  /\ late \in 0..MaxBrowsers /\ broken \in BOOLEAN

\* The table shows the messages of the selected queue's store that pass the filter, in
\* order and once each; the details are of one of its rows, and no deleted message is left
\* anywhere, as long as no browser speaks after it was disconnected.
ShownIsStored ==
  late = 0 =>
    /\ [i \in DOMAIN rows |-> rows[i].msg] = displayed
    /\ displayed = Only(all, Passing(filter))
    /\ all = IF current = Null THEN <<>> ELSE store[current]
    /\ details # Null => \E i \in DOMAIN rows : IdOf(rows[i].msg) = details
    /\ \A q \in Queues : IsInjective(store[q]) /\ removed \cap ToSet(store[q]) = {}
    /\ ~broken

\* No store outgrows its cap; no more browsers live than may be bound, and the page can
\* end each of them.  Late events do not change that.
WithinLimits ==
  /\ \A q \in Queues : Len(store[q]) <= Cap
  /\ Cardinality(Live) <= MaxBindings
  /\ \A b \in Live : session /\ inst[queueOf[b]] = b

\* What is removed from the broker was in a row of the selected queue's table, and the
\* queue is not read-only.
DeletesWhatIsShown ==
  [][\A m \in removed' \ removed :
        /\ m[1] = current /\ permission[inst[current]] = "rw"
        /\ \E i \in DOMAIN rows : rows[i].msg = m]_browserVars
=============================================================================
