----------------------------- MODULE QueuePicker -----------------------------
(***************************************************************************)
(* The queue picker (components/queue-picker) over the paged SEMP          *)
(* discovery (semp-discovery.ts): a modal dialog that lists VPNs and       *)
(* queues while their pages arrive, and a cache that outlives it.          *)
(*                                                                         *)
(* A load is recognised by a generation number that starts again with each *)
(* picker.  The loop over the pages of a load that is no longer wanted     *)
(* stops at its next page: until then the load lives on, whether the       *)
(* picker that began it is open or not.                                    *)
(*                                                                         *)
(* A context is the destination's, whose closure is bound to its broker,   *)
(* or the primary's, whose requests go to whatever broker is connected     *)
(* when they are sent.  What is listed carries the broker and the VPN it   *)
(* was read from, which the program does not know.  The lists that are     *)
(* drawn are those of state.vpns and of the selected VPN in queueCache.    *)
(* Bounds: MaxFetches loads in flight, MaxGen loads of a kind per picker.  *)
(***************************************************************************)
EXTENDS Naturals, Sequences

CONSTANTS Brokers, Vpns,
          Contexts,      \* of the primary connection and of the destination's
          VpnPages,      \* per broker the pages of its VPN list
          QueuePages,    \* per broker and VPN the number of pages of its queues
          MaxFetches, MaxGen, Null

Vpn == [at : Brokers, vpn : Vpns]
Queue == [at : Brokers, vpn : Vpns, page : Nat]

VpnPage(b, n) == [at : {b}, vpn : VpnPages[b][n]]
QueuePage(b, v, n) == [at : {b}, vpn : {v}, page : {n}]

\* The first n pages of a list.
VpnsUpTo(b, n) == UNION {VpnPage(b, k) : k \in 1..n}
QueuesUpTo(b, v, n) == UNION {QueuePage(b, v, k) : k \in 1..n}

AllVpns(b) == VpnsUpTo(b, Len(VpnPages[b]))
AllQueues(b, v) == QueuesUpTo(b, v, QueuePages[b][v])

\* Lists that are loaded, or not.
VpnList == {Null} \cup SUBSET Vpn
QueueLists == [Vpns -> {Null} \cup SUBSET Queue]

Picker == [ctx : Contexts, selectedVpn : Vpns \cup {Null}, selectedQueue : Queue \cup {Null},
           listening : BOOLEAN, vpns : VpnList, queueCache : QueueLists,
           vpnFetchGen : 0..MaxGen, queueFetchGen : 0..MaxGen]

ASSUME PickerAssumption ==
  /\ VpnPages \in [Brokers -> Seq(SUBSET Vpns)] /\ \A b \in Brokers : VpnPages[b] # <<>>
  /\ QueuePages \in [Brokers -> [Vpns -> Nat]]
  /\ Contexts \subseteq [baseUrl : Brokers, bound : BOOLEAN]
  /\ MaxFetches \in Nat /\ MaxGen \in Nat
  /\ Null \notin Brokers /\ Null \notin Vpns
  /\ Null \notin Picker
  /\ \A b \in Brokers, v \in Vpns : \A n \in 1..QueuePages[b][v] : QueuesUpTo(b, v, n) # Null

NoQueues == [v \in Vpns |-> Null]

VARIABLES
  primary,   \* the broker of the primary SEMP connection, or Null
  cache,     \* the module's: baseUrl, vpns and queues, or Null
  state,     \* of the open picker, or Null
  fetches,   \* the generators in use; "own" are those the open picker began
  crossed    \* a page asked for by an earlier picker was taken by a later one

pickerVars == <<primary, cache, state, fetches, crossed>>

Fetches == 1..MaxFetches

PickerInit ==
  /\ primary \in Brokers /\ cache = Null /\ state = Null
  /\ fetches = [i \in Fetches |-> Null] /\ crossed = FALSE

IsOpen == state # Null

-----------------------------------------------------------------------------
(* The cache.                                                              *)

EmptyCache(b) == [baseUrl |-> b, vpns |-> Null, queues |-> NoQueues]

\* Mutant: the cache of another broker is taken for this one's.
BugensureCache(ctx) == IF cache = Null THEN EmptyCache(ctx.baseUrl) ELSE cache

ensureCache(ctx) ==
  IF cache = Null \/ cache.baseUrl # ctx.baseUrl THEN EmptyCache(ctx.baseUrl) ELSE cache

-----------------------------------------------------------------------------
(* Loads.                                                                  *)

\* sempCtx.fetch: who is asked.
fetch(ctx) == IF ctx.bound THEN ctx.baseUrl ELSE primary

\* The loads after the picker s has begun another.
Begun(ls, s, kind) ==
  LET i == CHOOSE i \in Fetches : ls[i] = Null
  IN  [ls EXCEPT ![i] = [kind |-> kind, ctx |-> s.ctx, own |-> TRUE, got |-> {}, page |-> 1,
                         vpn |-> IF kind = "queues" THEN s.selectedVpn ELSE Null,
                         gen |-> IF kind = "queues" THEN s.queueFetchGen ELSE s.vpnFetchGen,
                         st |-> "asked", at |-> fetch(s.ctx)]]

fetchVpns(ls, s) ==
  /\ \E i \in Fetches : ls[i] = Null
  /\ s.vpnFetchGen < MaxGen
  /\ LET t == [s EXCEPT !.vpnFetchGen = @ + 1]
     IN  state' = t /\ fetches' = Begun(ls, t, "vpns")

fetchQueues(ls, s) ==
  /\ \E i \in Fetches : ls[i] = Null
  /\ s.queueFetchGen < MaxGen
  /\ LET t == [s EXCEPT !.queueFetchGen = @ + 1, !.queueCache[s.selectedVpn] = Null]
     IN  state' = t /\ fetches' = Begun(ls, t, "queues")

\* Mutant: the queue chosen before stays chosen, and Confirm enabled.
BugUnchosen(s, v) == [s EXCEPT !.selectedVpn = v, !.listening = TRUE]

\* Another VPN unmakes the choice of a queue.
Unchosen(s, v) == [s EXCEPT !.selectedVpn = v, !.selectedQueue = Null, !.listening = TRUE]

\* What was loaded of the VPN before is shown, even if a load was cut short; otherwise it
\* is loaded.
selectVpn(ls, s, v) ==
  IF s.queueCache[v] # Null THEN state' = Unchosen(s, v) /\ fetches' = ls
  ELSE fetchQueues(ls, Unchosen(s, v))

\* Mutant: a load that was superseded goes on writing.
BugWanted(f) == IsOpen

\* The loop over the pages goes on.
Wanted(f) ==
  /\ IsOpen
  /\ f.gen = IF f.kind = "vpns" THEN state.vpnFetchGen ELSE state.queueFetchGen

Over(i) == [fetches EXCEPT ![i] = Null]

\* PAGE_DELAY_MS of rest before the next request.
Resting(i, got) == [fetches EXCEPT ![i].st = "resting", ![i].got = got]

VpnPageArrives(i) ==
  LET f == fetches[i]
      got == f.got \cup VpnPage(f.at, f.page)
      s == [state EXCEPT !.vpns = got]
  IN  /\ f.page \in DOMAIN VpnPages[f.at]
      /\ IF f.page < Len(VpnPages[f.at])
         THEN state' = s /\ fetches' = Resting(i, got) /\ UNCHANGED cache
         ELSE /\ cache' = [ensureCache(f.ctx) EXCEPT !.vpns = got]
              /\ IF \E e \in got : e.vpn = s.selectedVpn
                 THEN selectVpn(Over(i), s, s.selectedVpn)
                 ELSE state' = s /\ fetches' = Over(i)

\* What renderQueueList draws.
Drawn(s) == IF s.selectedVpn = Null THEN Null ELSE s.queueCache[s.selectedVpn]

\* Drawing the list of the selected VPN throws if none is held of it, and ends the load.
QueuePageArrives(i) ==
  LET f == fetches[i]
      got == f.got \cup QueuePage(f.at, f.vpn, f.page)
      s == [state EXCEPT !.queueCache[f.vpn] = got]
  IN  /\ f.page <= QueuePages[f.at][f.vpn]
      /\ state' = s
      /\ \/ /\ Drawn(s) = Null
            /\ fetches' = Over(i) /\ UNCHANGED cache
         \/ /\ Drawn(s) # Null
            /\ IF f.page < QueuePages[f.at][f.vpn]
               THEN fetches' = Resting(i, got) /\ UNCHANGED cache
               ELSE /\ fetches' = Over(i)
                    /\ cache' = [ensureCache(f.ctx) EXCEPT !.queues[f.vpn] = got]

PageArrives(i) ==
  /\ fetches[i] # Null /\ fetches[i].st = "asked" /\ fetches[i].at # Null
  /\ Wanted(fetches[i])
  /\ IF fetches[i].kind = "vpns" THEN VpnPageArrives(i) ELSE QueuePageArrives(i)
  /\ crossed' = (crossed \/ ~fetches[i].own)
  /\ UNCHANGED primary

\* An answer nobody waits for, or an error: the load is over, with what it has shown left
\* as it is.
LoadEnds(i) ==
  /\ fetches[i] # Null /\ fetches[i].st = "asked"
  /\ fetches' = Over(i)
  /\ UNCHANGED <<primary, cache, state, crossed>>

RestEnds(i) ==
  /\ fetches[i] # Null /\ fetches[i].st = "resting"
  /\ fetches' = [fetches EXCEPT ![i].st = "asked", ![i].page = @ + 1, ![i].at = fetch(fetches[i].ctx)]
  /\ UNCHANGED <<primary, cache, state, crossed>>

-----------------------------------------------------------------------------
(* The dialog.                                                             *)

\* Of the primary connection there is a context only while it is up.
pickQueue(ctx, defaultVpn) ==
  /\ ~IsOpen /\ (ctx.bound \/ primary = ctx.baseUrl)
  /\ LET c == ensureCache(ctx)
         s == [ctx |-> ctx, selectedVpn |-> defaultVpn, selectedQueue |-> Null,
               listening |-> FALSE, vpns |-> c.vpns, queueCache |-> c.queues,
               vpnFetchGen |-> 0, queueFetchGen |-> 0]
     IN  /\ cache' = c
         /\ CASE c.vpns = Null -> fetchVpns(fetches, s)
              [] c.vpns # Null /\ (\E e \in c.vpns : e.vpn = defaultVpn) ->
                   selectVpn(fetches, s, defaultVpn)
              [] OTHER -> state' = s /\ UNCHANGED fetches
  /\ UNCHANGED <<primary, crossed>>

ClickVpn(v) ==
  /\ IsOpen /\ state.vpns # Null /\ \E e \in state.vpns : e.vpn = v
  /\ selectVpn(fetches, state, v)
  /\ UNCHANGED <<primary, cache, crossed>>

\* The queue field opens its list once it is enabled and there is one of the selected VPN.
Offered == IF IsOpen /\ state.listening /\ Drawn(state) # Null THEN Drawn(state) ELSE {}

selectQueue(q) ==
  /\ q \in Offered
  /\ state' = [state EXCEPT !.selectedQueue = q]
  /\ UNCHANGED <<primary, cache, fetches, crossed>>

\* Neither refresh unmakes a choice: Confirm stays enabled.
RefreshVpns ==
  /\ IsOpen
  /\ cache' = [ensureCache(state.ctx) EXCEPT !.vpns = Null]
  /\ fetchVpns(fetches, [state EXCEPT !.vpns = Null])
  /\ UNCHANGED <<primary, crossed>>

RefreshQueues ==
  /\ IsOpen /\ state.listening
  /\ cache' = [ensureCache(state.ctx) EXCEPT !.queues[state.selectedVpn] = Null]
  /\ fetchQueues(fetches, state)
  /\ UNCHANGED <<primary, crossed>>

\* The caller is given the VPN and the queue that are selected, or null.
resolveAndClose ==
  /\ state' = Null
  /\ fetches' = [i \in Fetches |-> IF fetches[i] = Null THEN Null ELSE [fetches[i] EXCEPT !.own = FALSE]]
  /\ UNCHANGED <<primary, cache, crossed>>

Confirm ==
  /\ IsOpen /\ state.selectedQueue # Null /\ state.selectedVpn # Null
  /\ resolveAndClose

Cancel == IsOpen /\ resolveAndClose

\* The dialog is modal: beneath it the primary connection can end but not be made.
PrimaryChanges ==
  /\ \E b \in Brokers \cup {Null} : b # primary /\ (IsOpen => b = Null) /\ primary' = b
  /\ UNCHANGED <<cache, state, fetches, crossed>>

-----------------------------------------------------------------------------
PickerNext ==
  \/ \E ctx \in Contexts, v \in Vpns \cup {Null} : pickQueue(ctx, v)
  \/ \E v \in Vpns : ClickVpn(v)
  \/ \E q \in Offered : selectQueue(q)
  \/ RefreshVpns \/ RefreshQueues \/ Confirm \/ Cancel \/ PrimaryChanges
  \/ \E i \in Fetches : PageArrives(i) \/ LoadEnds(i) \/ RestEnds(i)

PickerSpec == PickerInit /\ [][PickerNext]_pickerVars

-----------------------------------------------------------------------------
\* A load holds entries of its own kind; the queue field is only enabled under a VPN.
PickerTypeOK ==
  /\ primary \in Brokers \cup {Null} /\ crossed \in BOOLEAN
  /\ cache # Null => cache \in [baseUrl : Brokers, vpns : VpnList, queues : QueueLists]
  /\ IsOpen =>
       state \in Picker /\ (state.listening => state.selectedVpn # Null)
  /\ DOMAIN fetches = Fetches
  /\ \A i \in Fetches : fetches[i] # Null =>
       /\ fetches[i] \in [kind : {"vpns", "queues"}, ctx : Contexts, own : BOOLEAN,
                        got : SUBSET (Vpn \cup Queue), page : Nat \ {0}, vpn : Vpns \cup {Null},
                        gen : 0..MaxGen, st : {"asked", "resting"}, at : Brokers \cup {Null}]
       /\ IF fetches[i].kind = "vpns" THEN fetches[i].got \subseteq Vpn
          ELSE fetches[i].got \subseteq Queue /\ fetches[i].vpn \in Vpns

\* Whenever Confirm can be clicked the queue is one of the VPN that goes with it; and of the
\* picker's broker, unless pages that an earlier picker asked for were taken by a later one.
PickIsListed ==
  IsOpen /\ state.selectedQueue # Null =>
    /\ state.selectedQueue.vpn = state.selectedVpn
    /\ crossed \/ state.selectedQueue.at = state.ctx.baseUrl

\* What the cache keeps for the next picker are whole lists, of the broker it is for,
\* unless such pages were taken.
CacheIsWhole ==
  cache # Null /\ ~crossed =>
    /\ cache.vpns \in {Null, AllVpns(cache.baseUrl)}
    /\ \A v \in Vpns : cache.queues[v] \in {Null, AllQueues(cache.baseUrl, v)}

Holds(list) == IF list = Null THEN {} ELSE list

\* While a picker is open the list of a VPN's queues only grows, until the user asks for it
\* anew: a load that was superseded takes nothing from it.
ListsOnlyGrow ==
  [][IsOpen /\ state' # Null /\ ~RefreshQueues /\ ~crossed' =>
       \A v \in Vpns : Holds(state.queueCache[v]) \subseteq Holds(state'.queueCache[v])]_pickerVars
=============================================================================
