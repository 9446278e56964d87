# Solace Message Utility: TLA+ specifications, model checking and proofs

This directory holds the formal models of the Solace Message Utility, a browser
application that inspects, forwards, copies and moves messages on the queues of
Solace brokers. The models are written in TLA+, checked on small instances with
TLC, and the statements that matter most are proved for every instance with
TLAPS. `PROJECT.json` lists the parts, the runs, the source lines behind every
definition, the hazards and the theorems; this file explains them.

Paths are relative to the root of the repository, the application's own code
being under `src/`: `src/modules/queue-copy/service-copy.ts`.

## 1. Inventory

Everything runs on one JavaScript thread. Concurrency comes from callbacks of
the messaging SDK (sessions, queue browsers), timers, promises (microtasks),
`fetch` answers, and the user. The brokers and other clients change queues at
any moment. Nothing but the connection form is persisted.

| Component | State it keeps | Operations | What is hard | What makes it correct |
|---|---|---|---|---|
| **Copy engine** `queue-copy/service-copy.ts` | job, `stopReason`, `inFlight`, `firstMessageSeen`, `seenMaxMsgId`, idle timer, pause and disconnect flags | `runCopyJob`: MESSAGE handler, `triggerStop`, drain, `evaluateAndFinish` | many handlers suspended at an `await`; stops racing acknowledgements, timeouts and cancels; own clones coming back; pausing without losing the wake-up | nothing lost, one final report that is true, every run ends |
| **Publisher** `core/services/solace-publisher.ts` | map of pending publishes with a timer each, `disposed` | `send`, ack and reject listeners, timeout, `rejectAllPending`, `dispose` | five ways to settle one promise; keys used again; late answers | each promise settles once, with the right outcome |
| **Verification** `queue-copy/service-verify.ts` | the result under construction, two timers | two SEMP calls; browsing instead; abort | first of several ends wins; figures taken at different moments | what is verified is there; an abort never verifies; it ends |
| **Copy dialog** `queue-copy/ui-modal.ts`, `ui-events.ts`, `module.ts` | `state.verify`, `state.job`, start gate | open, probe, Refresh, Start, Cancel, Escape | results of abandoned probes; runs that share a job | a run starts only on the verified queue, in a mode it allows |
| **Session factory** `core/services/solace-client.ts` | `session` | connect, disconnect, cleanup, SDK events | events of an old session when a new one exists | no session is lost sight of |
| **Connections** `modules/connections/` | form, last attempt, request in progress | Connect button, Load, Reset, hand over to another VPN | order of disconnect and connect over events | all modules hold the session that is up; requests are served on their VPN |
| **Forward dialog** `queue-browser/ui-forward.js`, `ui-events.ts`, `service.ts` | forward queue, row status | open, Send, Resend, close | send loops that overlap; the queue is replaced under a loop | green checks are earned and final; it leaves "Sending..." |
| **Copy destination** `queue-copy/module.ts`, `ui.ts`, `ui-events.ts`, `state.ts` | destination form, `destSession`, `destPublisher`, SEMP context, two buttons, locks, Next and Pick gates | toggles, edits, Connect buttons, session events, Pick, Next, Start | a form that changes under a session that stays; events of replaced sessions; a run that takes whatever publisher there is | a run publishes where the dialog said; no button gets stuck; gates are fresh |
| **Queue browser** `modules/queue-browser/` | browsers by queue, message store with a cap, filter, rows, check boxes, details | bind, unbind, ingest, filter, select, delete, disconnect | arrays that are shared or copied; a window that moves under a filter; events of browsers already disconnected | what is shown is what is stored; limits hold; deletions hit what is shown |
| **Queue picker** `core/components/queue-picker/index.ts` | lists, generation counters, choice, one cache for all pickers | open, both lists page by page, select, refresh, confirm, cancel | pages asked for by an earlier picker; two brokers; switching VPN during a load | what is confirmed was listed; the cache holds whole lists |
| **SEMP discovery** `core/services/semp-discovery.ts` | none between calls | `fetchPaged` | where the next page is asked after a change of connection | as the picker |
| **SEMP client and context** `core/services/semp-client.ts`, `sempContext.ts`, the SEMP half of Connections | attempt, button, credentials in `AppState` | connect, disconnect, the 401 path of `sempFetch` | answers of earlier connections; credentials completed after the fact | what is connected was validated as a whole |
| **Subscription explorer** `modules/queue-subscription-explorer/` | rows, generation of the load, button | load, page, disconnect, filter | loads that outlive their connection | the rows are those of the connection |
| **Kernel and event bus** `core/kernel.ts`, `core/event-bus.ts`, `main.ts` | modules installed, listeners, held events, view | start, install, hold and release, navigate, `sempFetch` | installs that fail or finish in between; JSZip whenever it loads | nothing announced at start is lost |
| **Topic and name matching** `core/utils.ts` | none | `matchString`, `topicFilterMatches`, column filters | stars in the middle of a level, `>` in the middle of a topic | agree with a reference definition |
| **Queue discovery** `modules/queue-discovery/` | | | in no build variant (`developer-guide.md` 120) | not modelled |
| **Go gateway** `go-web-proxy/` | none between requests | parse the path, proxy, TLS set-up | | not modelled |
| Markup, styles, rendering, parsers, mocks, logger, toasts, build | | | | not modelled |

How they interact: Connections owns the primary session and announces it on the
event bus (`client:connected`, `client:disconnected`), on which every other
module takes up or drops it; a module that needs another VPN asks with
`connection:check-connection` and is told to go on by an event of its own. The
copy dialog verifies through SEMP or a temporary browser and hands the snapshot
to the copy engine, which drives a queue browser of the primary session and the
publisher of the destination session, or of the primary one if there is none.
The queue browser has a publisher of its own for forwarding. A disconnect disposes
publishers, which settles what their callers await. The explorer and the picker
read page after page through the primary SEMP connection, the picker also through
the destination's. The kernel starts all of them, and holds back what they announce
until all have had their chance to listen.

## 2. Plan

In order of importance.

1. `CopyJob`, `CopyEngine`: the copy engine with its publisher, browser and
   brokers, implementing an abstract job. *Checked and proved.*
2. `Publisher`: the publisher on its own. *Checked and proved.*
3. `Forwarding`: the forward dialog, composed with `Publisher`. *Checked and proved.*
4. `VerifySource` and `CopyModal`: the verification, and the dialog around
   verification and engine. *Checked and proved.*
5. `Connections`: sessions, hooks, VPN handoff. *Checked and proved.*
6. `Destination`: the destination of a copy and its session. *Checked and proved.*
7. `Kernel`, `PrimarySemp`: start-up, and over it the SEMP connection with a page
   that reads through it. *Checked and proved.*
8. `QueueBrowser`: browsers, store and what is shown of it. *Checked and proved.*
9. `QueuePicker`: both lists, their generations and the cache. *Checked and proved.*
10. `Topics`: the filters against a reference. *Checked and proved.*

Left: a run that starts with a destination that is lost while it goes on
(`Destination` composed with `CopyEngine` rather than reduced to where it publishes);
a theorem about the column filters, which are only compared over short inputs.

## 3. Modules

`Bug...` operators next to a definition are faulty variants of it: each property
is checked to fail when the variant takes the definition's place.

### CopyJob (abstract)

What `runCopyJob` promises its page (`CopyHooks`, `CopyJob` in the source): a
job is started, may be cancelled, counts each delivered message once, removes
only what it counted, and ends once; cancelled exactly if that was asked for,
completed only with the full count. `SafeSpec` is the safety part; `Spec` adds
that the job ends.

### CopyEngine, MCCopyEngine

One run of `runCopyJob`, the publisher it awaits, the source browser and the
brokers.

* A message is its spool id. Ids grow and a browser delivers in that order; the
  snapshot is `1 .. SnapshotSize`, arrivals and own clones get larger ids.
* One action per callback. The MESSAGE handler is one action per way through it
  up to `await publisher.send` (`IgnoreMessage`, `MessageSeesCancel`,
  `MessageDrifts`, `MessagePastNewest`, `PublishMessage`, `PublishThrows`); the
  rest of it, with its `finally` block, is `PublishConfirmed` or
  `PublishFailed`, enabled once the publish has settled.
* `stage[m]` is the life of one publish in the client, `broker[m]` what the
  destination knows of it. So a publish may be given up by the client
  (`stage = "failed"`) and still be delivered.
* `triggerStop` is `TriggerStop(reason, st)`, where `st` is the stage map as the
  calling handler leaves it: a cancel settles every pending publish in it.
  `DrainAndFinish` is the queued microtask, `DrainPoll` a turn of the 20 ms loop.
* Microtasks run before the next task: timers and clicks are guarded by `Quiet`.
  SDK events are not, because several can be dispatched from one network frame;
  the order in which queued microtasks run is left open. Both allow more
  behaviours than the runtime.
* The idle timeout and the acknowledgement timeout are both 30 s, so they fire
  in the order in which they were armed. `idleTimer` holds the last message whose
  acknowledgement timer is older than the idle timer.
* The environment: the destination accepts or refuses (`BrokerAccepts`,
  `BrokerRefuses`), answers arrive or do not, other clients consume and publish
  (`OtherConsumes`, `OtherPublishes`), the browser may fail at any time, the
  destination session may go down (`Dispose`), the user may cancel.
* Assumed of the SDK: UP comes once per connect; after `browser.stop()` at most
  `Burst` more messages come; events may come after `disconnect()`.

`MCCopyEngine` holds the sets of run parameters of the TLC runs.

### Publisher, MCPublisher

`createSolacePublisher`. A call is one invocation of `send`; its key is chosen
by the caller. `pending` is the map, `timers` the armed timers, `result` what
each promise settled with, `wire` what the broker has not answered, `accepted`
and `refused` what it did. `send` is `SendDisposed`, `SendAccepted` or
`SendThrows`; the listeners are `Ack` and `Reject`; `TimerFires` reads the entry
by key without looking whose it is, as the code does. The publisher's own run
and its theorems are about callers that never send with a key in flight (the copy
engine, and each first send of a dialog): `Next` says so in `Call`. `Forwarding`
uses the actions without that restriction.

### Forwarding, MCForwarding

The forward dialog on an `INSTANCE` of `Publisher` whose calls are pairs of a
message and a click, and whose key is the message. A click on Send starts a loop
(`loops[n]`), which sends one message per action and sleeps in between;
`running` is the loop that has the thread while it skips messages without
sleeping. `ThenUpdate` is the `then` of the promises the step settles, in the
same action, because microtasks run before any other event. The destination is
either the one typed in or the message's original one, which members of `NoDest`
lack. A loop walks the array it started with, also after the dialog has been
closed and another one opened; `updateForwardItemStatus` finds rows of the
current queue only.

### VerifySource, MCVerifySource

`verifySource` over a queue that others publish to and consume from. The SEMP
path has the states `detail` and `newest`, one per call; the browse path counts
messages, with both timers as numbers of ticks left. `Settle` is `settle` with
its first-one-wins guard; UP, messages and the idle timer may still come after
it. An abort rejects what is in flight at once, so nothing else happens between
`Abort` and the step it causes. `counted` remembers which messages the count of the
result is of, so that `CountLiesBetween` can relate a count taken at one moment to
ids taken at another, with others publishing and consuming in between.

### CopyModal, MCCopyModal

The confirmation dialog over the form. A probe is a verification and a run is a
`runCopyJob`, both seen from the dialog: what a probe lands and that a run ends.
`verify`, `job`, `start` and `refresh` are the shared `state.verify`, `state.job`
and the two buttons; every probe and run so far is kept, with the queue it is
about, because the code does not record it and results land in whatever slot
there is. The dialog is a native `<dialog>` without a handler for its `cancel`
event, so Escape closes it and leaves its probe and its run going.

The source queue also becomes another one when the session moves to another VPN.
`handoff` is that move, as far as the dialog can see it (`Connections` has it in
detail): `CheckConnection` starts it, from a pick on this page or for another page,
which the dialog does not forbid to be under way when it opens;
`PrimaryDisconnected` and `PrimaryConnected` take it on, the latter with
`copy:vpn-switched` (`queue-copy/module.ts` 325), which writes the queue name and
refreshes Next whether the dialog shows or not; `HandoffTimesOut` ends the wait.
`moved` remembers that the source queue became another one since Next, and each
run keeps what it was at its start.

### Connections, MCConnections

The session factory, the Connect button and `connection:check-connection`. Every
SDK session is told apart (`sdk`, `vpnOf`), because the handlers of all of them
share the factory's variable `session`: `Cleanup` disposes whatever is there.
`held` is the session the other modules were given over the bus. `emit` is
synchronous, so a hook, its listeners and what they cause are one action:
`SessionDisconnected` includes the reconnect of a VPN switch. `ConnectWith` is
the click on Connect, which a form that does not validate stops, and `connect`
may throw in two places. `meddled` remembers that the user touched the form or
the button while a request was under way.

### Destination, MCDestination

The destination half of the copy page, over a primary connection whose halves come
and go at any time, each for itself (`PrimaryEvent`; `Connections` and `PrimarySemp`
have it in detail): `sol` is where the session is, `sempHost` the broker of the SEMP
connection, which may be another one, since the host field can change in between
(`connections/module.ts` 360). `VpnSwitched` is `copy:vpn-switched`, also behind the
dialog. The Same VPN checkbox (`boxChecked`, `boxDisabled`) is kept apart from
`sameVpn`: `applyDestPrefill` unticks and disables it without touching the setting,
and the end of a run enables it whatever Same broker says. The factory is that of
`Connections`, here with the hooks of the copy page: `session` is the factory's,
`destSession` what the page was given. Of the form the broker and the VPN are kept,
which say where a session goes, and `named`, that both queue names are filled in; a
broker or VPN is not emptied by hand. A Connect
button is clicked, or Enter pressed in a field of its card that is not disabled. The
dialog is reduced to `shown`, the summary it displays, whose broker is that of SEMP
with Same broker on; that it is left by Escape during a run is in `CopyModal` only.
`run` is where the run in progress publishes. `slipped` remembers the steps after
which form and session, or dialog and session, may differ:

* the primary connection moves to another broker or VPN while a destination session
  is in use or the dialog is open;
* a session goes down while the dialog is open or a run goes on, or under a form
  that disagrees with the primary broker;
* a toggle is clicked while a session is still connecting, or a session comes up
  for a form that has been edited since;
* the place in the form is edited, or a queue of another VPN picked, under a session
  in use;
* Enter in a field that the end of a run has enabled connects a session with both
  Sames on, which hides the buttons but does not disable them;
* a run starts while its session is closing.

Each was found necessary by leaving it out. When a session goes down under a form
that agrees, before the dialog is open, or the form is filled in anew with no
session in use, `slipped` is cleared. Besides, `PublishesWhereShown` leaves out a
run that is `Misled`: with Same VPN on and Same broker off, and no session, it
publishes to the primary session whatever the dialog shows. `forced` remembers
that Next was enabled by the end of a run, which asks nothing (`ui.ts` 484).

### Kernel, PrimarySemp, MCPrimarySemp

`Kernel` is `start`: one install after the other, each with or without a template,
succeeding or throwing half way, while the JSZip script loads at any time; `hold`
and `release` of the bus; sidebar and navigation. `PrimarySemp` extends it: when
the shell runs, SEMP is connected, validated, denied and disconnected from the
Connections page, and the explorer loads page after page. `label` and `disabled`
are its button, `lastSempAttempt` what the hooks complete the credentials from. A
load carries in `pages` by whom each page was answered, and in `to` whom its next
request asks, which is whoever is connected when it is sent. `denied` remembers
that a 401 took the connection down, and whether an earlier connection's request
did. A member of `Wide` has credentials outside ASCII, which the validation
sends in UTF-8 and `sempFetch` in Latin-1.

### QueueBrowser, MCQueueBrowser

The queue browser page. `store` is the map of arrays by queue; `allMessages` is
the array of the current queue (`linked`) or one of the page's own (`own`),
`displayedMessages` is `allMessages` itself (`same`) or a filtered copy (`copy`):
which of them share an array decides what a deletion or an eviction reaches.
Every SDK browser is told apart, the page knowing them by queue name only. `late`
counts events of browsers after `disconnect()`. What `filter` and `removeMessageRow`
leave of an array is `EntriesAt`, the entries at a set of positions, in order.

### QueuePicker, MCQueuePicker

The picker over `fetchPaged`. A load (`fetches`) is a generator with its generation,
what it has collected and whom its request asks; it lives on when its picker is
closed, until its next page finds that it is not wanted, which it may not find,
as the counters start again with each picker. `crossed` remembers that a page was
taken by a later picker than the one that asked. `cache` outlives them all.

### Topics

The matching algorithms as functions on sequences of characters, next to what they
are meant to decide: two patterns overlap exactly if some text is of both. The four
named assumptions of `TopicChecks` compare the two over all short inputs;
`MCPrimarySemp` extends that module, so TLC evaluates them before the run `semp`
(about 8 s). For inputs of any length the topic filters are proved (section 6).

### The proof modules

`CopyEngineProofs`, `PublisherProofs`, `BrowserPageProofs` (the forward dialog, and
the browsers, store and table of the same page), `VerifyProofs`, `CopyModalProofs`,
`ConnectionsProofs`, `DestinationProofs`, `SempProofs` (kernel, SEMP connection,
explorer, picker and topic filters): section 6.

## 4. Runs

| Run | Instance | Distinct states | Shows |
|---|---|---|---|
| `copy_core` | 2 messages + 1 arrival, HIGH 2, LOW 0, burst 1; copy and move; the source as destination, unknown ends, a count that is one off, an empty queue, a refused destination, removals that throw | 1.46 M | nothing lost, never stuck, the window is bounded, completed means delivered, "newest consumed" is only said when it is gone |
| `copy_live` | 2 messages + 1, move; refused destination; no publisher | 0.12 M | every run ends, a cancel is honoured, the engine implements `CopyJob!Spec` |
| `publisher` | 4 calls, three of them on one key | 40 k | right answers; every send settles |
| `forwarding` | 2 messages in one dialog, 1 in the next, 3 clicks | 0.26 M | green checks are earned and final, spinners have something that ends them, sending ends |
| `verify` | up to 4 messages, idle timer 1 tick, bind timer 3 | 32 k | an abort never verifies, what is verified is there, what was counted and not consumed since lies between the ids reported, it ends |
| `modal` | 2 queues, 2 probes, 2 runs | 0.48 M | Start is gated and runs have the snapshot of their queue while the dialog is left by its buttons and the session keeps to its VPN, runs are always allowed by a verdict, Refresh returns |
| `connections` | 2 VPNs, 4 sessions | 75 k | no stray session, modules follow, handoff on target while the user keeps off the form, requests end |
| `destination` | 2 brokers with 2 VPNs, 2 sessions, 1 probe | 3.08 M | runs publish where the dialog said but for what section 3 lists, buttons do not get stuck, Next, Pick and the Same VPN box are up to date |
| `doc_destination` | the same, 1 session | small | a counterexample to a documented statement (section 5) |
| `semp` | 4 modules; 3 brokers, one with wide credentials, 2 loads of 2 pages; and the assumptions of `TopicChecks` | 1.26 M | the start is complete, what is connected was validated, the button tells the truth, rows are of the connection |
| `browser` | 3 queues with 3, 1 and 0 messages, 2 bindings, cap 2, 3 browsers or late events | 0.24 M | what is shown is what is stored, limits hold, deletions hit what was shown |
| `picker` | 2 brokers, 2 VPNs, 2 loads, 2 pages | 0.75 M | what is confirmed was listed, the cache is whole, lists only grow |

Why the bounds are enough to be interesting. *Copy engine*: with HIGH = 2 and
three messages the browser pauses and resumes; LOW = 0 is the edge at
which only the last acknowledgement resumes it; one arrival is enough for drift,
for a consumed newest and for a count that agrees by accident; a burst of one
delivers a message to a paused run. *Publisher*: three calls on one key are a
send, its resend and a late answer of either; the fourth runs beside them.
*Forwarding*: with three clicks the loops of two resends overlap on the same
rows, and a key is sent while in flight. The run has a view (`Seen`) that leaves
out what neither a step nor a property depends on: how a settled call settled,
and the broker's rejections. *Verification*: with a bind timer of three ticks
and an idle timer of one, four messages can keep a browse going past the bind
timer. *Dialog*: the second probe can start while an abandoned one is still to
land, or take the place of an aborted one; the second run starts beside the first;
two queues are the one probed and the one the session has moved to meanwhile.
*Connections*: a third session can be
created while events of the first two are to come, and a fourth after that.
*Destination*: two sessions are one that closes and one that replaces it. The two brokers,
and the two VPNs, can be exchanged (`Symmetry`): no constant and no definition
tells them apart, and the run has no temporal property. *SEMP*: three brokers are
the one connected, the one denied late and the one whose credentials are wide; two
loads of two pages are one that is replaced between its pages. *Browser*: one
queue more than may be bound and one message more than the cap keeps; three
browsers leave one queue bound twice, and every browser saved is one more late
event. *Picker*: the second picker is the one that can take the pages of the
first, of the same generation.

`CHECK_DEADLOCK FALSE` is set in all of them because the systems come to rest: a
run ends, all calls are made, all probes and sessions are used up.

Fairness, the same everywhere: the JavaScript runtime is fair and nobody else. It
runs queued microtasks and due timers (`DrainAndFinish`, `DrainPoll`,
`IdleTimeout`, `AckTimeout`, the pauses of a send loop, `Tick`, the 10 s and 30 s
timers of the handoff). Brokers, SDK and user owe nothing. `CopyModal` is fair to
the end of a probe and of a run instead, as it sees these as single steps: that a
browse ends is `BrowseEnds` of `VerifySource`, that a run ends is `RunEnds` of
`CopyEngine`. For a SEMP probe it is an assumption: `fetch` has no timeout in
this code, so a SEMP server that accepts a request and never answers keeps
Refresh disabled until Cancel.

## 5. Where code and documents disagree

The run `doc_destination` ends in a counterexample. `ui-modal.ts` 196-199 shows
where a run will publish, and `user-guide.md` 259 has destinations that are not
the same broker and VPN use a connection of their own. `service-copy.ts` 91 takes
`destPublisher ?? primaryPublisher` when the run starts: if the destination
session goes down between Next and Start, or during a run whose end enables Next
again without asking (`ui.ts` 484), the messages go to the queue of that name on
the primary broker. The other way round, a session that is still closing, or comes
up after Same VPN was switched on (`ui-events.ts` 107), is used although the form
says the primary one. And the end of a run enables the Same VPN box with Same
broker off (`ui.ts` 487), against `ui.ts` 277-278: a click then sets `sameVpn` alone
(`ui-events.ts` 92), which enables Next without a destination session
(`module.ts` 239), and the run publishes to the primary one: what `Misled` names.

Met while modelling, without a run of their own; the models behave the same way:

* A late acknowledgement, after the browser was disconnected, counts without a
  removal (`service-copy.ts` 481), so that a move may be reported completed with
  messages left on the source, against `user-guide.md` 298.
* `service-verify.ts` 470-478: the bind timer is not cleared by UP, and every
  message pushes the idle timer back; a browse that takes longer than 10 s fails
  with "timed out".
* After Escape, another queue name and Next, the probe of the first queue lands in
  the slot of the second (`ui-modal.ts` 125) and the run is bounded by another
  queue's count and ids, against `user-guide.md` 276: what `PoliteSnapshot` exempts.
* A session that moves to another VPN for a picked source queue rewrites the source
  queue when it gets there, also under the open dialog (`queue-copy/module.ts`
  325-330): the run is then of the new queue, bounded by the snapshot of the old one,
  against `user-guide.md` 276. The request can be made before Next is clicked, as the
  page stays usable while the old session goes down. Refresh asks through the VPN and
  the SEMP connection of when the dialog was opened. The exemption is `moved`.
* A request for a VPN outlives a connection attempt that failed, by up to 30 s, and
  is served by whatever connection comes next; "already on that VPN" is decided by
  the form field (`connections/module.ts` 588, 607 against `architecture.md` 94):
  what `PoliteHandoff` exempts.
* The destination form: locks follow toggles and events of the primary connection
  (`ui.ts` 339-345, 372-374), a session stays where it is (`ui-events.ts` 107, 202).
* With Same broker on the dialog names the broker of the SEMP connection
  (`ui-modal.ts` 316-318), while the run publishes to that of the primary session;
  `PublishesWhereShown` promises the latter.
* The Same VPN box: it is unticked, with `sameVpn` still on, while Same broker is off
  (`ui.ts` 286-288). The end of a run enables fields that the form keeps disabled
  with both Sames on, and Enter in them clicks a Connect button that is only hidden
  (`ui-events.ts` 157-172).
* `service-copy.ts` 322-330 takes for granted that nothing is in flight when the
  idle timer fires. It is armed just before the acknowledgement timer of the last
  message, with the same 30 s, and fires first; a run whose last acknowledgement
  is missing therefore ends as a count mismatch, "drained by another consumer"
  (`service-copy.ts` 203), with nothing drained.
* With the newest id unknown the boundary is off (`service-copy.ts` 397):
  arrivals are copied and can make up the count.
* Publishes overlap up to HIGH, where `user-guide.md` 285 has one at a time; a
  later browser error replaces the text of the first (`service-copy.ts` 344).
* `solace-publisher.ts` 228-232 calls a timer without an entry unreachable. A
  `send` with a key in flight overwrites the entry (241); the older timer then
  settles the newer call and that call's own timer finds nothing and throws. The
  forward dialog does this when two resend loops overlap: the button is enabled
  by the statuses of the previous round (`ui-forward.js` 205), and a loop sends
  rows that are SENDING again (`ui-events.ts` 55). Rows still come to an end, as
  the run `forwarding` shows.
* The late ACK of a send that timed out settles the resend under the same key
  (`solace-publisher.ts` 183): the message was accepted once, which is what
  `SuccessIsAccepted` says, though perhaps at the destination typed in before.
* Closing the forward dialog does not stop its loop.
* After Escape during a run: `RefreshIdle`, a mode changed while a run goes on
  (`service-copy.ts` 475 reads it at each acknowledgement), two runs that share
  one job, and a second Cancel that closes the dialog instead of cancelling
  (`ui-modal.ts` 291-297). A count that is unknown passes the start gate
  (`ui-modal.ts` 185); the run then ends as a count mismatch.
* `sempFetch` encodes credentials with `btoa` (`kernel.ts` 258), the validation in
  UTF-8 (`semp-client.ts` 58): a name outside Latin-1 validates, and then every
  request throws; one within is refused with a 401, which disconnects.
* A 401 leaves the button saying Disconnect (`kernel.ts` 255-280), and the 401 of a
  request of an earlier connection takes down the one in use. A load outlives its
  connection and asks the next one for its next page; `RowsAreOfConnection` holds
  because the explorer then finds that it is not wanted.
* The picker shows a list that ended early, by a disconnect, as loaded; the end of
  the VPN list unmakes a choice; a refresh leaves Confirm enabled; pages of an
  earlier picker are merged into a later one of the same generation
  (`queue-picker/index.ts` 165).
* A bind refused at the limit leaves an empty store (`queue-browser/service.ts`
  43), and a browse that fails to connect ends whatever browser its queue has.
* Filters: a `*` in the content filter is literal
  (`queue-browser/state.js` 129, `user-guide.md` 156); `*` takes no line end
  (`utils.ts` 50, `user-guide.md` 162); `*` also matches within a level
  (`user-guide.md` 331); an empty topic has one level, not zero (`utils.ts` 105).
* Queue discovery, in no build variant, would cache a list that ended after a
  disconnect, against its comment at `queue-discovery/module.ts` 270.

## 6. Proofs

All for every value of the constants, under the assumption named in each module.

**Copy engine**, for any `SnapshotSize`, `MaxId`, marks with `0 <= Low < High`,
burst and set of run parameters.
`CopyEngineProofs` proves the inductive invariant
`IInv == TypeOK /\ Fresh /\ Answered /\ Counted`. `TypeOK` alone is not
inductive: `inFlight - 1` stays natural only because `inFlight` is the number of
publishes whose handler has not finished (`Counted`); counting a new publish
needs that its message was not published before, which holds because the cursor
only moves up (`Fresh`); and that what is counted has arrived needs that a
publish resolves only by an acknowledgement (`Answered`). One lemma per action or
group of actions shows the step; `TypeCorrect` and `CountersCorrect` follow.

The accounting carries `NothingLost` (with `Removal`: a removed message
is a confirmed one), `HeadGate` (with `Heads`: what the two flags of the handler
stand for), `BlameIsTrue`, `AlwaysWoken` and `WindowBounded` (together inductive:
the pause is lifted in time because the window is full when it is set),
`ReportedOnce`, `ReasonStays` (with `Unstarted` and `Ending`: where the drain is
says whether the run stops and has ended) and `ErrorsHaveReasons`.

`BlameIsTrue` says that a run which ends because the recorded newest is gone has not
published that message itself, and that it is not on the queue. It needs where the
reader stands (`Passed`): before the newest until it has been seen, and past it once
it was given up, with what is on the queue numbered upwards; so own clones that come
back while the newest is in flight do not pass for its absence.

The last are that no late answer changes a report
(`ReportKept`), that nothing is published after a stop (`NothingAfterStop`), that
a completed run with consistent figures delivered the whole snapshot
(`CompletedIsComplete`: the confirmed messages lie within the snapshot and are as
many), and the refinement `Spec => Job!SafeSpec`.

**Publisher** (`PublisherProofs`), for any calls, keys and assignment of keys.
The map, the timers and the open promises determine each other: an entry is of an
open call under its own key, an open call has its entry and its timer, and a
timer belongs to the entry under its key. That is inductive together with
`TypeOK`, and needs that a key in flight is not sent again. `TimerFinds`,
`MapIsInFlight` and `DisposeEmpties` are its parts; `AnswersAreRight` adds that
with a key of its own a call's entry can only be settled by its own answer.

**Forward dialog** (`BrowserPageProofs`), for any dialogs without a message in
common and any number of clicks. Resends put keys in flight again, so that open
promises and armed timers may have lost their entry, and most of what holds of
the publisher alone does not hold here. What remains is enough: an entry is in
flight, under its own message and timed (`Entries`), a message with a green check
has none (`Checked`), a row with a spinner has one (`Spinning`), and dialogs to
come are untouched (`Untouched`). `SuccessAccepted`, `SpinnerBacked` and
`SuccessFinal` follow.

**Verification** (`VerifyProofs`), for any number of messages and any two timers.
The invariant adds to the safety properties which states, browser and timers
belong to which path (`Paths`), what may be known before the end (`Known`), that
the count of a browse fits below its cursor (`Tallied`), and what has been counted
(`Counted`). `CountIsBounded` rests on the last: ids only grow, so whatever has come
since the first SEMP call is newer than all it counted, and the newest id asked for
later is no older than any of them that is left; and what a browser has counted lies
between its oldest and its cursor.
`SettleStep` is the step of all five ways to settle. `ResultIsFinal` is the
action property: only UP comes late and writes, and then the queue was not
verified, because a verified one was bound before.

**Copy dialog** (`CopyModalProofs`), for any queues and any number of probes and
runs. That an armed Start button stands over a settled verdict (`Armed`) needs
nothing of the user, and carries `RunWasAllowed` through every Escape: what lands
late overwrites the verdict and re-evaluates the button in one step. `StartIsGated`
and `PoliteSnapshot` need `Polite`: while the dialog is left by its buttons, a
flying probe is the one the open dialog waits for, about the queue in the form unless
the session has moved since Next, and an aborted one finds no slot. Escape breaks
exactly that.

**Connections** (`ConnectionsProofs`), for any VPNs and any number of sessions.
`NoStraySession`, `ModulesFollow` and `AttemptIsKnown` are inductive together
with `TypeOK`, that the factory never keeps a session that is gone
(`SessionKept`) and that each session has a VPN (`VpnsKnown`): an old session's
events act on the new one, and the proof shows that they then end it and tell
everyone so. `HandoffRight` needs in addition what a request that waits implies
while the user keeps off the form.

**Destination** (`DestinationProofs`), for any brokers and VPNs and any number of
sessions and probes. Only the factory's session is connecting or up (`OneLive`),
the page's own is that one or on its way down (`DestKept`), and the form is filled
in where it may be used (`Filled`); with these `ButtonsBacked` and `GatesFresh`
follow action by action. `PublishesRight` rests on a chain that holds unless
`slipped` (`InTune`): the session in use was asked for what the form still says and
only with a Same off (`AskedFor`), the form agrees with the primary broker when a
session can be asked for (`FormAgrees`; its host is open for an edit only after a run,
which leaves a session to disconnect, `HostGuarded`), the dialog with the form (`DialogTells`), and Next with there being a
session or Same VPN on (`NextHasSession`), with Same broker on or off.

**Kernel and SEMP** (`SempProofs`), for any modules, brokers, loads and
pages. `StartComplete`: a module listens for its own event only, and what is
announced during the start is held until all installs are over, whichever fail and
whenever JSZip comes; that there is a first module to show needs the least element
of a set of positions (`WellFoundedInduction`). `ConnectionValidated` and
`ButtonTruthful` need that at most one validation is under way, because the button
is disabled meanwhile, and that a denial is remembered only while disconnected.
`RowsBelong`: at most one load is the explorer's own, and its pages are of what is
connected now (`LoadsAreOfConnection`). `EndHasCause` is the action property.

**Queue picker** (`SempProofs`), for any brokers, lists of pages, number of loads and
generations. `PickerInv` says of the lists on show and of the cache that a VPN's
queues are of that VPN, always, and of the broker they are listed for, unless pages
have crossed from one picker to the next (`ShownRight`, `KeptRight`); it cannot be
shown of them alone, because a page that arrives hands over all that its load has
collected. So `FlightsRight` follows every load in flight. One that the open picker
began asks the picker's broker, for as long as that is connected: with the primary
connection down it stops. It has collected exactly the pages that came before
(`OwnLoad`), no less than the list on show has (`Leads`), and no other load of queues
has its generation (`Distinct`), which is what keeps `ListsOnlyGrow`; and when its
last page came, what it has is the whole list (`CacheIsWhole`). Of loads that an
earlier picker began nothing is known but the types and the VPN, and that is enough
for a choice to be of the selected VPN whatever crosses.

**Browsers, store and table** (`BrowserPageProofs`), for any queues and messages, any
binding limit, cap and filter conditions, and any number of browsers. The
invariant is in two halves. `StoreInv`: browsers are created one after the other,
each of the page's browsers is bound to its queue, and every live one is the
page's (`Bindings`); that the number of queues bound stays within the limit is
counted on the map from queues to browsers, which a late event cannot add to
(`LimitsKept`). As long as no browser spoke after its disconnect, what is stored of
a queue was delivered by the browser that is bound to it now (`Delivered`), so that
the message it delivers next is none of those stored and each comes once.
`ViewInv`: both lists and every row are of the selected queue, the Delete buttons
are as the broker's permission says (`Allowed`), and while no late event has come
the lists and the table are the store's array under the filter (`Exact`).
`ShownStored` and `DeletesShown` follow action by action. The hard step
is a message at the cap with a filter set: the oldest leaves array, filtered copy
and table, each by another operation (`Tail`, `RemoveFirst`, `removeMessageRow`),
and the three must agree on what is left; they do because no message is stored
twice. The lemmas on sequences behind it say what `EntriesAt` returns, keeps
and commutes with. They are inductions over the length of a sequence, for a *set* of
sequences instead of a predicate (`SeqsInduction`: the least length of a sequence
outside the set), because the prover cannot instantiate the library's induction theorems.

**Topic filters** (`SempProofs`), for any characters and inputs of any length.
`LevelsIntersectRight`: two levels intersect exactly when some text is of both. A text
is of a pattern when it can be cut into a piece for each character; moving the cuts
up or down by one character shows that whether there is a common text follows the
recursion of `levelsIntersect` (`CommonAt`). At a star against a character that takes
an induction over the length of the text, and that the recursion has just one
solution (`RecursionIsCommon`) one over what is left of both patterns.
`TopicFilterRight`: a stored topic is listed exactly when some name is of the filter
and of the topic. The stars of a stored level that are not its last character become
`Nul`; renaming the stars of a text in the same way shows that they then stand for
themselves (`StoredLevels`). The walk over the levels agrees exactly when it meets no
disjoint levels before a `>` or the end of both (`WalkIsAgree`), and then a name is
built from the words the levels have in common, level by level (`NameBuilt`). What
the theorem needs of the code is that no topic contains the sentinel, and that a
topic has at least one level.

Some theorems are about properties that no run lists. They cover every instance,
and the runs are kept for the questions a small instance answers better: the type
invariants, `CountersAgree`, `OldestGoesFirst`, `ReportIsFinal`, `CompletesOnce`,
`FirstStopWins`, `ErrorsExplained`, `NoPublishAfterStop`, `TimerFindsEntry`,
`EntriesAreInFlight`, `DisposedIsEmpty`, `SettledIsFinal`, `BrowsedRange` and
`AttemptIsKnown`.

Every safety property of a passing run is a theorem, the action properties too.
Only model-checked: liveness (`RunEnds`, `CancelIsHonoured`, the fairness of
`CopyJob!Spec`, `EverySendSettles`, `SendingEnds`, `BrowseEnds`,
`RefreshComesBack`, `RequestEnds`), which is out of the prover's reach; and how the
column filters of the explorer relate to each other and to the topic filter
(`FiltersAgree`), which TLC evaluates over all short inputs.

## 7. Not modelled

Page markup, styles and rendering; the logger, toasts and mocks; build scripts,
build variants and module registry: no state that a property could be about.

* *Copy engine*: the text of log and error messages (an error is one of a few
  kinds), message bodies and properties (`cloneMessage` either succeeds or
  throws), a message without an id. Throws of `createQueueBrowser` outside a `try`
  block leave a job running or a probe checking for ever, and a mode changed
  during a run (`service-copy.ts` 475) is read at each acknowledgement: both are
  listed as hazards.
* *Verification*: sizes and quotas, and the XML as text.
* *Copy dialog and destination*: whether a probe uses SEMP or a browser, which both
  end in the same verdicts, and the fields that do not say where a session goes.
* *Connections*: the settings dialogs, saving, the advanced fields and the TLS probe.
* *Queue browser*: downloads, tags, the flavour of a payload and the properties of
  a message.
* *Explorer and picker*: SEMP's XML and JSON as text, sorting and drawing.
* *Queue discovery*: part of no build variant (`developer-guide.md` 120); if it were,
  its own choice of a VPN would overwrite `selectedVpn`, which the copy dialog shows.
* *Gateway*: a separate program in Go that keeps no state between requests.
