----------------------------- MODULE CopyModal -----------------------------
(***************************************************************************)
(* The Confirm Queue Copy dialog (ui-modal.ts) over the copy form: it      *)
(* probes the source queue, decides whether the run may start, starts it,  *)
(* cancels it, and shares one state.verify and one state.job with whatever *)
(* probes and runs are still under way.                                    *)
(*                                                                         *)
(* A probe is VerifySource and a run is CopyEngine, seen from the dialog:  *)
(* a probe lands some verdict, "cancelled" if it was aborted, and a run    *)
(* ends.  A verdict carries the queue it is about, which the code does not *)
(* record.                                                                 *)
(*                                                                         *)
(* The dialog is a native <dialog> shown with showModal and has no handler *)
(* of its own for the Escape key, which closes it without cancelCopyModal. *)
(* escaped remembers that the user has done so: what goes wrong only then  *)
(* is told apart from what goes wrong with the dialog's own buttons.       *)
(*                                                                         *)
(* A queue is a name in a VPN, and sourceQueue the one that the form names *)
(* in the VPN of the session.  So it becomes another one when the session  *)
(* moves to another VPN, which a pick there asks the Connections page for  *)
(* (its handler of connection:check-connection): the session is told to go *)
(* and the page stays usable until it is gone, so that the dialog may open *)
(* before the new session is up and copy:vpn-switched rewrites the form.   *)
(*                                                                         *)
(* Bounds: MaxProbes probes and MaxRuns runs are ever started.             *)
(***************************************************************************)
EXTENDS Naturals, Sequences

CONSTANTS Queues, MaxProbes, MaxRuns, None

ProbeIds == 1..MaxProbes
RunIds == 1..MaxRuns
Modes == {"copy", "move"}

\* What a probe says of the queue: not verified, or verified and of what use.
\* "no count" is a verified queue whose message count is unknown.
Verdicts == {"failed", "empty", "no-access", "read-only", "read-write", "no count"}
Outcome == [queue : Queues, verdict : Verdicts \cup {"cancelled"}]

\* state.verify with the probe it belongs to, state.job, and what is kept of both.
Slots == [probe : ProbeIds, inProgress : BOOLEAN, result : Outcome \cup {None}]
Jobs == [running : BOOLEAN, cancelRequested : BOOLEAN]
Probes == [queue : Queues, status : {"flying", "aborted", "landed"}]
Runs == [queue : Queues, mode : Modes, snapshot : Outcome, running : BOOLEAN, moved : BOOLEAN]

\* A move of the session to another VPN: the queue to go on with, None if nobody waits
\* for it (any more) or another page asked for it; and if the old session has gone.
Handoffs == [queue : Queues \cup {None}, connecting : BOOLEAN]

ASSUME ModalAssumption ==
  /\ Queues # {} /\ MaxProbes \in Nat /\ MaxRuns \in Nat
  /\ None \notin Outcome /\ None \notin Slots /\ None \notin Jobs
  /\ None \notin Queues /\ None \notin Handoffs

VARIABLES session,     \* there is a primary session
          handoff,     \* the move to another VPN that is under way
          sourceQueue, \* state.sourceQueue
          mode,        \* state.mode
          form,        \* the form's inputs are enabled
          next,        \* the form's Next button is enabled
          open,        \* the dialog is showing
          section,     \* the part of it that is shown
          start,       \* its Start button is enabled
          refresh,     \* its Refresh button is enabled
          verify,      \* state.verify; probe is the one its AbortController belongs to
          probes,      \* every probe so far, by number
          job,         \* state.job, which all runs share
          runs,        \* every run so far, by number
          escaped,     \* history: Escape has closed the dialog
          moved        \* history: the source queue became another one after Next

formVars == <<session, handoff, sourceQueue, mode, form, next, escaped>>
dialogVars == <<open, section, start, refresh>>
vars == <<session, handoff, sourceQueue, mode, form, next, open, section, start, refresh,
          verify, probes, job, runs, escaped, moved>>

Init ==
  /\ session \in BOOLEAN /\ handoff = None /\ sourceQueue \in Queues /\ mode = "copy"
  /\ form = TRUE /\ next = TRUE
  /\ open = FALSE /\ section = "verify" /\ start = FALSE /\ refresh = FALSE
  /\ verify = None /\ probes = <<>> /\ job = None /\ runs = <<>>
  /\ escaped = FALSE /\ moved = FALSE

Flying(p) == p \in DOMAIN probes /\ probes[p].status = "flying"
Running == {r \in DOMAIN runs : runs[r].running}

-----------------------------------------------------------------------------
(* The form, which is inert while the dialog shows.                        *)

FormReachable == ~open /\ session /\ form

EditSource ==
  /\ FormReachable
  /\ \E q \in Queues \ {sourceQueue} : sourceQueue' = q
  /\ next' = TRUE
  /\ UNCHANGED <<session, handoff, mode, form, verify, probes, job, runs, escaped, moved>>
  /\ UNCHANGED dialogVars

EditMode ==
  /\ FormReachable
  /\ mode' \in Modes \ {mode}
  /\ UNCHANGED <<session, handoff, sourceQueue, form, next, verify, probes, job, runs, escaped,
                 moved>>
  /\ UNCHANGED dialogVars

-----------------------------------------------------------------------------
(* The primary connection.  Whatever comes of it, refreshFromPrimary       *)
(* enables Next again.                                                     *)

BehindForm == UNCHANGED <<mode, form, verify, probes, job, runs, escaped>> /\ UNCHANGED dialogVars

\* opInProgress of a request of this page.
Awaited == handoff # None /\ handoff.queue # None

\* A queue of another VPN is picked, or browsed from another page: one request at a
\* time.  The session may have gone while the picker was open.
CheckConnection ==
  /\ ~open /\ ~Awaited
  /\ \E q \in Queues \cup {None} :
       /\ q # None => form
       /\ handoff' = [queue |-> q, connecting |-> ~session]
  /\ UNCHANGED <<session, sourceQueue, next, moved>> /\ BehindForm

\* The handler of client:connected and, if a request waits for it, copy:vpn-switched in
\* the same emit.  With the dialog shut the user may have connected to any VPN.
PrimaryConnected ==
  /\ session' = TRUE /\ next' = TRUE
  /\ IF handoff # None /\ handoff.connecting
     THEN /\ sourceQueue' \in IF handoff.queue = None THEN Queues ELSE {handoff.queue}
          /\ handoff' = None
     ELSE /\ sourceQueue' \in IF open THEN {sourceQueue} ELSE Queues
          /\ UNCHANGED handoff
  /\ moved' = (moved \/ sourceQueue' # sourceQueue)
  /\ BehindForm

\* client:disconnected: the old session has gone, or the new one did not come up.
PrimaryDisconnected ==
  /\ session' = FALSE /\ next' = TRUE
  /\ handoff' = IF handoff = None \/ handoff.connecting THEN None
                ELSE [handoff EXCEPT !.connecting = TRUE]
  /\ UNCHANGED <<sourceQueue, moved>> /\ BehindForm

\* semp:connected, semp:disconnected.
PrimarySempEvent ==
  /\ next' = TRUE
  /\ UNCHANGED <<session, handoff, sourceQueue, moved>> /\ BehindForm

\* Nobody waits any longer, after 10 s for the old session to go or 30 s for the new one,
\* which may still come up.
HandoffTimesOut ==
  /\ Awaited
  /\ handoff' = IF handoff.connecting THEN [handoff EXCEPT !.queue = None] ELSE None
  /\ UNCHANGED <<session, sourceQueue, next, moved>> /\ BehindForm

-----------------------------------------------------------------------------
(* Probes.                                                                 *)

\* Mutant: the mode is not looked at.
BugGate(r) ==
  /\ r # None
  /\ r.verdict \in {"read-only", "read-write", "no count"}

\* evaluateStartGate.
Gate(r) ==
  /\ r # None
  /\ \/ r.verdict \in {"read-write", "no count"}
     \/ r.verdict = "read-only" /\ mode = "copy"

\* Mutant: the buttons stay as the previous probe left them.
BugRunVerify(ps, q) ==
  LET p == Len(ps) + 1
  IN  /\ session /\ p \in ProbeIds
      /\ verify' = [probe |-> p, inProgress |-> TRUE, result |-> None]
      /\ probes' = Append(ps, [queue |-> q, status |-> "flying"])
      /\ UNCHANGED <<start, refresh>>

\* A probe of q, into ps; without a session it has failed at once.
runVerify(ps, q) ==
  LET p == Len(ps) + 1
      failed == [queue |-> q, verdict |-> "failed"]
  IN  /\ p \in ProbeIds
      /\ start' = FALSE
      /\ IF session
         THEN /\ verify' = [probe |-> p, inProgress |-> TRUE, result |-> None]
              /\ probes' = Append(ps, [queue |-> q, status |-> "flying"])
              /\ refresh' = FALSE
         ELSE /\ verify' = [probe |-> p, inProgress |-> FALSE, result |-> failed]
              /\ probes' = Append(ps, [queue |-> q, status |-> "landed"])
              /\ refresh' = TRUE

\* Abort of the controller in state.verify; no effect on a probe that has landed.
AbortCurrent ==
  IF verify # None /\ Flying(verify.probe)
  THEN [probes EXCEPT ![verify.probe].status = "aborted"]
  ELSE probes

openCopyModal ==
  /\ ~open /\ session /\ next
  /\ open' = TRUE /\ section' = "verify" /\ moved' = FALSE
  /\ runVerify(probes, sourceQueue)
  /\ UNCHANGED <<job, runs>> /\ UNCHANGED formVars

\* The probe takes the queue's name from the form, but the VPN and the SEMP context from
\* when the dialog was opened: once the session has moved it may be of any queue.
Refresh ==
  /\ open /\ section = "verify" /\ refresh
  /\ \E q \in IF moved THEN Queues ELSE {sourceQueue} : runVerify(AbortCurrent, q)
  /\ UNCHANGED <<open, section, job, runs, moved>> /\ UNCHANGED formVars

\* Mutant: a probe that failed leaves Refresh disabled.
BugLand(p) ==
  /\ p \in DOMAIN probes /\ probes[p].status \in {"flying", "aborted"}
  /\ probes' = [probes EXCEPT ![p].status = "landed"]
  /\ \E v \in IF Flying(p) THEN Verdicts ELSE {"cancelled"} :
       IF verify = None
       THEN UNCHANGED <<verify, start, refresh>>
       ELSE /\ verify' = [verify EXCEPT !.inProgress = FALSE,
                                        !.result = [queue |-> probes[p].queue, verdict |-> v]]
            /\ start' = Gate(verify'.result)
            /\ refresh' = (v \notin {"failed", "cancelled"})
  /\ UNCHANGED <<open, section, job, runs, moved>> /\ UNCHANGED formVars

\* The probe's result lands in whatever state.verify is by then, unless there is
\* none, and is rendered into the dialog whatever it shows.
Land(p) ==
  /\ p \in DOMAIN probes /\ probes[p].status \in {"flying", "aborted"}
  /\ probes' = [probes EXCEPT ![p].status = "landed"]
  /\ \E v \in IF Flying(p) THEN Verdicts ELSE {"cancelled"} :
       IF verify = None
       THEN UNCHANGED <<verify, start, refresh>>
       ELSE /\ verify' = [verify EXCEPT !.inProgress = FALSE,
                                        !.result = [queue |-> probes[p].queue, verdict |-> v]]
            /\ start' = Gate(verify'.result)
            /\ refresh' = TRUE
  /\ UNCHANGED <<open, section, job, runs, moved>> /\ UNCHANGED formVars

-----------------------------------------------------------------------------
(* The run.                                                                *)

handleModalStart ==
  /\ open /\ section = "verify" /\ start /\ session
  /\ Len(runs) < MaxRuns
  /\ form' = FALSE /\ next' = FALSE
  /\ section' = "run" /\ start' = FALSE /\ refresh' = FALSE
  /\ runs' = Append(runs, [queue |-> sourceQueue, mode |-> mode, snapshot |-> verify.result,
                           running |-> TRUE, moved |-> moved])
  /\ job' = [running |-> TRUE, cancelRequested |-> FALSE]
  /\ UNCHANGED <<session, handoff, sourceQueue, mode, open, verify, probes, escaped, moved>>

\* The engine writes the final status into state.job, whosever job that is by
\* then, and its onComplete enables the form again.
RunEnds(r) ==
  /\ r \in Running
  /\ runs' = [runs EXCEPT ![r].running = FALSE]
  /\ job' = [job EXCEPT !.running = FALSE]
  /\ form' = TRUE /\ next' = TRUE
  /\ UNCHANGED <<session, handoff, sourceQueue, mode, verify, probes, escaped, moved>>
  /\ UNCHANGED dialogVars

-----------------------------------------------------------------------------
(* Leaving the dialog.                                                     *)

\* Mutant: the dialog is left without aborting its probe.
BugCancelVerify ==
  /\ open /\ verify # None /\ verify.inProgress
  /\ verify' = None
  /\ open' = FALSE
  /\ UNCHANGED <<section, start, refresh, probes, job, runs, moved>> /\ UNCHANGED formVars

CancelVerify ==
  /\ open /\ verify # None /\ verify.inProgress
  /\ probes' = AbortCurrent
  /\ verify' = None
  /\ open' = FALSE
  /\ UNCHANGED <<section, start, refresh, job, runs, moved>> /\ UNCHANGED formVars

Cancellable == job # None /\ job.running /\ ~job.cancelRequested

CancelRun ==
  /\ open /\ ~(verify # None /\ verify.inProgress)
  /\ Cancellable
  /\ job' = [job EXCEPT !.cancelRequested = TRUE]
  /\ UNCHANGED <<verify, probes, runs, moved>> /\ UNCHANGED dialogVars /\ UNCHANGED formVars

\* After the run, before it, and also on the second click during it.
CancelCloses ==
  /\ open /\ ~(verify # None /\ verify.inProgress)
  /\ ~Cancellable
  /\ open' = FALSE
  /\ UNCHANGED <<section, start, refresh, verify, probes, job, runs, moved>>
  /\ UNCHANGED formVars

Escape ==
  /\ open
  /\ open' = FALSE /\ escaped' = TRUE
  /\ UNCHANGED <<session, handoff, sourceQueue, mode, form, next, section, start, refresh,
                 verify, probes, job, runs, moved>>

\* An abort rejects the probe's fetch, or settles its promise, at once: its
\* result lands before anything else happens.
Aborted == {p \in DOMAIN probes : probes[p].status = "aborted"}

Next ==
  \/ \E p \in Aborted : Land(p)
  \/ /\ Aborted = {}
     /\ \/ EditSource \/ EditMode \/ CheckConnection \/ HandoffTimesOut
        \/ PrimaryConnected \/ PrimaryDisconnected \/ PrimarySempEvent
        \/ openCopyModal \/ Refresh \/ handleModalStart
        \/ CancelVerify \/ CancelRun \/ CancelCloses \/ Escape
        \/ \E p \in ProbeIds : Land(p)
        \/ \E r \in RunIds : RunEnds(r)

\* A probe comes to an end (VerifySource!BrowseEnds) and so does a run.
Fairness ==
  /\ \A p \in ProbeIds : WF_vars(Aborted \subseteq {p} /\ Land(p))
  /\ \A r \in RunIds : WF_vars(Aborted = {} /\ RunEnds(r))

SafeSpec == Init /\ [][Next]_vars
Spec == SafeSpec /\ Fairness

-----------------------------------------------------------------------------
TypeOK ==
  /\ session \in BOOLEAN /\ sourceQueue \in Queues /\ mode \in Modes
  /\ handoff \in Handoffs \cup {None} /\ moved \in BOOLEAN
  /\ form \in BOOLEAN /\ next \in BOOLEAN /\ open \in BOOLEAN /\ escaped \in BOOLEAN
  /\ section \in {"verify", "run"} /\ start \in BOOLEAN /\ refresh \in BOOLEAN
  /\ verify \in Slots \cup {None} /\ job \in Jobs \cup {None}
  /\ probes \in Seq(Probes) /\ Len(probes) <= MaxProbes
  /\ runs \in Seq(Runs) /\ Len(runs) <= MaxRuns

\* While the dialog is left by its buttons, Start can be clicked only on the settled
\* verdict of a probe that allows the chosen mode, with no other probe in flight that could
\* land on top of it; and it is of the source queue, unless that moved under the dialog.
StartIsGated ==
  (~escaped /\ open /\ section = "verify" /\ start) =>
     /\ ~verify.inProgress
     /\ Gate(verify.result)
     /\ moved \/ verify.result.queue = sourceQueue
     /\ \A p \in DOMAIN probes : ~Flying(p)

\* user-guide.md:276, a run is bounded by a snapshot of the queue it reads.
SnapshotIsOfQueue == \A r \in DOMAIN runs : runs[r].snapshot.queue = runs[r].queue

\* So it is as long as the dialog is only left by its buttons, but for a run whose dialog
\* was open when the session moved to another VPN.
PoliteSnapshot ==
  ~escaped => \A r \in DOMAIN runs : runs[r].moved \/ runs[r].snapshot.queue = runs[r].queue

\* No run starts on a queue found unusable, empty or inaccessible, and no move
\* on one that is read-only, whichever probe found that.
RunWasAllowed ==
  \A r \in DOMAIN runs :
     /\ runs[r].snapshot.verdict \in {"read-only", "read-write", "no count"}
     /\ runs[r].mode = "move" => runs[r].snapshot.verdict # "read-only"

\* The verify section never hangs: the user can always probe again.
RefreshComesBack ==
  (open /\ section = "verify") ~> (refresh \/ ~open \/ section # "verify")
=============================================================================
