--------------------------- MODULE CopyModalProofs ---------------------------
(* Proofs about the copy dialog, for any queues and any number of probes and *)
(* runs.                                                                     *)
EXTENDS CopyModal, SequenceTheorems, TLAPS

\* Start is on only over a settled verdict, which allows the chosen mode as long as
\* the dialog shows.
Armed == start => verify \in Slots /\ ~verify.inProgress /\ (open => Gate(verify.result))

\* Every run has found a job to write into.
HasJob == job = None => Len(runs) = 0

NoFlight == \A p \in ProbeIds : ~Flying(p)

\* As long as the dialog is left by its buttons, a probe that is in flight is the one
\* the open dialog waits for, about the source queue unless that has moved since; an
\* abort leaves a closed dialog without a slot to land in.
Polite ==
  ~escaped =>
    /\ \A p \in ProbeIds : Flying(p) =>
         /\ open /\ section = "verify"
         /\ verify \in Slots /\ verify.probe = p /\ verify.inProgress
         /\ moved \/ probes[p].queue = sourceQueue
    /\ (Aborted # {}) => ~open /\ verify = None
    /\ (open /\ section = "verify" /\ (refresh \/ start)) => NoFlight
    /\ (open /\ section = "verify" /\ start) => (moved \/ verify.result.queue = sourceQueue)

IInv == TypeOK /\ Armed /\ HasJob /\ RunWasAllowed /\ Polite /\ PoliteSnapshot

-----------------------------------------------------------------------------
\* A probe that starts: the sequence grows, the slot is its own, and Start is off.
LEMMA Probing ==
  ASSUME TypeOK, NEW ps \in Seq(Probes), Len(ps) = Len(probes), NEW q \in Queues,
         runVerify(ps, q)
  PROVE  /\ verify' \in Slots /\ verify'.probe = Len(ps) + 1
         /\ probes' \in Seq(Probes) /\ Len(probes') = Len(ps) + 1 /\ Len(probes') <= MaxProbes
         /\ \A p \in 1..Len(ps) : probes'[p] = ps[p]
         /\ probes'[Len(ps) + 1].queue = q
         /\ start' = FALSE /\ refresh' \in BOOLEAN
         /\ session => /\ verify'.inProgress /\ ~refresh'
                       /\ probes'[Len(ps) + 1].status = "flying"
         /\ ~session => probes'[Len(ps) + 1].status = "landed"
<1> USE ModalAssumption
<1>1. Len(ps) + 1 \in ProbeIds /\ Len(ps) \in Nat /\ start' = FALSE
  BY DEF runVerify, TypeOK
<1>2. CASE session
  <2>1. /\ verify' = [probe |-> Len(ps) + 1, inProgress |-> TRUE, result |-> None]
        /\ probes' = Append(ps, [queue |-> q, status |-> "flying"])
        /\ refresh' = FALSE
    BY <1>2 DEF runVerify
  <2>2. [queue |-> q, status |-> "flying"] \in Probes
    BY <1>1 DEF Probes
  <2>3. verify' \in Slots /\ verify'.probe = Len(ps) + 1 /\ verify'.inProgress
    BY <1>1, <2>1 DEF Slots
  <2>4. /\ probes' \in Seq(Probes) /\ Len(probes') = Len(ps) + 1
        /\ \A p \in 1..Len(ps) : probes'[p] = ps[p]
        /\ probes'[Len(ps) + 1] = [queue |-> q, status |-> "flying"]
    BY <2>1, <2>2, AppendProperties
  <2>5. Len(probes') <= MaxProbes
    BY <1>1, <2>4 DEF ProbeIds, ModalAssumption
  <2>7. refresh' \in BOOLEAN /\ ~refresh'
    BY <2>1
  <2>6. probes'[Len(ps) + 1].queue = q /\ probes'[Len(ps) + 1].status = "flying"
    BY <2>4
  <2> QED BY <1>1, <1>2, <2>3, <2>4, <2>5, <2>6, <2>7
<1>3. CASE ~session
  <2>1. /\ verify' = [probe |-> Len(ps) + 1, inProgress |-> FALSE,
                      result |-> [queue |-> q, verdict |-> "failed"]]
        /\ probes' = Append(ps, [queue |-> q, status |-> "landed"])
        /\ refresh' = TRUE
    BY <1>3 DEF runVerify
  <2>2. /\ [queue |-> q, status |-> "landed"] \in Probes
        /\ [queue |-> q, verdict |-> "failed"] \in Outcome
    BY <1>1 DEF Probes, Outcome, Verdicts
  <2> QED BY <1>1, <1>3, <2>1, <2>2, AppendProperties DEF Slots, ProbeIds
<1> QED BY <1>2, <1>3

\* The probes after the current one, if it flies, has been aborted.
LEMMA Aborting ==
  ASSUME TypeOK
  PROVE  /\ AbortCurrent \in Seq(Probes) /\ Len(AbortCurrent) = Len(probes)
         /\ \A p \in 1..Len(probes) :
              /\ AbortCurrent[p].queue = probes[p].queue
              /\ AbortCurrent[p].status =
                   IF verify # None /\ p = verify.probe /\ Flying(p)
                   THEN "aborted" ELSE probes[p].status
<1>1. probes \in Seq(Probes) /\ Len(probes) \in Nat /\ DOMAIN probes = 1..Len(probes)
  BY DEF TypeOK
<1>2. CASE verify # None /\ Flying(verify.probe)
  <2>1. AbortCurrent = [probes EXCEPT ![verify.probe].status = "aborted"]
    BY <1>2 DEF AbortCurrent
  <2>2. verify.probe \in 1..Len(probes)
    BY <1>1, <1>2 DEF Flying
  <2>3. \A p \in 1..Len(probes) : probes[p] \in Probes
    BY <1>1
  <2>4. [probes[verify.probe] EXCEPT !.status = "aborted"] \in Probes
    BY <2>2, <2>3 DEF Probes
  <2>5. AbortCurrent = [probes EXCEPT ![verify.probe] =
                          [probes[verify.probe] EXCEPT !.status = "aborted"]]
    BY <2>1
  <2>6. AbortCurrent \in Seq(Probes) /\ Len(AbortCurrent) = Len(probes)
    BY <1>1, <2>2, <2>4, <2>5, ExceptSeq
  <2> QED BY <1>1, <1>2, <2>2, <2>3, <2>5, <2>6 DEF Probes
<1>3. CASE ~(verify # None /\ Flying(verify.probe))
  <2>1. AbortCurrent = probes
    BY <1>3 DEF AbortCurrent
  <2> QED BY <1>1, <1>3, <2>1
<1> QED BY <1>2, <1>3

\* The two sequences: their numbers, and what they hold.
LEMMA Sequences ==
  ASSUME TypeOK
  PROVE  /\ DOMAIN probes = 1..Len(probes) /\ Len(probes) \in Nat
         /\ \A p \in 1..Len(probes) : p \in ProbeIds /\ probes[p] \in Probes
         /\ DOMAIN runs = 1..Len(runs) /\ Len(runs) \in Nat
         /\ \A r \in 1..Len(runs) : runs[r] \in Runs
BY ModalAssumption DEF TypeOK, ProbeIds

\* The gate opens only on a verdict that a run may be bounded by.
LEMMA GateOpens ==
  ASSUME NEW r \in Outcome \cup {None}, Gate(r)
  PROVE  /\ r \in Outcome
         /\ r.verdict \in {"read-only", "read-write", "no count"}
         /\ mode = "move" => r.verdict # "read-only"
BY DEF Gate

-----------------------------------------------------------------------------
LEMMA Initially == Init => IInv
<1> SUFFICES ASSUME Init PROVE IInv
  OBVIOUS
<1> USE ModalAssumption DEF Init
<1>1. TypeOK
  <2>1. <<>> \in Seq(Probes) /\ <<>> \in Seq(Runs)
    OBVIOUS
  <2>2. /\ verify \in Slots \cup {None} /\ job \in Jobs \cup {None}
        /\ Len(probes) <= MaxProbes /\ Len(runs) <= MaxRuns
    OBVIOUS
  <2> QED BY <2>1, <2>2 DEF TypeOK, Modes
<1>2. Armed /\ HasJob /\ RunWasAllowed
  BY DEF Armed, HasJob, RunWasAllowed
<1>3. Polite /\ PoliteSnapshot
  BY DEF Polite, PoliteSnapshot, Aborted, Flying, NoFlight
<1> QED BY <1>1, <1>2, <1>3 DEF IInv

\* What leaves probes, runs, and the slot alone, and opens and enables nothing.
LEMMA Quiet ==
  ASSUME IInv, TypeOK', UNCHANGED <<verify, probes, runs>>,
         start' => start, open' => open, section' = section, refresh' = refresh,
         job' = None => job = None,
         open' => mode' = mode /\ (moved' \/ (sourceQueue' = sourceQueue /\ ~moved)),
         escaped' = FALSE => escaped = FALSE,
         ~escaped' => (open' = open \/ NoFlight)
  PROVE  IInv'
<1>1. Armed'
  BY DEF IInv, Armed, Gate
<1>2. RunWasAllowed'
  BY DEF IInv, RunWasAllowed
<1>3. PoliteSnapshot'
  BY DEF IInv, PoliteSnapshot, TypeOK
<1>4. Polite'
  BY DEF IInv, Polite, Aborted, Flying, NoFlight, TypeOK
<1>5. HasJob'
  BY DEF IInv, HasJob
<1> QED BY <1>1, <1>2, <1>3, <1>4, <1>5 DEF IInv

-----------------------------------------------------------------------------
\* The actions that start no probe and no run and land nothing.
LEMMA QuietSteps ==
  ASSUME IInv,
         \/ EditSource \/ EditMode \/ CheckConnection \/ HandoffTimesOut
         \/ PrimaryConnected \/ PrimaryDisconnected \/ PrimarySempEvent
         \/ CancelRun \/ CancelCloses \/ Escape \/ UNCHANGED vars
  PROVE  IInv'
<1> USE DEF IInv, formVars, dialogVars
<1>1. CASE EditSource
  <2>1. TypeOK'
    BY <1>1 DEF TypeOK, EditSource, FormReachable
  <2> QED BY <1>1, <2>1, Quiet DEF EditSource, FormReachable
<1>2. CASE EditMode
  <2>1. TypeOK'
    BY <1>2 DEF TypeOK, EditMode, FormReachable
  <2> QED BY <1>2, <2>1, Quiet DEF EditMode, FormReachable
<1>3. CASE PrimaryConnected
  <2>1. sourceQueue' \in Queues /\ handoff' \in Handoffs \cup {None}
    BY <1>3 DEF TypeOK, PrimaryConnected, Handoffs
  <2>2. moved' \in BOOLEAN /\ (moved' \/ (sourceQueue' = sourceQueue /\ ~moved))
    BY <1>3 DEF TypeOK, PrimaryConnected
  <2>3. TypeOK'
    BY <1>3, <2>1, <2>2 DEF TypeOK, PrimaryConnected, BehindForm
  <2> QED BY <1>3, <2>2, <2>3, Quiet DEF PrimaryConnected, BehindForm
<1>8. CASE PrimaryDisconnected
  <2>1. handoff' \in Handoffs \cup {None}
    BY <1>8 DEF TypeOK, PrimaryDisconnected, Handoffs
  <2>2. TypeOK'
    BY <1>8, <2>1 DEF TypeOK, PrimaryDisconnected, BehindForm
  <2> QED BY <1>8, <2>2, Quiet DEF PrimaryDisconnected, BehindForm, TypeOK
<1>9. CASE PrimarySempEvent
  <2>1. TypeOK'
    BY <1>9 DEF TypeOK, PrimarySempEvent, BehindForm
  <2> QED BY <1>9, <2>1, Quiet DEF PrimarySempEvent, BehindForm, TypeOK
<1>10. CASE CheckConnection
  <2>1. handoff' \in Handoffs \cup {None}
    BY <1>10 DEF TypeOK, CheckConnection, Handoffs
  <2>2. TypeOK'
    BY <1>10, <2>1 DEF TypeOK, CheckConnection, BehindForm
  <2> QED BY <1>10, <2>2, Quiet DEF CheckConnection, BehindForm
<1>11. CASE HandoffTimesOut
  <2>1. handoff' \in Handoffs \cup {None}
    BY <1>11 DEF TypeOK, HandoffTimesOut, Awaited, Handoffs
  <2>2. TypeOK'
    BY <1>11, <2>1 DEF TypeOK, HandoffTimesOut, BehindForm
  <2> QED BY <1>11, <2>2, Quiet DEF HandoffTimesOut, BehindForm, TypeOK
<1>4. CASE CancelRun
  <2>1. job' \in Jobs
    BY <1>4 DEF CancelRun, Cancellable, TypeOK, Jobs
  <2>2. TypeOK'
    BY <1>4, <2>1 DEF TypeOK, CancelRun
  <2> QED BY <1>4, <2>1, <2>2, Quiet, ModalAssumption DEF CancelRun, Cancellable
<1>5. CASE CancelCloses
  <2>1. TypeOK'
    BY <1>5 DEF TypeOK, CancelCloses
  <2>2. ~escaped => NoFlight
    BY <1>5, ModalAssumption DEF CancelCloses, Polite, NoFlight
  <2> QED BY <1>5, <2>1, <2>2, Quiet DEF CancelCloses
<1>6. CASE Escape
  <2>1. TypeOK'
    BY <1>6 DEF TypeOK, Escape
  <2> QED BY <1>6, <2>1, Quiet DEF Escape
<1>7. CASE UNCHANGED vars
  <2>1. TypeOK'
    BY <1>7 DEF TypeOK, vars
  <2> QED BY <1>7, <2>1, Quiet DEF vars
<1> QED BY <1>1, <1>2, <1>3, <1>4, <1>5, <1>6, <1>7, <1>8, <1>9, <1>10, <1>11

\* A run that ends keeps its snapshot.
LEMMA RunEndsStep ==
  ASSUME IInv, NEW r \in RunIds, RunEnds(r)
  PROVE  IInv'
<1> USE DEF IInv
<1>1. /\ r \in 1..Len(runs) /\ DOMAIN runs = 1..Len(runs)
      /\ runs' = [runs EXCEPT ![r] = [runs[r] EXCEPT !.running = FALSE]]
  BY Sequences DEF RunEnds, Running
<1>0. job \in Jobs
  BY <1>1, Sequences DEF HasJob, TypeOK
<1>2. [runs[r] EXCEPT !.running = FALSE] \in Runs
  BY <1>1, Sequences DEF Runs
<1>3. runs' \in Seq(Runs) /\ Len(runs') = Len(runs)
  BY <1>1, <1>2, ExceptSeq DEF TypeOK
<1>4. job' \in Jobs
  BY <1>0 DEF RunEnds, Jobs
<1>5. TypeOK'
  BY <1>3, <1>4 DEF TypeOK, RunEnds, dialogVars
<1>6. \A i \in 1..Len(runs) : /\ runs'[i].queue = runs[i].queue
                              /\ runs'[i].mode = runs[i].mode
                              /\ runs'[i].snapshot = runs[i].snapshot
                              /\ runs'[i].moved = runs[i].moved
  BY <1>1, Sequences DEF Runs
<1>7. DOMAIN runs' = 1..Len(runs)
  BY <1>3
<1>8. RunWasAllowed'
  <2> SUFFICES ASSUME NEW k \in 1..Len(runs)
               PROVE  /\ runs'[k].snapshot.verdict \in {"read-only", "read-write", "no count"}
                      /\ runs'[k].mode = "move" => runs'[k].snapshot.verdict # "read-only"
    BY <1>7 DEF RunWasAllowed
  <2>1. /\ runs[k].snapshot.verdict \in {"read-only", "read-write", "no count"}
        /\ runs[k].mode = "move" => runs[k].snapshot.verdict # "read-only"
    BY <1>1 DEF RunWasAllowed
  <2> QED
    BY <2>1, <1>6
<1>9. PoliteSnapshot'
  BY <1>1, <1>6, <1>7 DEF PoliteSnapshot, RunEnds
<1>10. Armed'
  BY DEF Armed, Gate, RunEnds, dialogVars
<1>11. Polite'
  BY DEF Polite, Aborted, Flying, NoFlight, RunEnds, dialogVars
<1>12. HasJob'
  BY <1>4, ModalAssumption DEF HasJob
<1> QED BY <1>5, <1>8, <1>9, <1>10, <1>11, <1>12

\* A probe starts for the open dialog over probes that, as long as it is left by its
\* buttons, have all landed.
LEMMA ProbeStarts ==
  ASSUME IInv, NEW ps \in Seq(Probes), Len(ps) = Len(probes), NEW q \in Queues,
         runVerify(ps, q), moved' \in BOOLEAN, moved' \/ q = sourceQueue,
         open' = TRUE, section' = "verify", UNCHANGED <<job, runs>>, UNCHANGED formVars,
         ~escaped => \A p \in 1..Len(ps) : ps[p].status = "landed"
  PROVE  IInv'
<1> USE DEF IInv, formVars
<1>1. Len(ps) \in Nat
  BY Sequences
<1>2. TypeOK'
  BY Probing DEF TypeOK
<1>3. Armed' /\ HasJob'
  BY Probing DEF Armed, HasJob
<1>4. RunWasAllowed' /\ PoliteSnapshot'
  BY DEF RunWasAllowed, PoliteSnapshot
<1>5. Polite'
  <2> SUFFICES ASSUME ~escaped PROVE Polite'
    BY DEF Polite
  <2>0. probes' \in Seq(Probes) /\ Len(probes') = Len(ps) + 1
    BY Probing
  <2>1. DOMAIN probes' = 1..(Len(ps) + 1)
    BY <2>0
  <2>9. \A p \in 1..Len(ps) : probes'[p] = ps[p]
    BY Probing
  <2>2. \A p \in 1..Len(ps) : probes'[p].status = "landed"
    BY <2>9
  <2>3. \A p \in 1..(Len(ps) + 1) : p = Len(ps) + 1 \/ p \in 1..Len(ps)
    BY <1>1
  <2>4. probes'[Len(ps) + 1].status # "aborted"
    BY Probing
  <2>5. Aborted' = {}
    BY <2>1, <2>2, <2>3, <2>4 DEF Aborted
  <2>6. ASSUME NEW p \in ProbeIds, Flying(p)'
        PROVE  p = Len(ps) + 1 /\ session
    BY <2>1, <2>2, <2>3, <2>6, Probing DEF Flying
  <2>7. ASSUME NEW p \in ProbeIds, Flying(p)'
        PROVE  /\ verify' \in Slots /\ verify'.probe = p /\ verify'.inProgress
               /\ probes'[p].queue = q
    <3>1. p = Len(ps) + 1 /\ session
      BY <2>6, <2>7
    <3>2. verify' \in Slots /\ verify'.probe = Len(ps) + 1
      BY Probing
    <3>3. probes'[Len(ps) + 1].queue = q
      BY Probing
    <3>4. verify'.inProgress
      BY <3>1, Probing
    <3> QED BY <3>1, <3>2, <3>3, <3>4
  <2>8. (refresh' \/ start') => NoFlight'
    BY <2>6, Probing DEF NoFlight
  <2> QED BY <2>5, <2>7, <2>8, Probing DEF Polite
<1> QED BY <1>2, <1>3, <1>4, <1>5

LEMMA OpenStep ==
  ASSUME IInv, openCopyModal, Aborted = {}
  PROVE  IInv'
<1>1. ~escaped => \A p \in 1..Len(probes) : probes[p].status = "landed"
  BY Sequences DEF IInv, openCopyModal, Polite, Aborted, Flying, Probes
<1> QED BY <1>1, ProbeStarts DEF IInv, TypeOK, openCopyModal

LEMMA RefreshStep ==
  ASSUME IInv, Refresh, Aborted = {}
  PROVE  IInv'
<1>1. ~escaped => NoFlight
  BY DEF IInv, Refresh, Polite
<1>2. ~escaped => \A p \in 1..Len(probes) : probes[p].status = "landed"
  BY <1>1, Sequences DEF IInv, Aborted, Flying, NoFlight, Probes
<1>3. ~escaped => \A p \in 1..Len(probes) : AbortCurrent[p].status = "landed"
  BY <1>2, Sequences, Aborting DEF IInv, Flying
<1>4. PICK q \in IF moved THEN Queues ELSE {sourceQueue} : runVerify(AbortCurrent, q)
  BY DEF Refresh
<1>5. q \in Queues /\ (moved' \/ q = sourceQueue) /\ moved' \in BOOLEAN
  BY DEF IInv, TypeOK, Refresh
<1> QED BY <1>3, <1>4, <1>5, Aborting, ProbeStarts DEF IInv, Refresh

LEMMA CancelVerifyStep ==
  ASSUME IInv, CancelVerify, Aborted = {}
  PROVE  IInv'
<1> USE DEF IInv, formVars
<1>1. probes' \in Seq(Probes) /\ Len(probes') = Len(probes)
  BY Aborting DEF CancelVerify
<1>2. TypeOK'
  BY <1>1 DEF TypeOK, CancelVerify
<1>3. Armed' /\ HasJob' /\ RunWasAllowed' /\ PoliteSnapshot'
  BY DEF Armed, HasJob, RunWasAllowed, PoliteSnapshot, CancelVerify, TypeOK
<1>4. ASSUME ~escaped, NEW p \in ProbeIds PROVE ~Flying(p)'
  <2>1. DOMAIN probes' = DOMAIN probes
    BY <1>1, Sequences
  <2>2. CASE Flying(p)
    BY <1>4, <2>1, <2>2, Sequences, Aborting DEF Flying, CancelVerify, Polite
  <2>3. CASE ~Flying(p)
    BY <2>1, <2>3, Sequences, Aborting DEF Flying, CancelVerify
  <2> QED BY <2>2, <2>3
<1>5. Polite'
  BY <1>4 DEF Polite, CancelVerify, NoFlight
<1> QED BY <1>2, <1>3, <1>5

\* A run starts on the settled verdict the dialog shows.
LEMMA StartStep ==
  ASSUME IInv, handleModalStart, Aborted = {}
  PROVE  IInv'
<1> USE DEF IInv
<1> DEFINE new == [queue |-> sourceQueue, mode |-> mode, snapshot |-> verify.result,
                   running |-> TRUE, moved |-> moved]
<1>1. verify \in Slots /\ Gate(verify.result)
  BY DEF Armed, handleModalStart
<1>2. /\ verify.result \in Outcome
      /\ verify.result.verdict \in {"read-only", "read-write", "no count"}
      /\ mode = "move" => verify.result.verdict # "read-only"
  <2>1. verify.result \in Outcome \cup {None}
    BY <1>1 DEF Slots
  <2> QED BY <1>1, <2>1, GateOpens
<1>3. new \in Runs
  BY <1>2 DEF Runs, TypeOK
<1>4. runs' = Append(runs, new) /\ Len(runs) < MaxRuns
  BY DEF handleModalStart
<1>5. /\ runs' \in Seq(Runs) /\ Len(runs') = Len(runs) + 1
      /\ \A r \in 1..Len(runs) : runs'[r] = runs[r]
      /\ runs'[Len(runs) + 1] = new
  BY <1>3, <1>4, AppendProperties DEF TypeOK
<1>6. job' = [running |-> TRUE, cancelRequested |-> FALSE] /\ job' \in Jobs
  BY DEF handleModalStart, Jobs
<1>7. Len(runs') <= MaxRuns
  BY <1>4, <1>5, Sequences, ModalAssumption
<1>8. TypeOK'
  BY <1>5, <1>6, <1>7 DEF TypeOK, handleModalStart
<1>9. /\ DOMAIN runs' = 1..(Len(runs) + 1) /\ DOMAIN runs = 1..Len(runs)
      /\ \A r \in 1..(Len(runs) + 1) : r = Len(runs) + 1 \/ r \in 1..Len(runs)
  BY <1>5, Sequences
<1>10. RunWasAllowed'
  <2>1. \A r \in 1..Len(runs) :
           /\ runs'[r].snapshot.verdict \in {"read-only", "read-write", "no count"}
           /\ runs'[r].mode = "move" => runs'[r].snapshot.verdict # "read-only"
    BY <1>5, <1>9 DEF RunWasAllowed
  <2>2. /\ new.snapshot.verdict \in {"read-only", "read-write", "no count"}
        /\ new.mode = "move" => new.snapshot.verdict # "read-only"
    BY <1>2
  <2>3. /\ runs'[Len(runs) + 1].snapshot.verdict \in {"read-only", "read-write", "no count"}
        /\ runs'[Len(runs) + 1].mode = "move" =>
             runs'[Len(runs) + 1].snapshot.verdict # "read-only"
    BY <1>5, <2>2
  <2> QED BY <1>9, <2>1, <2>3 DEF RunWasAllowed
<1>11. PoliteSnapshot'
  <2> SUFFICES ASSUME ~escaped, NEW r \in 1..(Len(runs) + 1)
               PROVE  runs'[r].moved \/ runs'[r].snapshot.queue = runs'[r].queue
    BY <1>9 DEF PoliteSnapshot, handleModalStart
  <2>1. moved \/ verify.result.queue = sourceQueue
    BY DEF Polite, handleModalStart
  <2>2. new.moved \/ new.snapshot.queue = new.queue
    BY <2>1
  <2> QED BY <1>5, <1>9, <2>2 DEF PoliteSnapshot
<1>12. HasJob'
  BY <1>6, ModalAssumption DEF HasJob
<1>13. Armed'
  BY DEF Armed, handleModalStart
<1>14. Polite'
  BY DEF Polite, handleModalStart, NoFlight, Flying, Aborted
<1> QED BY <1>8, <1>10, <1>11, <1>12, <1>13, <1>14

\* Whatever lands is settled; while the dialog is left by its buttons it is what the
\* dialog waits for, or it was aborted and finds no slot.
LEMMA LandStep ==
  ASSUME IInv, NEW p \in ProbeIds, Land(p)
  PROVE  IInv'
<1> USE DEF IInv, formVars
<1>1. /\ p \in 1..Len(probes) /\ DOMAIN probes = 1..Len(probes)
      /\ probes' = [probes EXCEPT ![p] = [probes[p] EXCEPT !.status = "landed"]]
  BY Sequences DEF Land
<1>2. [probes[p] EXCEPT !.status = "landed"] \in Probes
  BY <1>1, Sequences DEF Probes
<1>3. probes' \in Seq(Probes) /\ Len(probes') = Len(probes)
  BY <1>1, <1>2, ExceptSeq DEF TypeOK
<1>4. /\ DOMAIN probes' = 1..Len(probes)
      /\ probes'[p].status = "landed"
      /\ \A i \in 1..Len(probes) : i # p => probes'[i] = probes[i]
  BY <1>1, <1>3, Sequences DEF Probes
<1>5. PICK v \in IF Flying(p) THEN Verdicts ELSE {"cancelled"} :
         IF verify = None
         THEN UNCHANGED <<verify, start, refresh>>
         ELSE /\ verify' = [verify EXCEPT !.inProgress = FALSE,
                                          !.result = [queue |-> probes[p].queue, verdict |-> v]]
              /\ start' = Gate(verify'.result)
              /\ refresh' = TRUE
  BY DEF Land
<1> DEFINE res == [queue |-> probes[p].queue, verdict |-> v]
<1>6. res \in Outcome
  <2>1. v \in Verdicts \cup {"cancelled"}
    BY <1>5
  <2> QED BY <1>1, <2>1, Sequences DEF Outcome, Probes
<1>7. ASSUME verify # None
      PROVE  /\ verify' \in Slots /\ ~verify'.inProgress /\ verify'.probe = verify.probe
             /\ verify'.result = res
             /\ start' = Gate(res) /\ refresh' = TRUE
  <2>1. verify \in Slots
    BY <1>7 DEF TypeOK
  <2> QED BY <1>5, <1>6, <1>7, <2>1 DEF Slots
<1>8. Gate(res) \in BOOLEAN
  BY DEF Gate
<1>9. TypeOK'
  <2>1. verify' \in Slots \cup {None} /\ start' \in BOOLEAN /\ refresh' \in BOOLEAN
    <3>1. CASE verify = None
      BY <1>5, <3>1 DEF TypeOK
    <3>2. CASE verify # None
      BY <1>7, <1>8, <3>2
    <3> QED BY <3>1, <3>2
  <2> QED BY <1>3, <2>1 DEF TypeOK, Land
<1>10. RunWasAllowed' /\ PoliteSnapshot' /\ HasJob'
  BY DEF RunWasAllowed, PoliteSnapshot, HasJob, Land
<1>11. Armed'
  <2>1. CASE verify = None
    BY <1>5, <2>1, ModalAssumption DEF Armed
  <2>2. CASE verify # None
    <3>1. mode' = mode
      BY DEF Land
    <3>2. start' => Gate(verify.result)'
      BY <1>7, <2>2, <3>1 DEF Gate
    <3> QED BY <1>7, <2>2, <3>2 DEF Armed
  <2> QED BY <2>1, <2>2
<1>12. Polite'
  <2> SUFFICES ASSUME ~escaped PROVE Polite'
    BY DEF Polite, Land
  <2>1. ASSUME NEW i \in ProbeIds, Flying(i)'
        PROVE  Flying(i) /\ i # p
    BY <1>1, <1>4, <2>1 DEF Flying
  <2>2. CASE Flying(p)
    <3>1. /\ open /\ section = "verify" /\ verify # None
          /\ moved \/ probes[p].queue = sourceQueue
      BY <2>2, ModalAssumption DEF Polite
    <3>2. NoFlight'
      BY <2>1, <2>2 DEF NoFlight, Polite
    <3>3. Aborted' = {}
      BY <1>1, <1>4, <3>1 DEF Aborted, Polite
    <3>4. moved' \/ verify'.result.queue = sourceQueue'
      BY <1>7, <3>1 DEF Land
    <3> QED BY <3>2, <3>3, <3>4 DEF Polite, NoFlight
  <2>3. CASE ~Flying(p)
    <3>1. p \in Aborted
      BY <1>1, <2>3 DEF Aborted, Flying, Land
    <3>2. ~open /\ verify = None
      BY <3>1 DEF Polite
    <3>3. ~open' /\ verify' = None
      BY <1>5, <3>2 DEF Land
    <3>4. NoFlight'
      BY <2>1, <3>2 DEF NoFlight, Polite
    <3> QED BY <3>3, <3>4 DEF Polite, NoFlight
  <2> QED BY <2>2, <2>3
<1> QED BY <1>9, <1>10, <1>11, <1>12

-----------------------------------------------------------------------------
LEMMA Step == IInv /\ [Next]_vars => IInv'
<1> SUFFICES ASSUME IInv, [Next]_vars PROVE IInv'
  OBVIOUS
<1>1. CASE UNCHANGED vars
  BY <1>1, QuietSteps
<1>2. CASE \E p \in Aborted : Land(p)
  <2>1. PICK p \in Aborted : Land(p)
    BY <1>2
  <2>2. p \in ProbeIds
    BY Sequences DEF Aborted, IInv
  <2> QED BY <2>1, <2>2, LandStep
<1>3. ASSUME Aborted = {}, \/ EditSource \/ EditMode \/ CheckConnection \/ HandoffTimesOut
                             \/ PrimaryConnected \/ PrimaryDisconnected \/ PrimarySempEvent
                             \/ CancelRun \/ CancelCloses \/ Escape
      PROVE  IInv'
  BY <1>3, QuietSteps
<1>4. ASSUME Aborted = {}, openCopyModal PROVE IInv'
  BY <1>4, OpenStep
<1>5. ASSUME Aborted = {}, Refresh PROVE IInv'
  BY <1>5, RefreshStep
<1>6. ASSUME Aborted = {}, handleModalStart PROVE IInv'
  BY <1>6, StartStep
<1>7. ASSUME Aborted = {}, CancelVerify PROVE IInv'
  BY <1>7, CancelVerifyStep
<1>8. ASSUME NEW p \in ProbeIds, Land(p) PROVE IInv'
  BY <1>8, LandStep
<1>9. ASSUME NEW r \in RunIds, RunEnds(r) PROVE IInv'
  BY <1>9, RunEndsStep
<1> QED BY <1>1, <1>2, <1>3, <1>4, <1>5, <1>6, <1>7, <1>8, <1>9 DEF Next

\* In every reachable state the invariant holds, whatever the user and the probes do.
THEOREM Invariant == SafeSpec => []IInv
BY Initially, Step, PTL DEF SafeSpec

\* Type correctness of the dialog.
THEOREM TypeCorrect == SafeSpec => []TypeOK
<1>1. IInv => TypeOK
  BY DEF IInv
<1> QED BY <1>1, Invariant, PTL

\* No run starts on a verdict that does not allow it, however the dialog was left and
\* whichever probe landed last (evaluateStartGate, handleModalStart).
THEOREM RunAllowed == SafeSpec => []RunWasAllowed
<1>1. IInv => RunWasAllowed
  BY DEF IInv
<1> QED BY <1>1, Invariant, PTL

\* A run is bounded by a snapshot of the queue it reads, as long as the dialog is left
\* by its buttons and the session stays in its VPN while it shows (user-guide.md:276).
THEOREM SnapshotRight == SafeSpec => []PoliteSnapshot
<1>1. IInv => PoliteSnapshot
  BY DEF IInv
<1> QED BY <1>1, Invariant, PTL

\* Start shows only over a settled verdict that allows the mode, with no probe in flight,
\* and on the source queue unless that moved, as long as the dialog is left by its buttons.
THEOREM StartGated == SafeSpec => []StartIsGated
<1>1. IInv => StartIsGated
  <2> SUFFICES ASSUME IInv, ~escaped, open, section = "verify", start
               PROVE  /\ ~verify.inProgress
                      /\ Gate(verify.result)
                      /\ moved \/ verify.result.queue = sourceQueue
                      /\ \A p \in DOMAIN probes : ~Flying(p)
    BY DEF StartIsGated
  <2>1. ~verify.inProgress /\ Gate(verify.result)
    BY DEF IInv, Armed
  <2>2. (moved \/ verify.result.queue = sourceQueue) /\ NoFlight
    BY DEF IInv, Polite
  <2>3. \A p \in DOMAIN probes : p \in ProbeIds
    BY Sequences DEF IInv
  <2> QED BY <2>1, <2>2, <2>3 DEF NoFlight
<1> QED BY <1>1, Invariant, PTL
=============================================================================
