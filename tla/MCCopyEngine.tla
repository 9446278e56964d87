---------------------------- MODULE MCCopyEngine ----------------------------
(* Instances of CopyEngine for TLC: which runs to consider. *)
EXTENDS CopyEngine

Plain == [mode |-> "copy", oldest |-> 1, newest |-> SnapshotSize,
          total |-> SnapshotSize, hasPublisher |-> TRUE,
          sameQueue |-> FALSE, badDest |-> FALSE]

(* A consistent snapshot, both modes, to another queue. *)
OtherQueueRuns == {[Plain EXCEPT !.mode = mode] : mode \in {"copy", "move"}}

(* The edges of a run: clones that come back because the destination is    *)
(* the source queue itself; ends that the verification could not determine *)
(* and a count that is one off; an empty queue; a destination the SDK      *)
(* refuses.                                                                *)
EdgeRuns ==
  {[Plain EXCEPT !.mode = "move", !.sameQueue = TRUE],
   [Plain EXCEPT !.mode = "move", !.newest = NoId],
   [Plain EXCEPT !.oldest = NoId], [Plain EXCEPT !.total = SnapshotSize - 1],
   [Plain EXCEPT !.total = 0], [Plain EXCEPT !.badDest = TRUE]}

SafetyRuns == OtherQueueRuns \cup EdgeRuns

(* The runs whose end is worth waiting for. *)
EndingRuns ==
  {[Plain EXCEPT !.mode = "move"], [Plain EXCEPT !.badDest = TRUE],
   [Plain EXCEPT !.hasPublisher = FALSE]}
=============================================================================
