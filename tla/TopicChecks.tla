---------------------------- MODULE TopicChecks ----------------------------
(***************************************************************************)
(* The filters of Topics against what they are meant to decide, as         *)
(* assumptions that TLC evaluates over all short inputs.                   *)
(*                                                                         *)
(* Bounds: patterns of three characters, texts long enough for all the     *)
(* characters of two patterns; topics of three levels.                     *)
(***************************************************************************)
EXTENDS Topics

Patterns == BoundedSeq({"a", "b", Star}, 3)
Texts == BoundedSeq({"a", "b"}, 4)
ReadBy == [p \in Patterns |-> {t \in Texts : Reads(p, Stars(p), {"a", "b"}, t)}]

(* Two levels overlap exactly when some text is of both (utils.ts 188).    *)
ASSUME LevelsOverlap ==
  \A p, q \in Patterns : levelsIntersect(p, q) <=> ReadBy[p] \cap ReadBy[q] # {}

Stored == BoundedSeq({"a", Star}, 3)
StarTexts == BoundedSeq({"a", Star}, 4)
ReadByUser == [p \in Stored |-> {t \in StarTexts : Reads(p, Stars(p), {"a", Star}, t)}]
ReadByBroker == [p \in Stored |-> {t \in StarTexts : Reads(p, LastStar(p), {"a", Star}, t)}]

(* The filter's star is a wildcard wherever it stands, the broker's only   *)
(* at the end of a level; elsewhere it is a star (utils.ts 116).           *)
ASSUME StoredStarsAreLiteral ==
  \A p, q \in Stored :
    subMatch(<<p>>, <<q>>) <=> p = <<>> \/ ReadByUser[p] \cap ReadByBroker[q] # {}

Levels == {<<>>, <<"a">>, <<Star>>, <<"a", Star>>, Rest}
Words == {<<>>, <<"a">>, <<"a", "b">>, <<"b">>}
Topics == BoundedSeq(Levels, 3) \ {<<>>}
Names == BoundedSeq(Words, 3) \ {<<>>}
LevelRead == [p \in Levels |-> {w \in Words : Reads(p, Stars(p), {"a", "b"}, w)}]
Named == [t \in Topics |-> Stands(t, Names, LevelRead)]

(* Two topics overlap exactly when some name is of both, a ">" ending the  *)
(* topic wherever it stands (utils.ts 86, 171).                            *)
ASSUME TopicsOverlap ==
  \A s, t \in Topics : topicFilterMatches(s, t) <=> Named[s] \cap Named[t] # {}

Lines == BoundedSeq({"a", "A", Newline}, 3)
Filters == BoundedSeq({"a", "A", Star}, 2)

(* "Contains" is a star on either side, but for texts of several lines;    *)
(* and a name and a topic level are matched alike, but for case (module.ts *)
(* 213, utils.ts 33).                                                      *)
ASSUME FiltersAgree ==
  \A f \in Filters, v \in Lines : f # <<>> =>
    /\ Stars(f) = {} /\ Newline \notin ToSet(v) =>
         (vpnQueueMatch(f, v) <=> matchString(v, <<Star>> \o f \o <<Star>>))
    /\ Newline \notin ToSet(v) =>
         (matchString(v, f) <=> topicFilterMatches(<<Folded(f)>>, <<Folded(v)>>))
=============================================================================
