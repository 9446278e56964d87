------------------------------- MODULE Topics -------------------------------
(***************************************************************************)
(* The name and topic filters of the explorer and the queue browser        *)
(* (core/utils.ts, queue-subscription-explorer/module.ts): may a row that  *)
(* some name would match be left out, or a row that none would be listed?  *)
(*                                                                         *)
(* A string is a sequence of characters, a topic a sequence of levels (the *)
(* empty string is one empty level).  Beside the algorithms stands what    *)
(* they are meant to decide: TopicChecks compares them over all short      *)
(* inputs.                                                                 *)
(***************************************************************************)
EXTENDS Naturals, Sequences, SequencesExt, FiniteSetsExt

Star == "*"          \* any run of characters
Rest == <<">">>      \* a level: one or more levels
Nul == "NUL"         \* LITERAL_STAR_SENTINEL
Newline == "\n"

-----------------------------------------------------------------------------
(* The algorithms.                                                         *)

(* rec(i, j): can what is left of both patterns be the same text?          *)
levelsIntersect(a, b) ==
  LET rec[x \in (1..(Len(a) + 1)) \X (1..(Len(b) + 1))] ==
        LET i == x[1]  j == x[2]
        IN  IF i > Len(a) \/ j > Len(b)
            THEN /\ \A p \in i..Len(a) : a[p] = Star
                 /\ \A p \in j..Len(b) : b[p] = Star
            ELSE IF Star \in {a[i], b[j]}
            THEN rec[<<i + 1, j>>] \/ rec[<<i, j + 1>>]
            ELSE a[i] = b[j] /\ rec[<<i + 1, j + 1>>]
  IN  rec[<<1, 1>>]

matchTopicLevels(a, b) ==
  LET from[k \in 1..(Max({Len(a), Len(b)}) + 1)] ==
        IF k > Len(a) \/ k > Len(b) THEN Len(a) = Len(b)
        ELSE \/ Rest \in {a[k], b[k]}
             \/ levelsIntersect(a[k], b[k]) /\ from[k + 1]
  IN  from[1]

normalizeStoredLevel(level) ==
  [i \in DOMAIN level |-> IF level[i] = Star /\ i # Len(level) THEN Nul ELSE level[i]]

topicFilterMatches(input, stored) ==
  matchTopicLevels(input, [k \in DOMAIN stored |-> normalizeStoredLevel(stored[k])])

-----------------------------------------------------------------------------
(* What they are meant to decide.                                          *)

(* The text can be cut into one piece for each character of the pattern:   *)
(* that character, or where a wildcard stands any piece that it may take.  *)
Reads(pattern, wild, takes, text) ==
  \E cut \in [1..(Len(pattern) + 1) -> 0..Len(text)] :
    /\ cut[1] = 0 /\ cut[Len(pattern) + 1] = Len(text)
    /\ \A i \in DOMAIN pattern :
         IF i \in wild
         THEN /\ cut[i] <= cut[i + 1]
              /\ \A p \in (cut[i] + 1)..cut[i + 1] : text[p] \in takes
         ELSE cut[i + 1] = cut[i] + 1 /\ text[cut[i + 1]] = pattern[i]

Stars(pattern) == {i \in DOMAIN pattern : pattern[i] = Star}

(* The broker's rule: a star is a wildcard at the end of a level only.     *)
LastStar(pattern) == Stars(pattern) \cap {Len(pattern)}

(* Levels up to the first "any number of levels", which ends a pattern.    *)
Ended(topic) ==
  IF \E k \in DOMAIN topic : topic[k] = Rest
  THEN SubSeq(topic, 1, Min({k \in DOMAIN topic : topic[k] = Rest}))
  ELSE topic

(* The names a pattern stands for, given which names each level stands for. *)
Stands(topic, names, standsFor) ==
  LET t == Ended(topic)
  IN  {n \in names :
         IF t[Len(t)] = Rest
         THEN /\ Len(n) >= Len(t)
              /\ \A k \in 1..(Len(t) - 1) : n[k] \in standsFor[t[k]]
         ELSE /\ Len(n) = Len(t)
              /\ \A k \in DOMAIN t : n[k] \in standsFor[t[k]]}

-----------------------------------------------------------------------------
(* The column filters.  A regular expression made of a pattern is modelled *)
(* by what it accepts: its ".*" takes no line ends.                        *)

Lower(c) == IF c = "A" THEN "a" ELSE c
Folded(text) == [i \in DOMAIN text |-> Lower(text[i])]

matchString(text, pattern) ==
  \/ pattern = <<>>
  \/ LET t == Folded(text)  p == Folded(pattern)
     IN  IF Stars(pattern) # {}
         THEN Reads(p, Stars(p), ToSet(t) \ {Newline}, t)
         ELSE t = p

Includes(text, part) ==
  \E k \in 0..Len(text) :
    k + Len(part) <= Len(text) /\ SubSeq(text, k + 1, k + Len(part)) = part

vpnQueueMatch(filter, value) ==
  \/ filter = <<>>
  \/ IF Stars(filter) = {} THEN Includes(Folded(value), Folded(filter))
     ELSE matchString(value, filter)

subMatch(filter, topic) == filter = << <<>> >> \/ topicFilterMatches(filter, topic)
=============================================================================
