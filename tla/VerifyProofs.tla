---------------------------- MODULE VerifyProofs ----------------------------
(* Proofs about the source verification, for any two timers, the second      *)
(* longer than the first, and any number of messages.                        *)
EXTENDS VerifySource, FiniteSetTheorems, WellFoundedInduction, TLAPS

Results == [sourceOk : BOOLEAN, messageCount : 0..MaxId \cup {None},
            oldest : Ids \cup {None}, newest : Ids \cup {None},
            access : Access, errors : SUBSET ErrorKinds]
Tallies == [count : 0..MaxId, oldest : Ids \cup {None}, newest : Ids \cup {None}]

Typed ==
  /\ spool \in SUBSET Ids /\ nextId \in 1..(MaxId + 1)
  /\ exists \in BOOLEAN /\ counted \in SUBSET Ids /\ aborted \in BOOLEAN
  /\ browser \in {"none", "asked", "up"}
  /\ via \in {"semp", "queue-browser"}
  /\ pc \in {"start", "detail", "newest", "browse", "done"}
  /\ result \in Results /\ cursor \in 0..MaxId /\ tally \in Tallies
  /\ idle \in 0..IdleTicks \cup {None} /\ bind \in 0..BindTicks \cup {None}

\* The count of the browse path fits between the first and the last message that
\* were delivered, of which the last is where the cursor stands.
Tallied ==
  /\ tally.count <= cursor
  /\ IF tally.count = 0
     THEN tally.oldest = None /\ tally.newest = None
     ELSE /\ tally.oldest \in Ids /\ tally.newest = cursor
          /\ tally.oldest + tally.count <= cursor + 1

\* Each path has its own states, browsers and the bind timer belong to one of them,
\* and only a queue that was bound has an idle timer.
Paths ==
  /\ via = "semp" => pc # "browse"
  /\ via = "queue-browser" => pc \notin {"detail", "newest"}
  /\ (browser # "none" \/ bind # None) => via = "queue-browser" /\ pc \in {"browse", "done"}
  /\ idle # None => bound
  /\ bound => exists

\* What is known before the end: nothing but the permission, until the first SEMP
\* call has found the queue.
Known ==
  /\ pc \in {"start", "detail"} => result = EmptyResult
  /\ pc = "browse" => ~result.sourceOk
  /\ pc = "newest" => exists /\ result.newest = None

\* Ids only grow: what was not there when the first call counted is newer than all it
\* counted, and what the browser has counted lies between its oldest and the cursor.
Counted ==
  /\ spool \subseteq 1..(nextId - 1) /\ counted \subseteq 1..(nextId - 1)
  /\ pc \in {"start", "detail"} => counted = {}
  /\ pc = "start" => tally.count = 0
  /\ pc = "newest" => \A i \in spool, j \in counted : i \in counted \/ j < i
  /\ (pc = "newest" /\ result.messageCount # None) =>
       /\ result.messageCount = Cardinality(counted)
       /\ result.oldest = IF counted = {} THEN None ELSE Oldest(counted)
  /\ pc = "browse" =>
       /\ tally.count = Cardinality(counted)
       /\ \A i \in counted : tally.oldest # None /\ tally.oldest <= i /\ i <= cursor

Ends == CancelledIsNotOk /\ VerifiedExists /\ BrowsedRange /\ CountLiesBetween

IInv == Typed /\ Tallied /\ Paths /\ Known /\ Counted /\ Ends

-----------------------------------------------------------------------------
\* None is told apart from every number.
LEMMA NoneIsNoNumber == /\ None \notin Ids /\ \A n \in Nat : None \notin 0..n
                        /\ None # 0 /\ \A i \in Ids : i # None /\ i \in Nat /\ i <= MaxId
  BY VerifyAssumption DEF Ids

\* A queue with messages has an oldest and a newest one.
LEMMA Extremes ==
  ASSUME NEW S \in SUBSET Ids, S # {}
  PROVE  /\ Oldest(S) \in S /\ \A j \in S : Oldest(S) <= j
         /\ Newest(S) \in S /\ \A j \in S : j <= Newest(S)
<1> DEFINE Less == OpToRel(<, Nat)
           Below == {MaxId - i : i \in S}
<1>1. S \subseteq Nat /\ Below \subseteq Nat /\ Below # {} /\ \A i \in S : i \in Nat /\ i <= MaxId
  BY VerifyAssumption DEF Ids
<1>0. \A i, j \in Nat : j < i => <<j, i>> \in Less
  BY DEF OpToRel
<1>2. \E i \in S : \A j \in S : ~(<<j, i>> \in Less)
  <2> HIDE DEF Less
  <2> QED BY <1>1, NatLessThanWellFounded, WFMin DEF Less
<1>3. \E i \in S : \A j \in S : i <= j
  <2> HIDE DEF Less
  <2>1. PICK i \in S : \A j \in S : ~(<<j, i>> \in Less)
    BY <1>2
  <2>2. \A j \in S : ~(j < i)
    BY <2>1, <1>0, <1>1
  <2> QED BY <2>2, <1>1
<1>4. \E b \in Below : \A d \in Below : ~(<<d, b>> \in Less)
  <2> HIDE DEF Less, Below
  <2> QED BY <1>1, NatLessThanWellFounded, WFMin DEF Less
<1>5. PICK b \in Below : \A d \in Below : b <= d
  <2> HIDE DEF Below, Less
  <2>1. PICK b \in Below : \A d \in Below : ~(<<d, b>> \in Less)
    BY <1>4
  <2>2. \A d \in Below : ~(d < b)
    BY <2>1, <1>0, <1>1
  <2> QED BY <2>2, <1>1
<1>6. PICK i \in S : b = MaxId - i
  OBVIOUS
<1>7. \A j \in S : j <= i
  <2> TAKE j \in S
  <2>1. b <= MaxId - j
    BY <1>5
  <2> QED BY <2>1, <1>1, <1>6, VerifyAssumption
<1> QED BY <1>3, <1>7 DEF Oldest, Newest

\* A queue holds at most MaxId messages.
LEMMA Counts == ASSUME NEW S \in SUBSET Ids PROVE Cardinality(S) \in 0..MaxId
<1>1. IsFiniteSet(Ids) /\ Cardinality(Ids) = MaxId
  BY FS_Interval, VerifyAssumption DEF Ids
<1>2. IsFiniteSet(S) /\ Cardinality(S) <= Cardinality(Ids)
  BY <1>1, FS_Subset
<1> QED BY <1>1, <1>2, FS_CardinalityType, VerifyAssumption

-----------------------------------------------------------------------------
\* A failure on the SEMP path leaves a result that is not verified.
LEMMA Failing ==
  ASSUME result \in Results, NEW e \in ErrorKinds, Failed(e)
  PROVE  result' \in Results /\ ~result'.sourceOk
  BY DEF Failed, Results

\* What settling does to a result that is not final yet.
LEMMA Settling ==
  ASSUME Typed, Tallied, NEW ok \in BOOLEAN, NEW e \in SUBSET ErrorKinds, Settle(ok, e)
  PROVE  /\ pc' = "done" /\ idle' = None /\ bind' = None /\ result' \in Results
         /\ pc = "done" => result' = result
         /\ pc # "done" =>
              /\ result'.sourceOk = ok
              /\ ok => /\ result'.messageCount = tally.count
                       /\ result'.oldest = tally.oldest /\ result'.newest = tally.newest
<1>1. /\ result \in Results /\ tally \in Tallies
      /\ pc \in {"start", "detail", "newest", "browse", "done"}
  BY DEF Typed
<1>2. CASE pc = "done"
  BY <1>1, <1>2 DEF Settle
<1>3. CASE pc # "done"
  <2>1. /\ result' = [result EXCEPT !.sourceOk = ok,
                         !.messageCount = IF ok THEN tally.count ELSE @,
                         !.oldest = IF ok THEN tally.oldest ELSE @,
                         !.newest = IF ok THEN tally.newest ELSE @,
                         !.errors = @ \cup e]
        /\ pc' = "done" /\ idle' = None /\ bind' = None
    BY <1>3 DEF Settle
  <2>2. /\ tally.count \in 0..MaxId \cup {None} /\ tally.oldest \in Ids \cup {None}
        /\ tally.newest \in Ids \cup {None}
    BY <1>1 DEF Tallies
  <2>3. result' \in Results
    BY <1>1, <2>1, <2>2 DEF Results
  <2>4. /\ result'.sourceOk = ok
        /\ ok => /\ result'.messageCount = tally.count
                 /\ result'.oldest = tally.oldest /\ result'.newest = tally.newest
    BY <1>1, <2>1 DEF Results
  <2> QED BY <1>3, <2>1, <2>3, <2>4
<1> QED BY <1>2, <1>3

\* Settling keeps the invariant, whoever does it, if only a browser that is bound and
\* not aborted settles as verified.
LEMMA SettleStep ==
  ASSUME IInv, NEW ok \in BOOLEAN, NEW e \in SUBSET ErrorKinds, Settle(ok, e),
         via = "queue-browser", pc \in {"browse", "done"},
         ok => bound /\ ~(aborted /\ Unfinished),
         UNCHANGED <<via, aborted, cursor, browser, tally>>, UNCHANGED queueVars
  PROVE  IInv'
<1> USE VerifyAssumption, NoneIsNoNumber
<1>0. Typed /\ Tallied /\ Paths /\ Known /\ Counted /\ Ends
  BY DEF IInv
<1>1. /\ pc' = "done" /\ idle' = None /\ bind' = None /\ result' \in Results
      /\ pc = "done" => result' = result
      /\ pc # "done" =>
              /\ result'.sourceOk = ok
              /\ ok => /\ result'.messageCount = tally.count
                       /\ result'.oldest = tally.oldest /\ result'.newest = tally.newest
  BY <1>0, Settling
<1>2. Typed'
  BY <1>0, <1>1 DEF Typed, queueVars
<1>3. Tallied' /\ Paths'
  BY <1>0, <1>1 DEF Tallied, Paths, bound, queueVars
<1>4. Known' /\ Counted'
  BY <1>0, <1>1 DEF Known, Counted, queueVars
<1>7. CountLiesBetween'
  <2>1. CASE pc = "done"
    BY <2>1, <1>0, <1>1 DEF Ends, CountLiesBetween, queueVars
  <2>2. CASE pc # "done" /\ ok
    <3>1. /\ tally.count \in 0..MaxId /\ cursor \in 0..MaxId
          /\ tally.oldest \in Ids \cup {None} /\ tally.newest \in Ids \cup {None}
      BY <1>0 DEF Typed, Tallies
    <3>2. /\ tally.count = Cardinality(counted)
          /\ \A i \in counted : tally.oldest # None /\ tally.oldest <= i /\ i <= cursor
      BY <2>2, <1>0 DEF Counted
    <3>3. /\ tally.newest # None => tally.newest = cursor
          /\ (tally.oldest # None /\ tally.newest # None) => tally.oldest <= tally.newest
      BY <3>1, <1>0 DEF Tallied
    <3> QED BY <2>2, <3>2, <3>3, <1>1 DEF CountLiesBetween, queueVars
  <2>3. CASE pc # "done" /\ ~ok
    BY <2>3, <1>1 DEF CountLiesBetween
  <2> QED BY <2>1, <2>2, <2>3
<1>5. CancelledIsNotOk' /\ VerifiedExists'
  BY <1>0, <1>1 DEF Ends, CancelledIsNotOk, VerifiedExists, Paths, bound, queueVars, Unfinished
<1>6. BrowsedRange'
  <2>1. CASE pc = "done"
    BY <2>1, <1>0, <1>1 DEF Ends, BrowsedRange
  <2>2. CASE pc # "done" /\ ok
    <3>1. tally.count \in 0..MaxId /\ cursor \in 0..MaxId
      BY <1>0 DEF Typed, Tallies
    <3> QED BY <2>2, <3>1, <1>0, <1>1 DEF BrowsedRange, Tallied
  <2>3. CASE pc # "done" /\ ~ok
    BY <2>3, <1>1 DEF BrowsedRange
  <2> QED BY <2>1, <2>2, <2>3
<1> QED BY <1>2, <1>3, <1>4, <1>5, <1>6, <1>7 DEF IInv, Ends

-----------------------------------------------------------------------------
\* Every step keeps the invariant: one step of the proof per action.
LEMMA Step == IInv /\ [Next]_vars => IInv'
<1> USE VerifyAssumption, NoneIsNoNumber
<1> SUFFICES ASSUME IInv, [Next]_vars
             PROVE  IInv'
  OBVIOUS
<1>0. Typed /\ Tallied /\ Paths /\ Known /\ Counted /\ Ends
  BY DEF IInv
<1>a. /\ result \in Results /\ tally \in Tallies /\ cursor \in 0..MaxId /\ spool \in SUBSET Ids
      /\ pc \in {"start", "detail", "newest", "browse", "done"}
  BY <1>0 DEF Typed
<1>1. CASE SempStart
  <2>1. Typed' /\ Tallied' /\ Paths'
    BY <1>1, <1>0 DEF SempStart, Typed, Tallied, Paths, bound, queueVars, browseVars
  <2>2. Known' /\ Counted' /\ Ends'
    BY <1>1, <1>0
       DEF SempStart, Known, Counted, Ends, CancelledIsNotOk, VerifiedExists,
           BrowsedRange, CountLiesBetween, queueVars, browseVars
  <2> QED BY <2>1, <2>2 DEF IInv
<1>2. CASE DetailFails
  <2>1. PICK e \in ErrorKinds : Failed(e) /\ pc' = "done"
    BY <1>2 DEF DetailFails, ErrorKinds
  <2>2. result' \in Results /\ ~result'.sourceOk
    BY <2>1, <1>a, Failing
  <2>3. pc = "detail" /\ UNCHANGED <<via, aborted>> /\ UNCHANGED queueVars /\ UNCHANGED browseVars
    BY <1>2 DEF DetailFails
  <2>4. Typed' /\ Tallied' /\ Paths'
    BY <2>1, <2>2, <2>3, <1>0 DEF Typed, Tallied, Paths, bound, queueVars, browseVars
  <2>5. Known' /\ Counted' /\ Ends'
    BY <2>1, <2>2, <2>3, <1>0
       DEF Known, Counted, Ends, CancelledIsNotOk, VerifiedExists, BrowsedRange,
           CountLiesBetween, queueVars
  <2> QED BY <2>4, <2>5 DEF IInv
<1>3. CASE DetailArrives
  <2> DEFINE info == [result EXCEPT !.sourceOk = TRUE]
  <2>1. /\ pc = "detail" /\ pc' = "newest" /\ exists /\ UNCHANGED <<via, aborted>>
        /\ UNCHANGED <<spool, nextId, exists>> /\ UNCHANGED browseVars /\ result = EmptyResult
        /\ counted' = spool
    BY <1>3, <1>0 DEF DetailArrives, Known
  <2>2. /\ result' \in Results /\ result'.newest = None
        /\ \/ result'.messageCount = None
           \/ /\ result'.messageCount = Cardinality(spool)
              /\ result'.oldest = IF spool = {} THEN None ELSE Oldest(spool)
    <3>1. CASE result' = info
      BY <3>1, <2>1, <1>a DEF Results, EmptyResult
    <3>2. ASSUME NEW x \in Access,
                 result' = [result EXCEPT !.sourceOk = TRUE, !.access = x,
                                !.messageCount = SpoolInfo.messageCount,
                                !.oldest = SpoolInfo.oldest]
          PROVE  /\ result' \in Results /\ result'.newest = None
                 /\ result'.messageCount = Cardinality(spool)
                 /\ result'.oldest = IF spool = {} THEN None ELSE Oldest(spool)
      <4>1. /\ Cardinality(spool) \in 0..MaxId
            /\ spool # {} => Oldest(spool) \in Ids
        BY <1>a, Counts, Extremes
      <4>2. SpoolInfo.messageCount \in 0..MaxId /\ SpoolInfo.oldest \in Ids \cup {None}
        BY <4>1 DEF SpoolInfo
      <4>3. result' \in Results
        BY <4>2, <3>2, <1>a DEF Results
      <4>4. /\ result'.newest = None /\ result'.messageCount = SpoolInfo.messageCount
            /\ result'.oldest = SpoolInfo.oldest
        BY <3>2, <2>1 DEF EmptyResult
      <4> QED BY <4>3, <4>4 DEF SpoolInfo
    <3> QED BY <3>1, <3>2, <1>3 DEF DetailArrives
  <2>3. Typed' /\ Tallied' /\ Paths'
    BY <2>1, <2>2, <1>0 DEF Typed, Tallied, Paths, bound, queueVars, browseVars
  <2>4. Known' /\ Ends'
    BY <2>1, <2>2
       DEF Known, Ends, CancelledIsNotOk, VerifiedExists, BrowsedRange, CountLiesBetween
  <2>5. Counted'
    <3>1. \A i \in spool', j \in counted' : i \in counted'
      BY <2>1
    <3> QED BY <3>1, <2>1, <2>2, <1>0 DEF Counted
  <2> QED BY <2>3, <2>4, <2>5 DEF IInv
<1>4. CASE NewestArrives /\ ~(aborted /\ Unfinished)
  <2>1. /\ pc = "newest" /\ pc' = "done" /\ exists /\ via = "semp" /\ ~aborted
        /\ UNCHANGED <<via, aborted>> /\ UNCHANGED queueVars /\ UNCHANGED browseVars
        /\ result.newest = None
    BY <1>4, <1>0 DEF NewestArrives, Known, Paths, Unfinished, Typed
  <2>2. /\ result' \in Results /\ result'.messageCount = result.messageCount
        /\ result'.oldest = result.oldest
        /\ \/ result'.newest = None
           \/ spool # {} /\ result'.newest = Newest(spool)
    <3>1. CASE UNCHANGED result
      BY <3>1, <1>a, <2>1
    <3>2. CASE spool # {} /\ result' = [result EXCEPT !.newest = Newest(spool)]
      <4>1. Newest(spool) \in Ids
        BY <3>2, <1>a, Extremes
      <4> QED BY <4>1, <3>2, <1>a DEF Results
    <3>3. CASE result' = [result EXCEPT !.errors = @ \cup {"newest"}]
      BY <3>3, <1>a, <2>1 DEF Results, ErrorKinds
    <3> QED BY <3>1, <3>2, <3>3, <1>4 DEF NewestArrives
  <2>3. Typed' /\ Tallied' /\ Paths'
    BY <2>1, <2>2, <1>0 DEF Typed, Tallied, Paths, bound, queueVars, browseVars
  <2>4. Known' /\ Counted' /\ CancelledIsNotOk' /\ VerifiedExists' /\ BrowsedRange'
    BY <2>1, <2>2, <1>0
       DEF Known, Counted, CancelledIsNotOk, VerifiedExists, BrowsedRange, queueVars
  <2>5. CountLiesBetween'
    <3>1. counted \in SUBSET Ids
      BY <1>0 DEF Typed
    <3> SUFFICES ASSUME result.messageCount # None
                 PROVE  CountLiesBetween'
      BY <2>2 DEF CountLiesBetween
    <3>2. /\ result.messageCount = Cardinality(counted)
          /\ result.oldest = IF counted = {} THEN None ELSE Oldest(counted)
          /\ \A i \in spool, j \in counted : i \in counted \/ j < i
      BY <2>1, <1>0 DEF Counted
    <3>3. counted # {} => /\ result.oldest \in counted
                          /\ \A i \in counted : result.oldest <= i
      BY <3>1, <3>2, Extremes
    <3>4. spool # {} => Newest(spool) \in spool /\ \A i \in spool : i <= Newest(spool)
      BY <1>a, Extremes
    <3>5. (result.oldest # None /\ spool # {}) => result.oldest <= Newest(spool)
      <4> SUFFICES ASSUME result.oldest # None, spool # {}
                   PROVE  result.oldest <= Newest(spool)
        OBVIOUS
      <4>1. result.oldest \in counted /\ Newest(spool) \in spool
        BY <3>2, <3>3, <3>4
      <4>2. Newest(spool) \in counted \/ result.oldest < Newest(spool)
        BY <3>2, <4>1
      <4>3. result.oldest \in Nat /\ Newest(spool) \in Nat
        BY <4>1, <3>1, <1>a
      <4> QED BY <4>1, <4>2, <4>3, <3>3
    <3>6. counted # {} => result.oldest # None
      BY <3>1, <3>3
    <3> QED BY <2>1, <2>2, <3>2, <3>3, <3>4, <3>5, <3>6 DEF CountLiesBetween, queueVars
  <2> QED BY <2>3, <2>4, <2>5 DEF IInv, Ends
<1>5. CASE SempAborted
  <2>1. PICK e \in ErrorKinds : Failed(e) /\ pc' = "done"
    BY <1>5 DEF SempAborted, ErrorKinds
  <2>2. result' \in Results /\ ~result'.sourceOk
    BY <2>1, <1>a, Failing
  <2>3. /\ pc \in {"detail", "newest"} /\ UNCHANGED <<via, aborted>>
        /\ UNCHANGED queueVars /\ UNCHANGED browseVars
    BY <1>5 DEF SempAborted
  <2>4. Typed' /\ Tallied' /\ Paths'
    BY <2>1, <2>2, <2>3, <1>0 DEF Typed, Tallied, Paths, bound, queueVars, browseVars
  <2>5. Known' /\ Counted' /\ Ends'
    BY <2>1, <2>2, <2>3, <1>0
       DEF Known, Counted, Ends, CancelledIsNotOk, VerifiedExists, BrowsedRange,
           CountLiesBetween, queueVars
  <2> QED BY <2>4, <2>5 DEF IInv
<1>6. CASE AbortedStart
  <2>1. PICK e \in ErrorKinds : Failed(e) /\ pc' = "done"
    BY <1>6 DEF AbortedStart, ErrorKinds
  <2>2. result' \in Results /\ ~result'.sourceOk
    BY <2>1, <1>a, Failing
  <2>3. pc = "start" /\ UNCHANGED <<via, aborted>> /\ UNCHANGED queueVars /\ UNCHANGED browseVars
    BY <1>6 DEF AbortedStart
  <2>4. Typed' /\ Tallied' /\ Paths'
    BY <2>1, <2>2, <2>3, <1>0 DEF Typed, Tallied, Paths, bound, queueVars, browseVars
  <2>5. Known' /\ Counted' /\ Ends'
    BY <2>1, <2>2, <2>3, <1>0
       DEF Known, Counted, Ends, CancelledIsNotOk, VerifiedExists, BrowsedRange,
           CountLiesBetween, queueVars
  <2> QED BY <2>4, <2>5 DEF IInv
<1>7. CASE BrowseStart
  <2>1. /\ via = "queue-browser" /\ pc = "start" /\ result = EmptyResult
        /\ UNCHANGED <<via, aborted, cursor, tally, idle>> /\ UNCHANGED queueVars
        /\ browser = "none" /\ bind = None
    BY <1>7, <1>0 DEF BrowseStart, Known, Paths
  <2>2. CASE /\ \E e \in {"no session", "bind failed"} : Failed(e)
             /\ pc' = "done" /\ UNCHANGED <<browser, bind>>
    <3>1. result' \in Results /\ ~result'.sourceOk
      BY <2>2, <1>a, Failing DEF ErrorKinds
    <3>2. Typed' /\ Tallied' /\ Paths'
      BY <2>1, <2>2, <3>1, <1>0 DEF Typed, Tallied, Paths, bound, queueVars
    <3>3. Known' /\ Counted' /\ Ends'
      BY <2>1, <2>2, <3>1, <1>0
         DEF Known, Counted, Ends, CancelledIsNotOk, VerifiedExists, BrowsedRange,
             CountLiesBetween, queueVars
    <3> QED BY <3>2, <3>3 DEF IInv
  <2>3. CASE pc' = "browse" /\ browser' = "asked" /\ bind' = BindTicks /\ UNCHANGED result
    <3>1. Typed' /\ Tallied' /\ Paths'
      BY <2>1, <2>3, <1>0 DEF Typed, Tallied, Paths, bound, queueVars
    <3>2. Known' /\ Ends'
      BY <2>1, <2>3
         DEF Known, Ends, CancelledIsNotOk, VerifiedExists, BrowsedRange,
             CountLiesBetween, EmptyResult
    <3>3. Counted'
      <4>1. tally.count = 0 /\ counted = {}
        BY <2>1, <1>0 DEF Counted
      <4>2. Cardinality({}) = 0
        BY FS_EmptySet
      <4> QED BY <4>1, <4>2, <2>1, <2>3, <1>0 DEF Counted, queueVars
    <3> QED BY <3>1, <3>2, <3>3 DEF IInv
  <2> QED BY <2>2, <2>3, <1>7 DEF BrowseStart
<1>8. CASE BrowserUp
  <2>1. /\ browser = "asked" /\ exists /\ browser' = "up" /\ idle' = IdleTicks
        /\ UNCHANGED <<via, pc, aborted, cursor, tally, bind>> /\ UNCHANGED queueVars
    BY <1>8 DEF BrowserUp, resetIdleTimer
  <2>2. PICK x \in Access : result' = [result EXCEPT !.access = x]
    BY <1>8 DEF BrowserUp, Access
  <2>3. /\ result' \in Results /\ result'.sourceOk = result.sourceOk
        /\ result'.messageCount = result.messageCount
        /\ result'.oldest = result.oldest /\ result'.newest = result.newest
    BY <2>2, <1>a DEF Results
  <2>4. via = "queue-browser" /\ pc \in {"browse", "done"}
    BY <2>1, <1>0 DEF Paths
  <2>5. Typed' /\ Tallied' /\ Paths'
    BY <2>1, <2>3, <2>4, <1>0 DEF Typed, Tallied, Paths, bound, queueVars
  <2>6. Known' /\ Counted' /\ Ends'
    BY <2>1, <2>3, <2>4, <1>0
       DEF Known, Counted, Ends, CancelledIsNotOk, VerifiedExists, BrowsedRange,
           CountLiesBetween, bound, queueVars
  <2> QED BY <2>5, <2>6 DEF IInv
<1>9. CASE ConnectFailed
  <2>1. via = "queue-browser" /\ pc \in {"browse", "done"}
    BY <1>9, <1>0 DEF ConnectFailed, Paths, Typed
  <2> QED BY <2>1, <1>9, SettleStep DEF ConnectFailed, ErrorKinds
<1>10. CASE BrowserDown /\ ~(aborted /\ Unfinished)
  <2>1. via = "queue-browser" /\ pc \in {"browse", "done"}
    BY <1>10, <1>0 DEF BrowserDown, Paths, Typed
  <2>2. CASE bound
    BY <2>1, <2>2, <1>10, SettleStep DEF BrowserDown
  <2>3. CASE ~bound
    BY <2>1, <2>3, <1>10, SettleStep DEF BrowserDown, ErrorKinds
  <2> QED BY <2>2, <2>3
<1>11. CASE Message
  <2>1. /\ bound /\ UNCHANGED <<via, pc, aborted, result, browser, bind, spool, nextId, exists>>
        /\ idle' = IdleTicks
        /\ counted' = IF Unfinished THEN counted \cup {cursor'} ELSE counted
        /\ tally' = [count |-> tally.count + 1,
                     oldest |-> IF tally.oldest = None THEN cursor' ELSE tally.oldest,
                     newest |-> cursor']
    BY <1>11 DEF Message, resetIdleTimer
  <2>2. cursor' \in Ids /\ cursor' \in spool /\ cursor' > cursor
    <3>1. Undelivered \in SUBSET Ids /\ Undelivered # {} /\ cursor' = Oldest(Undelivered)
      BY <1>11, <1>a DEF Message, Undelivered
    <3>2. cursor' \in Undelivered
      BY <3>1, Extremes
    <3> QED BY <3>1, <3>2, <1>a DEF Undelivered
  <2>3. /\ tally.count \in 0..MaxId /\ tally.oldest \in Ids \cup {None}
        /\ tally.count <= cursor /\ cursor \in 0..MaxId /\ cursor' \in 1..MaxId
    BY <1>0, <1>a, <2>2 DEF Tallied, Tallies, Ids
  <2>4. Tallied'
    <3>1. tally'.count = tally.count + 1 /\ tally'.newest = cursor'
      BY <2>1
    <3>2. CASE tally.count = 0
      BY <2>1, <2>2, <2>3, <3>1, <3>2, <1>0 DEF Tallied
    <3>3. CASE tally.count # 0
      <4>1. /\ tally.oldest \in Ids /\ tally'.oldest = tally.oldest
            /\ tally.oldest + tally.count <= cursor + 1
        BY <2>1, <3>3, <1>0 DEF Tallied
      <4> QED BY <2>2, <2>3, <3>1, <3>3, <4>1 DEF Tallied, Ids
    <3> QED BY <3>2, <3>3
  <2>5. tally' \in Tallies
    <3>1. tally.count + 1 \in 0..MaxId
      BY <2>2, <2>3
    <3> QED BY <2>1, <2>2, <2>3, <3>1 DEF Tallies
  <2>6. /\ cursor' \in 0..MaxId /\ idle' \in 0..IdleTicks \cup {None}
        /\ counted' \in SUBSET Ids
    BY <2>1, <2>2, <2>3, <1>0 DEF Typed
  <2>7. Typed' /\ Paths'
    BY <2>1, <2>5, <2>6, <1>0 DEF Typed, Paths, bound, queueVars
  <2>8. Known' /\ Ends'
    BY <2>1, <1>0
       DEF Known, Ends, CancelledIsNotOk, VerifiedExists, BrowsedRange,
           CountLiesBetween, bound, Unfinished
  <2>9. Counted'
    <3>1. via = "queue-browser" /\ pc \in {"browse", "done"}
      BY <2>1, <1>0 DEF Paths, bound
    <3>2. /\ spool \subseteq 1..(nextId - 1) /\ counted \subseteq 1..(nextId - 1)
          /\ counted' \subseteq counted \cup {cursor'}
      BY <2>1, <1>0 DEF Counted
    <3>3. cursor' \in spool
      BY <2>2
    <3>4. CASE pc = "done"
      BY <3>2, <3>4, <2>1, <1>0 DEF Counted, Unfinished
    <3>5. CASE pc = "browse"
      <4>1. /\ tally.count = Cardinality(counted) /\ counted \in SUBSET Ids
            /\ \A i \in counted : /\ tally.oldest # None
                                  /\ tally.oldest <= i /\ i <= cursor
            /\ counted' = counted \cup {cursor'}
        BY <3>5, <2>1, <1>0 DEF Counted, Unfinished, Typed
      <4>2. cursor' \notin counted
        BY <4>1, <2>2, <2>3
      <4>3. IsFiniteSet(counted)
        <5>1. IsFiniteSet(Ids)
          BY FS_Interval DEF Ids
        <5> QED BY <5>1, <4>1, FS_Subset
      <4>4. Cardinality(counted') = tally'.count
        BY <4>1, <4>2, <4>3, <2>1, FS_AddElement
      <4>5. tally'.oldest # None /\ tally'.oldest <= cursor'
        <5>1. CASE tally.oldest = None
          BY <5>1, <2>1, <2>2
        <5>2. CASE tally.oldest # None
          <6>1. tally.count # 0 => tally.oldest + tally.count <= cursor + 1
            BY <5>2, <1>0 DEF Tallied
          <6>2. tally.count # 0
            BY <5>2, <1>0 DEF Tallied
          <6>3. tally.oldest \in Nat
            BY <5>2, <2>3
          <6>4. tally.oldest <= cursor
            BY <6>1, <6>2, <6>3, <2>3
          <6> QED BY <6>3, <6>4, <5>2, <2>1, <2>2, <2>3
        <5> QED BY <5>1, <5>2
      <4>6. \A i \in counted' : tally'.oldest # None /\ tally'.oldest <= i /\ i <= cursor'
        <5> TAKE i \in counted'
        <5>1. CASE i = cursor'
          BY <5>1, <4>5, <2>2, <2>3
        <5>2. CASE i \in counted
          <6>1. tally.oldest # None /\ tally.oldest <= i /\ i <= cursor /\ i \in Nat
            BY <5>2, <4>1
          <6> QED BY <6>1, <2>1, <2>2, <2>3
        <5> QED BY <5>1, <5>2, <4>1
      <4>7. spool' \subseteq 1..(nextId' - 1) /\ counted' \subseteq 1..(nextId' - 1)
        BY <3>2, <3>3, <2>1
      <4> QED BY <3>5, <4>4, <4>6, <4>7, <2>1 DEF Counted
    <3> QED BY <3>1, <3>4, <3>5
  <2> QED BY <2>4, <2>7, <2>8, <2>9 DEF IInv
<1>12. CASE IdleFires /\ ~(aborted /\ Unfinished)
  <2>1. bound /\ via = "queue-browser" /\ pc \in {"browse", "done"}
    BY <1>12, <1>0 DEF IdleFires, Paths, bound
  <2> QED BY <2>1, <1>12, SettleStep DEF IdleFires
<1>13. CASE BindTimerFires
  <2>1. via = "queue-browser" /\ pc \in {"browse", "done"}
    BY <1>13, <1>0 DEF BindTimerFires, Paths, Typed
  <2> QED BY <2>1, <1>13, SettleStep DEF BindTimerFires, ErrorKinds
<1>14. CASE BrowseAborted
  <2>1. via = "queue-browser" /\ pc \in {"browse", "done"}
    BY <1>14, <1>0 DEF BrowseAborted, Paths, Typed
  <2> QED BY <2>1, <1>14, SettleStep DEF BrowseAborted, ErrorKinds
<1>15. CASE Abort
  <2>1. Typed' /\ Tallied' /\ Paths'
    BY <1>15, <1>0 DEF Abort, Typed, Tallied, Paths, bound, queueVars, browseVars
  <2>2. Known' /\ Counted' /\ Ends'
    BY <1>15, <1>0
       DEF Abort, Known, Counted, Ends, CancelledIsNotOk, VerifiedExists, BrowsedRange,
           CountLiesBetween, bound, queueVars, browseVars, Unfinished
  <2> QED BY <2>1, <2>2 DEF IInv
<1>16. CASE OtherPublishes
  <2>1. nextId \in Ids /\ nextId + 1 \in 1..(MaxId + 1)
    BY <1>16, <1>0 DEF OtherPublishes, Typed, Ids
  <2>2. Typed' /\ Tallied' /\ Paths'
    BY <1>16, <2>1, <1>0 DEF OtherPublishes, Typed, Tallied, Paths, bound, browseVars
  <2>3. Known' /\ CancelledIsNotOk' /\ VerifiedExists' /\ BrowsedRange'
    BY <1>16, <1>0
       DEF OtherPublishes, Known, Ends, CancelledIsNotOk, VerifiedExists,
           BrowsedRange, bound, browseVars
  <2>4. /\ spool' = spool \cup {nextId} /\ nextId' = nextId + 1
        /\ UNCHANGED <<counted, pc, result, tally, cursor, via>>
        /\ spool \subseteq 1..(nextId - 1) /\ counted \subseteq 1..(nextId - 1)
    BY <1>16, <1>0 DEF OtherPublishes, browseVars, Counted
  <2>5. \A j \in counted : j \in Nat /\ j < nextId
    BY <2>1, <2>4
  <2>6. spool' \subseteq 1..(nextId' - 1) /\ counted' \subseteq 1..(nextId' - 1)
    BY <2>1, <2>4 DEF Ids
  <2>7. pc = "newest" => \A i \in spool', j \in counted : i \in counted \/ j < i
    BY <2>4, <2>5, <1>0 DEF Counted
  <2>8. Counted'
    BY <2>4, <2>6, <2>7, <1>0 DEF Counted
  <2>9. counted \cap spool' = counted \cap spool
    BY <2>4, <2>5, <2>1
  <2>10. CountLiesBetween'
    BY <2>4, <2>9, <1>0 DEF Ends, CountLiesBetween
  <2> QED BY <2>2, <2>3, <2>8, <2>10 DEF IInv, Ends
<1>17. CASE OtherConsumes
  <2>1. Typed' /\ Tallied' /\ Paths'
    BY <1>17, <1>0 DEF OtherConsumes, Typed, Tallied, Paths, bound, queueVars, browseVars
  <2>2. Known' /\ Counted' /\ Ends'
    BY <1>17, <1>0
       DEF OtherConsumes, Known, Counted, Ends, CancelledIsNotOk, VerifiedExists, BrowsedRange,
           CountLiesBetween, bound, queueVars, browseVars
  <2> QED BY <2>1, <2>2 DEF IInv
<1>18. CASE Tick
  <2>1. Typed' /\ Tallied' /\ Paths'
    BY <1>18, <1>0 DEF Tick, Typed, Tallied, Paths, bound, queueVars, browseVars, Left
  <2>2. Known' /\ Counted' /\ Ends'
    BY <1>18, <1>0
       DEF Tick, Known, Counted, Ends, CancelledIsNotOk, VerifiedExists, BrowsedRange,
           CountLiesBetween, bound, queueVars, browseVars
  <2> QED BY <2>1, <2>2 DEF IInv
<1>19. CASE UNCHANGED vars
  <2>1. Typed' /\ Tallied' /\ Paths'
    BY <1>19, <1>0 DEF vars, Typed, Tallied, Paths, bound
  <2>2. Known' /\ Counted' /\ Ends'
    BY <1>19, <1>0
       DEF vars, Known, Counted, Ends, CancelledIsNotOk, VerifiedExists, BrowsedRange,
           CountLiesBetween, bound
  <2> QED BY <2>1, <2>2 DEF IInv
<1> QED
  BY <1>1, <1>2, <1>3, <1>4, <1>5, <1>6, <1>7, <1>8, <1>9, <1>10,
     <1>11, <1>12, <1>13, <1>14, <1>15, <1>16, <1>17, <1>18, <1>19 DEF Next

\* The invariant of the verification.
THEOREM Invariant == SafeSpec => []IInv
<1>1. Init => IInv
  <2> SUFFICES ASSUME Init PROVE IInv
    OBVIOUS
  <2> USE VerifyAssumption, NoneIsNoNumber DEF Init
  <2>1. EmptyResult \in Results /\ NoTally \in Tallies /\ ~EmptyResult.sourceOk
    BY DEF EmptyResult, NoTally, Results, Tallies, Access
  <2>2. spool \in SUBSET Ids /\ nextId \in 1..(MaxId + 1)
    BY DEF Ids
  <2>3. Tallied /\ Paths
    BY DEF Tallied, Paths, bound, NoTally
  <2>4. Typed
    <3>1. /\ exists \in BOOLEAN /\ counted \in SUBSET Ids /\ aborted \in BOOLEAN
          /\ browser \in {"none", "asked", "up"} /\ via \in {"semp", "queue-browser"}
          /\ pc \in {"start", "detail", "newest", "browse", "done"}
      OBVIOUS
    <3>2. /\ result \in Results /\ tally \in Tallies
          /\ idle \in 0..IdleTicks \cup {None} /\ bind \in 0..BindTicks \cup {None}
      BY <2>1
    <3>3. cursor \in 0..MaxId
      OBVIOUS
    <3> QED BY <2>2, <3>1, <3>2, <3>3 DEF Typed
  <2>5. Known /\ Counted /\ Ends
    BY DEF Known, Counted, Ends, CancelledIsNotOk, VerifiedExists, BrowsedRange,
           CountLiesBetween, NoTally
  <2> QED BY <2>3, <2>4, <2>5 DEF IInv
<1> QED
  BY <1>1, Step, PTL DEF SafeSpec

\* Type correctness.
THEOREM TypeCorrect == SafeSpec => []TypeOK
<1>1. IInv => TypeOK
  BY DEF IInv, Typed, TypeOK, Results, Tallies
<1> QED BY <1>1, Invariant, PTL

\* An abort never ends in a verified queue, wherever it falls.
THEOREM AbortNeverVerifies == SafeSpec => []CancelledIsNotOk
<1>1. IInv => CancelledIsNotOk
  BY DEF IInv, Ends
<1> QED BY <1>1, Invariant, PTL

\* A verified queue exists, and was bound if it was browsed.
THEOREM VerifiedIsThere == SafeSpec => []VerifiedExists
<1>1. IInv => VerifiedExists
  BY DEF IInv, Ends
<1> QED BY <1>1, Invariant, PTL

\* Whatever becomes of the queue while it is verified: the bounds that are reported hold
\* between them what was counted and is still there.
THEOREM CountIsBounded == SafeSpec => []CountLiesBetween
<1>1. IInv => CountLiesBetween
  BY DEF IInv, Ends
<1> QED BY <1>1, Invariant, PTL

\* The count of a browse fits between the oldest and the newest it reports.
THEOREM BrowseFits == SafeSpec => []BrowsedRange
<1>1. IInv => BrowsedRange
  BY DEF IInv, Ends
<1> QED BY <1>1, Invariant, PTL

\* No late event changes a result that was handed over, but for the permission of
\* a queue that was not verified.
THEOREM ResultIsFinal == SafeSpec => SettledIsFinal
<1>1. IInv /\ [Next]_vars =>
        ((pc = "done") => /\ pc' = "done"
                          /\ result.sourceOk => result' = result
                          /\ result' = [result EXCEPT !.access = result'.access])
  <2> SUFFICES ASSUME IInv, [Next]_vars, pc = "done"
               PROVE  /\ pc' = "done"
                      /\ result.sourceOk => result' = result
                      /\ result' = [result EXCEPT !.access = result'.access]
    OBVIOUS
  <2>1. result \in Results /\ VerifiedExists /\ Paths
    BY DEF IInv, Typed, Ends
  <2>2. CASE UNCHANGED <<pc, result>>
    BY <2>1, <2>2 DEF Results
  <2>3. CASE BrowserUp
    <3>1. PICK x \in {"read-only", "read-write", None} :
            result' = [result EXCEPT !.access = x] /\ pc' = pc /\ browser = "asked"
      BY <2>3 DEF BrowserUp
    <3>2. ~result.sourceOk
      BY <2>1, <3>1 DEF VerifiedExists, Paths, bound
    <3>3. result' = [result EXCEPT !.access = result'.access]
      BY <2>1, <3>1 DEF Results
    <3> QED BY <3>1, <3>2, <3>3
  <2>4. UNCHANGED <<pc, result>> \/ BrowserUp
    BY DEF Next, SempStart, DetailFails, DetailArrives, NewestArrives, SempAborted,
           AbortedStart, BrowseStart, ConnectFailed, BrowserDown, Message, IdleFires,
           BindTimerFires, BrowseAborted, Settle, Abort, OtherPublishes, OtherConsumes,
           Tick, Unfinished, vars
  <2> QED BY <2>2, <2>3, <2>4
<1> QED
  BY <1>1, Invariant, PTL DEF SafeSpec, SettledIsFinal
=============================================================================
