--------------------------- MODULE Learning_proofs ---------------------------
(***************************************************************************)
(* Proofs about the two parts that learn from the traffic, Tuner and       *)
(* Cluster, one after the other.                                           *)
(*                                                                         *)
(* The tuner, for any vectors of weights, loops and window, when calls of  *)
(* POST /tuner come one at a time: two at once refute SwitchedRight (the   *)
(* run tuner_loops).                                                       *)
(***************************************************************************)
EXTENDS Tuner, Cluster, FiniteSetTheorems, TLAPS

OneCall == MaxCalls <= 1

\* Between calls the loop of _task sleeps if the switch is on, and a call
\* waits only for the end of a loop that was switched off.
Owned ==
    \/ /\ calls = <<>>
       /\ task \in Loops <=> enabled
       /\ \A k \in Loops : loop[k] = IF k = task THEN "sleeping" ELSE "none"
    \/ /\ ~enabled /\ task \in Loops
       /\ calls = <<[on |-> FALSE, of |-> task]>>
       /\ loop[task] \in {"cancelled", "done"}
       /\ \A k \in Loops \ {task} : loop[k] = "none"

\* Weights set by hand are in force until they are measured, and the
\* measurement is ordered.
HandKept == hand # None => enabled /\ pending /\ weights = hand

\* The inductive invariant.
TunerInv == TunerTypeOK /\ Owned /\ HandKept
-----------------------------------------------------------------------------
LEMMA Off == None \notin Loops /\ None \notin Weights
BY TunerAssumption DEF TunerAssumption

LEMMA EmptyType ==
  Empty \in [n : 0 .. MinSamples, extensions : 0 .. MaxExtensions, since : 0 .. Remeasure]
BY TunerAssumption DEF TunerAssumption, Empty

LEMMA OwnedAlone ==
  ASSUME NEW t \in Loops, enabled, calls = <<>>, task = t, loop = Running(t)
  PROVE  Owned
BY DEF Owned, Running

LEMMA InitIInv == TunerInit => TunerInv
<1> SUFFICES ASSUME TunerInit PROVE TunerInv
  OBVIOUS
<1>0a. calls \in Seq([on : BOOLEAN, of : Loops])
  BY DEF TunerInit
<1>0b. task \in Loops /\ loop \in [Loops -> {"none", "sleeping", "cancelled", "done"}]
  BY DEF TunerInit, Running
<1>1. TunerTypeOK
  BY <1>0a, <1>0b, EmptyType, TunerAssumption DEF TunerInit, TunerTypeOK, TunerAssumption
<1>2. Owned
  BY OwnedAlone DEF TunerInit
<1>3. HandKept
  BY DEF TunerInit, HandKept
<1> QED BY <1>1, <1>2, <1>3 DEF TunerInv

-----------------------------------------------------------------------------
(* The steps of a loop.                                                     *)

\* A loop that sleeps is that of _task, and the switch is on.
LEMMA SleeperOwned ==
  ASSUME Owned, NEW l \in Loops, loop[l] = "sleeping"
  PROVE  enabled /\ calls = <<>> /\ task = l
BY DEF Owned

LEMMA OwnedKept ==
  ASSUME Owned, UNCHANGED <<enabled, tasks>>
  PROVE  Owned'
BY DEF Owned, tasks

LEMMA CycleTypes ==
  ASSUME TunerInv, NEW l \in Loops, Cycle(l)
  PROVE  TunerTypeOK'
<1>1. TunerTypeOK /\ UNCHANGED <<enabled, tasks>>
  BY DEF TunerInv, Cycle, ExtendOrDiscard, Measure, Adopt, Reject
<1>2. ASSUME NEW base \in Weights \cup {None} PROVE Trials(base) \subseteq Weights
  BY DEF Trials
<1>3. CASE ExtendOrDiscard
  <2>1. counts' \in [n : 0 .. MinSamples, extensions : 0 .. MaxExtensions, since : 0 .. Remeasure]
    BY <1>1, <1>3, EmptyType, TunerAssumption DEF TunerTypeOK, ExtendOrDiscard, TunerAssumption, Empty
  <2> QED BY <1>1, <1>3, <2>1 DEF TunerTypeOK, ExtendOrDiscard, tasks
<1>4. CASE Measure
  BY <1>1, <1>2, <1>4, EmptyType DEF TunerTypeOK, Measure, tasks
<1>5. ~Measures => [Empty EXCEPT !.since = counts.since + 1]
                     \in [n : 0 .. MinSamples, extensions : 0 .. MaxExtensions, since : 0 .. Remeasure]
  BY <1>1, EmptyType, TunerAssumption DEF TunerTypeOK, Measures, TunerAssumption, Empty
<1>6. CASE Adopt
  BY <1>1, <1>2, <1>5, <1>6 DEF TunerTypeOK, Adopt, tasks
<1>7. CASE Reject
  BY <1>1, <1>2, <1>5, <1>7 DEF TunerTypeOK, Reject, tasks
<1> QED BY <1>3, <1>4, <1>6, <1>7 DEF Cycle

LEMMA CycleHand ==
  ASSUME TunerInv, NEW l \in Loops, Cycle(l)
  PROVE  HandKept'
<1>1. HandKept
  BY DEF TunerInv
<1>2. CASE ExtendOrDiscard
  BY <1>1, <1>2 DEF HandKept, ExtendOrDiscard
<1>3. CASE Measure
  BY <1>3 DEF HandKept, Measure
<1>4. CASE Adopt
  BY <1>1, <1>4 DEF HandKept, Adopt, Measures
<1>5. CASE Reject
  BY <1>1, <1>5 DEF HandKept, Reject, Measures
<1> QED BY <1>2, <1>3, <1>4, <1>5 DEF Cycle

LEMMA CycleIInv ==
  ASSUME TunerInv, NEW l \in Loops, Cycle(l)
  PROVE  TunerInv'
<1>1. UNCHANGED <<enabled, tasks>>
  BY DEF Cycle, ExtendOrDiscard, Measure, Adopt, Reject
<1> QED BY <1>1, CycleTypes, CycleHand, OwnedKept DEF TunerInv

\* What a loop does to the weights.
LEMMA CycleMoves ==
  ASSUME TunerInv, NEW l \in Loops, Cycle(l), weights' # weights
  PROVE  enabled /\ (hand # None => baseline' = hand)
<1>1. Owned /\ HandKept
  BY DEF TunerInv
<1>2. enabled
  BY <1>1, SleeperOwned DEF Cycle
<1>3. ~ExtendOrDiscard
  BY DEF ExtendOrDiscard
<1>4. CASE Measure
  BY <1>1, <1>2, <1>4 DEF Measure, HandKept
<1>5. CASE Adopt
  BY <1>1, <1>2, <1>5 DEF Adopt, HandKept, Measures
<1>6. CASE Reject
  BY <1>1, <1>2, <1>6 DEF Reject, HandKept, Measures
<1> QED BY <1>3, <1>4, <1>5, <1>6 DEF Cycle

-----------------------------------------------------------------------------
(* The operator.                                                            *)

LEMMA SwitchTypes ==
  ASSUME TunerTypeOK, NEW on \in BOOLEAN, Switched(on)
  PROVE  /\ enabled' = on /\ HandKept'
         /\ enabled' \in BOOLEAN /\ pending' \in BOOLEAN /\ weights' \in Weights
         /\ {baseline', saved', hand'} \subseteq Weights \cup {None}
         /\ counts' \in [n : 0 .. MinSamples, extensions : 0 .. MaxExtensions, since : 0 .. Remeasure]
<1>1. CASE on
  BY <1>1, EmptyType DEF TunerTypeOK, Switched, HandKept
<1>2. CASE ~on
  BY <1>2 DEF TunerTypeOK, Switched, HandKept
<1> QED BY <1>1, <1>2

\* A loop that is not referred to and has ended is gone; with no call under
\* way and no loop that runs, none is left.
LEMMA NoneLeft ==
  ASSUME NEW loops, \A k \in Loops : loops[k] \in {"none", "done"}
  PROVE  \A k \in Loops : Gone(loops, None, <<>>)[k] = "none"
BY Off DEF Gone

LEMMA PostIInv ==
  ASSUME OneCall, TunerInv, NEW on \in BOOLEAN, Post(on)
  PROVE  TunerInv'
<1>1. TunerTypeOK /\ Owned /\ Switched(on) /\ on # enabled
  BY DEF TunerInv, Post
<1>2. calls = <<>>
  <2>1. Len(calls) < 1
    BY TunerAssumption DEF TunerAssumption, OneCall, Post, TunerInv, TunerTypeOK
  <2> QED BY <1>1, <2>1 DEF Owned
<1>3. task \in Loops <=> enabled
  BY <1>1, <1>2 DEF Owned
<1>4. \A k \in Loops : loop[k] = IF k = task THEN "sleeping" ELSE "none"
  BY <1>1, <1>2 DEF Owned
<1>5. CASE enabled
  <2>1. on = FALSE /\ task \in Loops /\ loop[task] = "sleeping"
    BY <1>1, <1>3, <1>4, <1>5 DEF TunerTypeOK
  <2>2. /\ loop' = [loop EXCEPT ![task] = "cancelled"]
        /\ calls' = Append(calls, [on |-> on, of |-> task])
        /\ task' = task
    BY <2>1 DEF Post
  <2>3. calls' = <<[on |-> FALSE, of |-> task]>>
    <3>1. [on |-> on, of |-> task] = [on |-> FALSE, of |-> task]
      BY <2>1
    <3>2. calls' = Append(<<>>, [on |-> FALSE, of |-> task])
      BY <1>2, <2>2, <3>1, Zenon
    <3> QED BY <3>2
  <2>4. calls' \in Seq([on : BOOLEAN, of : Loops])
    BY <2>1, <2>3
  <2>5. loop' \in [Loops -> {"none", "sleeping", "cancelled", "done"}] /\ loop'[task] = "cancelled"
    BY <1>1, <2>1, <2>2 DEF TunerTypeOK
  <2>6. \A k \in Loops \ {task} : loop'[k] = "none"
    BY <1>1, <1>4, <2>2 DEF TunerTypeOK
  <2>7. TunerTypeOK'
    BY <1>1, <2>1, <2>2, <2>4, <2>5, SwitchTypes DEF TunerTypeOK
  <2>8. Owned' /\ HandKept'
    BY <1>1, <2>1, <2>2, <2>3, <2>5, <2>6, SwitchTypes DEF Owned
  <2> QED BY <2>7, <2>8 DEF TunerInv
<1>6. CASE ~enabled
  <2>1. on = TRUE /\ task \notin Loops
    BY <1>1, <1>3, <1>6 DEF TunerTypeOK
  <2>2. calls' = <<>> /\ Start(Gone(loop, None, <<>>))
    BY <1>2, <2>1 DEF Post
  <2>3. \A k \in Loops : Gone(loop, None, <<>>)[k] = "none"
    BY <1>4, <2>1, NoneLeft
  <2>4. PICK l \in Loops : task' = l /\ loop' = [Gone(loop, None, <<>>) EXCEPT ![l] = "sleeping"]
    BY <2>2 DEF Start
  <2>5. DOMAIN Gone(loop, None, <<>>) = Loops
    BY DEF Gone
  <2>6. loop' = Running(l)
    BY <2>3, <2>4, <2>5 DEF Running, Gone
  <2>7. loop' \in [Loops -> {"none", "sleeping", "cancelled", "done"}]
    BY <2>6 DEF Running
  <2>8. TunerTypeOK'
    BY <1>1, <2>2, <2>4, <2>7, SwitchTypes DEF TunerTypeOK
  <2>9. enabled'
    BY <1>1, <2>1, SwitchTypes
  <2>10. Owned'
    BY <2>2, <2>4, <2>6, <2>9 DEF Owned, Running
  <2> QED BY <1>1, <2>8, <2>10, SwitchTypes DEF TunerInv
<1> QED BY <1>5, <1>6

LEMMA PostCostIInv ==
  ASSUME TunerInv, NEW w \in Weights, PostCost(w)
  PROVE  TunerInv'
<1>1. TunerTypeOK /\ Owned
  BY DEF TunerInv
<1>2. TunerTypeOK'
  BY <1>1 DEF TunerTypeOK, PostCost, tasks
<1>3. Owned'
  BY <1>1, OwnedKept DEF PostCost
<1>4. HandKept'
  BY <1>1 DEF TunerTypeOK, PostCost, HandKept
<1> QED BY <1>2, <1>3, <1>4 DEF TunerInv

LEMMA LoopEndsIInv ==
  ASSUME TunerInv, NEW l \in Loops, LoopEnds(l)
  PROVE  TunerInv'
<1>1. TunerTypeOK /\ Owned /\ HandKept
  BY DEF TunerInv
<1>2. ~enabled /\ task \in Loops /\ l = task /\ calls = <<[on |-> FALSE, of |-> task]>>
  BY <1>1 DEF Owned, LoopEnds
<1>3. \A k \in Loops \ {task} : loop[k] = "none"
  BY <1>1, <1>2 DEF Owned, LoopEnds
<1>4. loop' = [loop EXCEPT ![task] = "done"] /\ UNCHANGED <<choices, task, calls>>
  BY <1>2 DEF LoopEnds
<1>5. loop' \in [Loops -> {"none", "sleeping", "cancelled", "done"}]
  BY <1>1, <1>4 DEF TunerTypeOK
<1>6. TunerTypeOK'
  BY <1>1, <1>4, <1>5 DEF TunerTypeOK, choices
<1>7. loop'[task] = "done" /\ \A k \in Loops \ {task} : loop'[k] = "none"
  BY <1>1, <1>2, <1>3, <1>4 DEF TunerTypeOK
<1>8. Owned'
  BY <1>2, <1>4, <1>7 DEF Owned, choices
<1>9. HandKept'
  BY <1>1, <1>4 DEF HandKept, choices
<1> QED BY <1>6, <1>8, <1>9 DEF TunerInv

LEMMA ResumeIInv ==
  ASSUME TunerInv, NEW i \in DOMAIN calls, Resume(i)
  PROVE  TunerInv'
<1>1. TunerTypeOK /\ Owned /\ HandKept
  BY DEF TunerInv
<1>2. ~enabled /\ task \in Loops /\ calls = <<[on |-> FALSE, of |-> task]>>
  BY <1>1 DEF Owned
<1>3. i = 1 /\ calls[i].of = task /\ ~calls[i].on
  BY <1>2
<1>4. RemoveAt(calls, i) = <<>>
  <2>1. Len(calls) = 1 /\ calls \in Seq([on : BOOLEAN, of : Loops])
    BY <1>1, <1>2 DEF TunerTypeOK
  <2>2. SubSeq(calls, 1, i - 1) = <<>> /\ SubSeq(calls, i + 1, Len(calls)) = <<>>
    BY <1>3, <2>1
  <2> QED BY <2>2 DEF RemoveAt
<1>5. /\ loop[task] = "done"
      /\ task' = None /\ loop' = Gone(loop, None, <<>>) /\ calls' = <<>>
      /\ UNCHANGED choices
  BY <1>2, <1>3, <1>4 DEF Resume
<1>6. \A k \in Loops : loop[k] \in {"none", "done"}
  BY <1>1, <1>2, <1>5 DEF Owned
<1>7. \A k \in Loops : loop'[k] = "none"
  BY <1>5, <1>6, NoneLeft
<1>8. loop' \in [Loops -> {"none", "sleeping", "cancelled", "done"}]
  BY <1>5, <1>7 DEF Gone
<1>9. TunerTypeOK'
  BY <1>1, <1>5, <1>8 DEF TunerTypeOK, choices
<1>10. Owned'
  BY <1>2, <1>5, <1>7, Off DEF Owned, choices
<1>11. HandKept'
  BY <1>1, <1>5 DEF HandKept, choices
<1> QED BY <1>9, <1>10, <1>11 DEF TunerInv

LEMMA RestartIInv ==
  ASSUME TunerInv, Restart
  PROVE  TunerInv'
<1>1. TunerTypeOK
  BY DEF TunerInv
<1>2. PICK t \in Loops : task' = t /\ loop' = Running(t)
  BY DEF Restart
<1>3. Restored(saved) \in Weights \cup {None} /\ Starting(saved) \in Weights
  BY TunerAssumption DEF TunerAssumption, Restored, Starting
<1>4. loop' \in [Loops -> {"none", "sleeping", "cancelled", "done"}]
  BY <1>2 DEF Running
<1>5. TunerTypeOK'
  <2>1. calls' \in Seq([on : BOOLEAN, of : Loops])
    BY DEF Restart
  <2>2. task' \in Loops \cup {None}
    BY <1>2
  <2>3. enabled' \in BOOLEAN /\ pending' \in BOOLEAN /\ weights' \in Weights
    BY <1>3 DEF Restart
  <2>4. {baseline', saved', hand'} \subseteq Weights \cup {None}
    BY <1>1, <1>3 DEF TunerTypeOK, Restart
  <2>5. counts' = Empty
    BY DEF Restart
  <2> QED BY <1>4, <2>1, <2>2, <2>3, <2>4, <2>5, EmptyType DEF TunerTypeOK
<1>6. Owned'
  BY <1>2 DEF Owned, Running, Restart
<1>7. HandKept'
  BY DEF HandKept, Restart
<1> QED BY <1>5, <1>6, <1>7 DEF TunerInv

LEMMA SampleIInv ==
  ASSUME TunerInv, Sample
  PROVE  TunerInv'
<1>1. TunerTypeOK /\ Owned /\ HandKept
  BY DEF TunerInv
<1>2. counts' \in [n : 0 .. MinSamples, extensions : 0 .. MaxExtensions, since : 0 .. Remeasure]
  BY <1>1, TunerAssumption DEF TunerTypeOK, Sample, TunerAssumption
<1>3. TunerTypeOK'
  BY <1>1, <1>2 DEF TunerTypeOK, Sample, tasks
<1>4. Owned' /\ HandKept'
  BY <1>1, OwnedKept DEF Sample, HandKept
<1> QED BY <1>3, <1>4 DEF TunerInv

-----------------------------------------------------------------------------
LEMMA NextIInv ==
  ASSUME OneCall, TunerInv, [TunerNext]_tunerVars
  PROVE  TunerInv'
<1>1. CASE UNCHANGED tunerVars
  BY <1>1 DEF tunerVars, TunerInv, TunerTypeOK, Owned, HandKept
<1>2. CASE TunerNext
  BY <1>2, SampleIInv, CycleIInv, LoopEndsIInv, PostCostIInv, PostIInv, ResumeIInv, RestartIInv
  DEF TunerNext
<1> QED BY <1>1, <1>2

LEMMA Invariant == OneCall => (TunerSpec => []TunerInv)
<1> SUFFICES ASSUME OneCall PROVE TunerSpec => []TunerInv
  OBVIOUS
<1>1. TunerInit => TunerInv
  BY InitIInv
<1>2. TunerInv /\ [TunerNext]_tunerVars => TunerInv'
  BY NextIInv
<1> QED BY <1>1, <1>2, PTL DEF TunerSpec

\* Calls of POST /tuner that come one at a time leave exactly the loop of
\* _task when the switch is on, and none when it is off.
THEOREM LoopFollowsSwitch == OneCall => (TunerSpec => []SwitchedRight)
<1> SUFFICES ASSUME OneCall PROVE TunerSpec => []SwitchedRight
  OBVIOUS
<1>1. TunerInv => SwitchedRight
  BY Off DEF TunerInv, Owned, SwitchedRight
<1>2. TunerSpec => []TunerInv
  BY Invariant
<1> QED BY <1>1, <1>2, PTL

\* The tuner's variables keep their shape, its counters their limits.
THEOREM TunerTypes == OneCall => (TunerSpec => []TunerTypeOK)
<1> SUFFICES ASSUME OneCall PROVE TunerSpec => []TunerTypeOK
  OBVIOUS
<1>1. TunerInv => TunerTypeOK
  BY DEF TunerInv
<1>2. TunerSpec => []TunerInv
  BY Invariant
<1> QED BY <1>1, <1>2, PTL

\* Neither a trial nor a return to the baseline takes back weights set by
\* hand before they were measured, and a tuner that is off moves nothing.
THEOREM HandNotTakenBack == OneCall => (TunerSpec => WeightsMoved)
<1> SUFFICES ASSUME OneCall PROVE TunerSpec => WeightsMoved
  OBVIOUS
<1> DEFINE Moved ==
      weights' # weights =>
          \/ Restart \/ enabled' # enabled \/ \E w \in Weights : PostCost(w)
          \/ enabled /\ (hand # None => baseline' = hand)
<1>1. TunerInv /\ [TunerNext]_tunerVars => [Moved]_tunerVars
  <2> SUFFICES ASSUME TunerInv, TunerNext, weights' # weights PROVE Moved
    BY DEF tunerVars
  <2>1. ~Sample /\ \A l \in Loops : ~LoopEnds(l)
    BY DEF Sample, LoopEnds, choices
  <2>2. \A i \in DOMAIN calls : ~Resume(i)
    BY DEF Resume, choices
  <2>3. ASSUME NEW on \in BOOLEAN, Post(on) PROVE Moved
    BY <2>3 DEF Post, Switched
  <2>4. ASSUME NEW l \in Loops, Cycle(l) PROVE Moved
    BY <2>4, CycleMoves
  <2> QED BY <2>1, <2>2, <2>3, <2>4 DEF TunerNext
<1>2. TunerSpec => []TunerInv
  BY Invariant
<1> QED BY <1>1, <1>2, PTL DEF TunerSpec, WeightsMoved

-----------------------------------------------------------------------------
(***************************************************************************)
(* The clusters, for any sets of clients and targets and any limits.       *)
(***************************************************************************)
LEMMA Limits ==
  /\ MaxEntries \in Nat \ {0} /\ MinSupport \in Nat \ {0}
  /\ Window \in Nat \ {0} /\ Throttle \in Nat \ {0} /\ Ttl \in Nat \ {0}
BY ClusterAssumption DEF ClusterAssumption

\* The index has the edges of the graph, each once, in the order of a list
\* (Chain), along which the ages never grow.
Chain(S, before) ==
    /\ before \subseteq S \X S
    /\ \A d, e \in S : <<d, e>> \in before => d # e /\ <<e, d>> \notin before
    /\ \A d, e \in S : d # e => <<d, e>> \in before \/ <<e, d>> \in before
    /\ \A d, e, f \in S : <<d, e>> \in before /\ <<e, f>> \in before => <<d, f>> \in before

Indexed(m) ==
    /\ m = [graph |-> m.graph, lru |-> [edges |-> DOMAIN m.graph, before |-> m.lru.before]]
    /\ IsFiniteSet(DOMAIN m.graph) /\ DOMAIN m.graph \subseteq Edges
    /\ m.graph \in [DOMAIN m.graph -> [hits : 1 .. MinSupport, age : 0 .. Ttl + 1]]
    /\ Chain(DOMAIN m.graph, m.lru.before)
    /\ \A d, e \in DOMAIN m.graph : <<d, e>> \in m.lru.before => m.graph[d].age >= m.graph[e].age

\* The targets of a window are numbered in the order in which they came.
Numbered(seen) ==
    /\ DOMAIN seen \subseteq Targets /\ IsFiniteSet(DOMAIN seen)
    /\ seen \in [DOMAIN seen -> 1 .. Cardinality(DOMAIN seen)]
    /\ \A t, u \in DOMAIN seen : seen[t] = seen[u] => t = u

\* The pairs of a window come one after another.
LEMMA PairsInTurn ==
  ASSUME NEW seen, Numbered(seen)
  PROVE  LET P == Pairs(seen)
             before == {p \in P \X P : Sooner(seen, p[1], p[2])}
         IN  IsFiniteSet(P) /\ P \subseteq Edges /\ Chain(P, before)
<1> DEFINE P == Pairs(seen)
           before == {p \in P \X P : Sooner(seen, p[1], p[2])}
           S == DOMAIN seen
<1>1. IsFiniteSet(S \X S)
  BY FS_Product DEF Numbered
<1>2. P \subseteq S \X S
  BY DEF Pairs
<1>3. IsFiniteSet(P)
  BY <1>1, <1>2, FS_Subset
<1>4. P \subseteq Edges
  BY DEF Numbered, Pairs, Edges
<1>5. \A p \in P : p = <<p[1], p[2]>> /\ seen[p[1]] \in Nat /\ seen[p[2]] \in Nat /\ seen[p[1]] # seen[p[2]]
  <2> SUFFICES ASSUME NEW p \in P
               PROVE  p = <<p[1], p[2]>> /\ seen[p[1]] \in Nat /\ seen[p[2]] \in Nat /\ seen[p[1]] # seen[p[2]]
    OBVIOUS
  <2>1. p[1] \in S /\ p[2] \in S /\ p[1] # p[2] /\ p = <<p[1], p[2]>>
    BY DEF Pairs
  <2>2. Cardinality(S) \in Nat
    BY FS_CardinalityType DEF Numbered
  <2> QED BY <2>1, <2>2 DEF Numbered
<1>6. \A p, q \in P : seen[p[1]] = seen[q[1]] /\ seen[p[2]] = seen[q[2]] => p = q
  <2> SUFFICES ASSUME NEW p \in P, NEW q \in P, seen[p[1]] = seen[q[1]], seen[p[2]] = seen[q[2]]
               PROVE  p = q
    OBVIOUS
  <2>1. {p[1], p[2], q[1], q[2]} \subseteq S
    BY DEF Pairs
  <2>2. p[1] = q[1] /\ p[2] = q[2]
    BY <2>1 DEF Numbered
  <2> QED BY <1>5, <2>2
<1> DEFINE less(a, b, c, d) ==
      LET first == Least(a, b)
          next  == Least(c, d)
      IN  \/ first < next
          \/ first = next /\ a + b < c + d
          \/ first = next /\ a + b = c + d /\ a < c
<1>7. \A p, q \in P : <<p, q>> \in before <=> less(seen[p[1]], seen[p[2]], seen[q[1]], seen[q[2]])
  BY DEF Sooner
<1>8. ASSUME NEW a \in Nat, NEW b \in Nat, NEW c \in Nat, NEW d \in Nat, a # b, c # d
      PROVE  /\ less(a, b, c, d) => ~less(c, d, a, b) /\ ~(a = c /\ b = d)
             /\ ~(a = c /\ b = d) => less(a, b, c, d) \/ less(c, d, a, b)
  BY <1>8 DEF Least
<1>9. ASSUME NEW a \in Nat, NEW b \in Nat, NEW c \in Nat, NEW d \in Nat, NEW e \in Nat, NEW f \in Nat,
             less(a, b, c, d), less(c, d, e, f)
      PROVE  less(a, b, e, f)
  BY <1>9 DEF Least
<1> HIDE DEF less
<1>10. before \subseteq P \X P
  OBVIOUS
<1> HIDE DEF P, before
<1>11. \A p, q \in P : <<p, q>> \in before => p # q /\ <<q, p>> \notin before
  BY <1>5, <1>7, <1>8
<1>12. \A p, q \in P : p # q => <<p, q>> \in before \/ <<q, p>> \in before
  BY <1>5, <1>6, <1>7, <1>8
<1>13. \A p, q, r \in P : <<p, q>> \in before /\ <<q, r>> \in before => <<p, r>> \in before
  <2> SUFFICES ASSUME NEW p \in P, NEW q \in P, NEW r \in P,
                      <<p, q>> \in before, <<q, r>> \in before
               PROVE  <<p, r>> \in before
    OBVIOUS
  <2>1. less(seen[p[1]], seen[p[2]], seen[q[1]], seen[q[2]])
    BY <1>7
  <2>2. less(seen[q[1]], seen[q[2]], seen[r[1]], seen[r[2]])
    BY <1>7
  <2>3. less(seen[p[1]], seen[p[2]], seen[r[1]], seen[r[2]])
    BY <1>5, <1>9, <2>1, <2>2
  <2> QED BY <1>7, <2>3
<1>14. Chain(P, before)
  BY <1>10, <1>11, <1>12, <1>13 DEF Chain
<1> QED BY <1>3, <1>4, <1>14 DEF P, before

\* A list taken out of another and put at its end gives a list.
LEMMA ChainEnd ==
  ASSUME NEW S, NEW R, Chain(S, R), NEW P, NEW Q, Chain(P, Q)
  PROVE  Chain(S \cup P, {p \in R : p[1] \notin P /\ p[2] \notin P}
                         \cup {<<d, e>> : d \in S \ P, e \in P}
                         \cup {<<p[1], p[2]>> : p \in Q})
<1> DEFINE old == {p \in R : p[1] \notin P /\ p[2] \notin P}
           new == {<<p[1], p[2]>> : p \in Q}
           all == old \cup {<<d, e>> : d \in S \ P, e \in P} \cup new
<1>1. new = Q
  BY DEF Chain
<1>2. \A d, e : <<d, e>> \in old <=> <<d, e>> \in R /\ d \in S \ P /\ e \in S \ P
  BY DEF Chain
<1>3. \A d, e :
         <<d, e>> \in all <=>
            \/ <<d, e>> \in R /\ d \in S \ P /\ e \in S \ P
            \/ d \in S \ P /\ e \in P
            \/ <<d, e>> \in Q
  <2> DEFINE mid == {<<d, e>> : d \in S \ P, e \in P}
  <2>1. \A d, e : <<d, e>> \in mid <=> d \in S \ P /\ e \in P
    OBVIOUS
  <2>2. all = old \cup mid \cup new
    OBVIOUS
  <2> HIDE DEF mid, old, new, all
  <2>3. ASSUME NEW d, NEW e
        PROVE  <<d, e>> \in all <=> <<d, e>> \in old \/ <<d, e>> \in mid \/ <<d, e>> \in Q
    BY <1>1, <2>2
  <2> QED BY <1>2, <2>1, <2>3, Zenon
<1>4. all \subseteq (S \cup P) \X (S \cup P)
  BY <1>1 DEF Chain
<1> HIDE DEF all, old, new
<1>5. \A d, e : <<d, e>> \in Q => d \in P /\ e \in P
  BY DEF Chain
<1>6. \A d, e \in S \cup P : <<d, e>> \in all => d # e /\ <<e, d>> \notin all
  BY <1>3, <1>5 DEF Chain
<1>7. \A d, e \in S \cup P : d # e => <<d, e>> \in all \/ <<e, d>> \in all
  <2> SUFFICES ASSUME NEW d \in S \cup P, NEW e \in S \cup P, d # e
               PROVE  <<d, e>> \in all \/ <<e, d>> \in all
    OBVIOUS
  <2>1. CASE d \in P /\ e \in P
    <3>1. <<d, e>> \in Q \/ <<e, d>> \in Q
      BY <2>1 DEF Chain
    <3> QED BY <1>3, <3>1
  <2>2. CASE d \notin P /\ e \notin P
    <3>1. <<d, e>> \in R \/ <<e, d>> \in R
      BY <2>2 DEF Chain
    <3> QED BY <1>3, <2>2, <3>1
  <2>3. CASE ~(d \in P <=> e \in P)
    BY <1>3, <2>3
  <2> QED BY <2>1, <2>2, <2>3
<1>8. \A d, e, f \in S \cup P : <<d, e>> \in all /\ <<e, f>> \in all => <<d, f>> \in all
  <2> SUFFICES ASSUME NEW d \in S \cup P, NEW e \in S \cup P, NEW f \in S \cup P,
                      <<d, e>> \in all, <<e, f>> \in all
               PROVE  <<d, f>> \in all
    OBVIOUS
  <2> QED BY <1>3, <1>5 DEF Chain
<1>9. Chain(S \cup P, all)
  BY <1>4, <1>6, <1>7, <1>8 DEF Chain
<1> QED BY <1>9 DEF all, old, new

\* _bump_edge for the pairs of a window.
LEMMA BumpedIndexed ==
  ASSUME NEW m, Indexed(m), NEW seen, Numbered(seen)
  PROVE  LET P == Pairs(seen)
             n == Bumped(m, P, seen)
         IN  /\ Indexed(n) /\ DOMAIN n.graph = DOMAIN m.graph \cup P
             /\ \A e \in P : n.graph[e].age = 0
             /\ \A e \in DOMAIN m.graph \ P : n.graph[e] = m.graph[e]
<1> DEFINE P == Pairs(seen)
           S == DOMAIN m.graph
           n == Bumped(m, P, seen)
           Q == {p \in P \X P : Sooner(seen, p[1], p[2])}
           R == m.lru.before
           all == {p \in R : p[1] \notin P /\ p[2] \notin P}
                  \cup {<<d, e>> : d \in S \ P, e \in P}
                  \cup {<<p[1], p[2]>> : p \in Q}
<1>1. IsFiniteSet(P) /\ P \subseteq Edges /\ Chain(P, Q)
  BY PairsInTurn
<1>2. n.lru = [edges |-> S \cup P, before |-> all]
  <2>1. m.lru.edges = S
    BY DEF Indexed
  <2>2. n.lru = AtEnd(m.lru, P, seen)
    BY DEF Bumped
  <2> QED BY <2>1, <2>2 DEF AtEnd
<1>3. n = [graph |-> Hit(m.graph, P), lru |-> n.lru]
  BY DEF Bumped
<1>4. MinSupport \in Nat \ {0} /\ Ttl \in Nat
  BY Limits
<1>5. /\ DOMAIN n.graph = S \cup P
      /\ \A e \in P : n.graph[e].age = 0
      /\ \A e \in S \ P : n.graph[e] = m.graph[e]
  <2>1. DOMAIN n.graph = S \cup P
    BY <1>3 DEF Hit
  <2>2. ASSUME NEW e \in P PROVE n.graph[e].age = 0
    BY <1>3 DEF Hit
  <2>3. ASSUME NEW e \in S \ P PROVE n.graph[e] = m.graph[e]
    BY <1>3 DEF Hit
  <2> QED BY <2>1, <2>2, <2>3
<1>9. n.graph \in [S \cup P -> [hits : 1 .. MinSupport, age : 0 .. Ttl + 1]]
  <2>1. n.graph = [e \in S \cup P |-> n.graph[e]]
    BY <1>3 DEF Hit
  <2>2. ASSUME NEW e \in P PROVE n.graph[e] \in [hits : 1 .. MinSupport, age : 0 .. Ttl + 1]
    <3> DEFINE k == IF e \in S THEN Least(m.graph[e].hits + 1, MinSupport) ELSE 1
    <3>1. n.graph[e] = [hits |-> k, age |-> 0]
      BY <1>3 DEF Hit
    <3>2. k \in 1 .. MinSupport
      BY <1>4 DEF Least, Indexed
    <3> HIDE DEF k
    <3> QED BY <1>4, <3>1, <3>2
  <2>3. ASSUME NEW e \in S \ P PROVE n.graph[e] \in [hits : 1 .. MinSupport, age : 0 .. Ttl + 1]
    BY <1>5 DEF Indexed
  <2> HIDE DEF n, S, P
  <2> QED BY <2>1, <2>2, <2>3
<1> HIDE DEF P, S, n, Q, R
<1>6. Chain(S \cup P, all)
  <2>1. Chain(S, R)
    BY DEF Indexed, S, R
  <2> QED BY <1>1, <2>1, ChainEnd
<1>7. \A d, e \in S \cup P : <<d, e>> \in all => n.graph[d].age >= n.graph[e].age
  <2> SUFFICES ASSUME NEW d \in S \cup P, NEW e \in S \cup P, <<d, e>> \in all
               PROVE  n.graph[d].age >= n.graph[e].age
    OBVIOUS
  <2>1. n.graph[d].age \in Nat
    BY <1>5 DEF Indexed, S
  <2>2. CASE e \in P
    BY <1>5, <2>1, <2>2
  <2>3. CASE e \notin P
    <3>1. Q \subseteq P \X P
      BY DEF Q
    <3>2. <<d, e>> \in R /\ d \in S \ P /\ e \in S \ P
      BY <2>3, <3>1
    <3>3. m.graph[d].age >= m.graph[e].age
      BY <3>2 DEF Indexed, S, R
    <3> QED BY <1>5, <3>2, <3>3
  <2> QED BY <2>2, <2>3
<1>8. IsFiniteSet(S \cup P) /\ S \cup P \subseteq Edges
  BY <1>1, FS_Union DEF Indexed, S
<1> HIDE DEF all
<1>10. /\ n = [graph |-> n.graph, lru |-> [edges |-> S \cup P, before |-> all]]
       /\ n.lru.before = all
  BY <1>2, <1>3
<1>11. Indexed(n)
  BY <1>5, <1>6, <1>7, <1>8, <1>9, <1>10 DEF Indexed
<1> QED BY <1>5, <1>11 DEF P, S, n

\* A set of naturals has a least member: the induction of what follows.
LEMMA LeastNat ==
  ASSUME NEW T \in SUBSET Nat, T # {}
  PROVE  \E m \in T : \A n \in T : m <= n
<1>1. PICK m \in T : \A n \in T : <<n, m>> \notin OpToRel(<, Nat)
  BY NatLessThanWellFounded, WFMin, Zenon
<1>2. \A n \in T : ~(n < m)
  BY <1>1 DEF OpToRel
<1> QED BY <1>2

\* What is left of an index is one.
LEMMA WithoutIndexed ==
  ASSUME NEW m, Indexed(m), NEW G
  PROVE  LET n == Without(m, G)
         IN  /\ Indexed(n) /\ DOMAIN n.graph = DOMAIN m.graph \ G
             /\ \A e \in DOMAIN n.graph : n.graph[e] = m.graph[e]
<1> DEFINE S == DOMAIN m.graph
           R == m.lru.before
           n == Without(m, G)
           Z == {p \in R : p[1] \notin G /\ p[2] \notin G}
<1>1. m.lru.edges = S
  BY DEF Indexed
<1>2. {e \in S : e \notin G} = S \ G
  OBVIOUS
<1>3. /\ n = [graph |-> n.graph, lru |-> [edges |-> S \ G, before |-> Z]]
      /\ DOMAIN n.graph = S \ G /\ \A e \in S \ G : n.graph[e] = m.graph[e]
      /\ n.graph = [e \in S \ G |-> n.graph[e]]
  BY <1>1, <1>2 DEF Without, Restrict
<1>4. \A d, e : <<d, e>> \in Z <=> <<d, e>> \in R /\ d \notin G /\ e \notin G
  OBVIOUS
<1>5. Z \subseteq (S \ G) \X (S \ G)
  BY DEF Indexed, Chain
<1> HIDE DEF Z, n
<1>6. Chain(S \ G, Z)
  BY <1>4, <1>5 DEF Indexed, Chain
<1>7. IsFiniteSet(S \ G)
  BY FS_Subset DEF Indexed
<1>8. n.lru.before = Z
  BY <1>3
<1>9. \A d, e \in S \ G : <<d, e>> \in Z => n.graph[d].age >= n.graph[e].age
  BY <1>3, <1>4 DEF Indexed
<1>10. Indexed(n)
  BY <1>3, <1>6, <1>7, <1>8, <1>9 DEF Indexed
<1> QED BY <1>3, <1>10 DEF n

\* Those behind an edge of the list, and the last of it.
Behind(S, R, e) == {d \in S : <<e, d>> \in R}
LastOf(S, R, n) == {e \in S : Cardinality(Behind(S, R, e)) < n}

LEMMA Followers ==
  ASSUME NEW S, IsFiniteSet(S), NEW R, Chain(S, R)
  PROVE  LET F(e) == Behind(S, R, e)
         IN  /\ \A e \in S : IsFiniteSet(F(e)) /\ Cardinality(F(e)) \in Nat
             /\ \A d, e \in S : <<d, e>> \in R => /\ F(e) \subseteq F(d) \ {e}
                                                  /\ Cardinality(F(e)) < Cardinality(F(d))
<1> DEFINE F(e) == {d \in S : <<e, d>> \in R}
<1>1. \A e \in S : IsFiniteSet(F(e)) /\ Cardinality(F(e)) \in Nat
  BY FS_Subset, FS_CardinalityType
<1>2. ASSUME NEW d \in S, NEW e \in S, <<d, e>> \in R
      PROVE  F(e) \subseteq F(d) \ {e} /\ Cardinality(F(e)) < Cardinality(F(d))
  <2>1. F(e) \subseteq F(d) \ {e} /\ e \in F(d)
    BY <1>2 DEF Chain
  <2>2. Cardinality(F(e)) <= Cardinality(F(d)) /\ Cardinality(F(e)) # Cardinality(F(d))
    BY <1>1, <2>1, FS_Subset
  <2> HIDE DEF F
  <2> QED BY <1>1, <2>1, <2>2
<1> QED BY <1>1, <1>2 DEF Behind

\* The last of a finite list, n at most: those with fewer than n after them.
LEMMA LastOnes ==
  ASSUME NEW S, IsFiniteSet(S), NEW R, Chain(S, R), NEW n \in Nat \ {0}
  PROVE  LET K == LastOf(S, R, n)
         IN  /\ Cardinality(K) <= n
             /\ Cardinality(S) <= n => K = S
             /\ K # S => Cardinality(K) = n
             /\ \A d \in K, e \in S \ K : <<e, d>> \in R
<1> DEFINE F(e) == Behind(S, R, e)
           K == {e \in S : Cardinality(F(e)) < n}
<1>1. \A e \in S : IsFiniteSet(F(e)) /\ Cardinality(F(e)) \in Nat
  BY Followers
<1>2. \A d, e \in S : <<d, e>> \in R => F(e) \subseteq F(d) \ {e} /\ Cardinality(F(e)) < Cardinality(F(d))
  BY Followers
<1>3. IsFiniteSet(K) /\ Cardinality(K) \in Nat
  BY FS_Subset, FS_CardinalityType
<1>4. \A e \in S : F(e) \subseteq S /\ \A d \in S : <<e, d>> \in R <=> d \in F(e)
  BY DEF Behind
<1> HIDE DEF F
<1>9. \A d, e \in S : d # e => <<d, e>> \in R \/ <<e, d>> \in R
  BY DEF Chain
<1>5. \A d \in K, e \in S \ K : <<e, d>> \in R
  <2> SUFFICES ASSUME NEW d \in K, NEW e \in S \ K PROVE <<e, d>> \in R
    OBVIOUS
  <2>1. Cardinality(F(d)) < n /\ Cardinality(F(e)) >= n
    BY <1>1
  <2>2. ~(Cardinality(F(e)) < Cardinality(F(d)))
    BY <1>1, <2>1
  <2> QED BY <1>2, <1>9, <2>2
<1>6. Cardinality(K) <= n
  <2>1. CASE K = {}
    BY <2>1, FS_EmptySet
  <2>2. CASE K # {}
    <3> DEFINE T == {n - Cardinality(F(e)) : e \in K}
    <3>1. T \in SUBSET Nat /\ T # {}
      BY <1>1, <2>2
    <3>2. PICK t \in T : \A u \in T : t <= u
      BY <3>1, LeastNat
    <3>3. PICK e \in K : t = n - Cardinality(F(e))
      BY <3>2
    <3>4. \A d \in K : Cardinality(F(d)) <= Cardinality(F(e))
      BY <1>1, <3>2, <3>3
    <3>5. K \subseteq F(e) \cup {e}
      <4> SUFFICES ASSUME NEW d \in K, d # e PROVE d \in F(e)
        OBVIOUS
      <4>1. ~(Cardinality(F(e)) < Cardinality(F(d)))
        BY <1>1, <3>4
      <4> QED BY <1>2, <1>4, <1>9, <4>1
    <3>6. IsFiniteSet(F(e) \cup {e}) /\ Cardinality(F(e) \cup {e}) <= Cardinality(F(e)) + 1
      <4>1. IsFiniteSet(F(e)) /\ Cardinality(F(e)) \in Nat
        BY <1>1
      <4> DEFINE A == F(e)
      <4> HIDE DEF A
      <4>2. IsFiniteSet(A \cup {e}) /\ Cardinality(A \cup {e}) = IF e \in A THEN Cardinality(A) ELSE Cardinality(A) + 1
        BY <4>1, FS_AddElement DEF A
      <4> QED BY <4>1, <4>2 DEF A
    <3>7. Cardinality(K) <= Cardinality(F(e) \cup {e})
      BY <3>5, <3>6, FS_Subset
    <3>8. Cardinality(F(e) \cup {e}) \in Nat /\ Cardinality(F(e)) < n
      BY <3>6, FS_CardinalityType
    <3> QED BY <1>1, <1>3, <3>6, <3>7, <3>8
  <2> QED BY <2>1, <2>2
<1>7. ASSUME K # S PROVE Cardinality(K) = n
  <2> DEFINE T == {Cardinality(F(e)) : e \in S \ K}
  <2>1. T \in SUBSET Nat /\ T # {}
    BY <1>1, <1>7
  <2>2. PICK t \in T : \A u \in T : t <= u
    BY <2>1, LeastNat
  <2>3. PICK e \in S \ K : t = Cardinality(F(e))
    BY <2>2
  <2>4. \A d \in S \ K : Cardinality(F(e)) <= Cardinality(F(d))
    BY <2>2, <2>3
  <2>5. F(e) \subseteq K
    <3> SUFFICES ASSUME NEW d \in F(e), d \notin K PROVE FALSE
      OBVIOUS
    <3>1. d \in S \ K /\ <<e, d>> \in R
      BY <1>4
    <3> QED BY <1>1, <1>2, <2>4, <3>1
  <2>6. Cardinality(F(e)) <= Cardinality(K)
    BY <1>3, <2>5, FS_Subset
  <2>7. Cardinality(F(e)) >= n
    BY <1>1
  <2> QED BY <1>1, <1>3, <1>6, <2>6, <2>7
<1>8. ASSUME Cardinality(S) <= n PROVE K = S
  <2> SUFFICES ASSUME NEW e \in S PROVE Cardinality(F(e)) < n
    OBVIOUS
  <2>1. e \notin F(e)
    BY <1>4 DEF Chain
  <2>2. Cardinality(F(e)) <= Cardinality(S) /\ Cardinality(F(e)) # Cardinality(S)
    BY <1>4, <2>1, FS_Subset
  <2>3. Cardinality(S) \in Nat
    BY FS_CardinalityType
  <2> QED BY <1>1, <1>8, <2>2, <2>3
<1> QED BY <1>5, <1>6, <1>7, <1>8 DEF F, LastOf

\* An index within the limit, and one in which e is as new as can be: it is
\* there and new, or the limit is reached by edges that are all new.
Stored(m) == Indexed(m) /\ Cardinality(DOMAIN m.graph) <= MaxEntries
Kept(m, e) ==
    \/ e \in DOMAIN m.graph /\ m.graph[e].age = 0
    \/ Cardinality(DOMAIN m.graph) >= MaxEntries /\ \A d \in DOMAIN m.graph : m.graph[d].age = 0

\* _enforce_cap.
LEMMA CappedStored ==
  ASSUME NEW m, Indexed(m), NEW n \in Capped(m)
  PROVE  Stored(n) /\ \A e : Kept(m, e) => Kept(n, e)
<1> DEFINE S == DOMAIN m.graph
           R == m.lru.before
           F(e) == Behind(S, R, e)
           K == LastOf(S, R, MaxEntries)
<1>1. MaxEntries \in Nat \ {0}
  BY Limits
<1>2. IsFiniteSet(S) /\ Chain(S, R) /\ m.lru.edges = S
  BY DEF Indexed
<1>3. \A e \in S : IsFiniteSet(F(e)) /\ Cardinality(F(e)) \in Nat
  BY <1>2, Followers
<1>4. /\ Cardinality(K) <= MaxEntries
      /\ K # S => Cardinality(K) = MaxEntries
      /\ \A d \in K, e \in S \ K : <<e, d>> \in R
  BY <1>1, <1>2, LastOnes
<1>5. Surplus(m.lru) = S \ K
  <2> DEFINE Q == {q \in R : Cardinality(F(q[1])) >= MaxEntries}
  <2> DEFINE Y == {q \in m.lru.before : Cardinality(After(m.lru, q[1])) >= MaxEntries}
  <2>1. \A e : After(m.lru, e) = Behind(S, R, e)
    BY <1>2 DEF After, Behind
  <2>5. Y = Q
    BY <2>1
  <2>2. Surplus(m.lru) = {p[1] : p \in Q}
    <3>1. Surplus(m.lru) = {p[1] : p \in Y}
      BY DEF Surplus
    <3> HIDE DEF Y, Q
    <3> QED BY <2>5, <3>1
  <2>3. ASSUME NEW p \in Q PROVE p[1] \in S \ K
    <3>1. p[1] \in S /\ Cardinality(F(p[1])) >= MaxEntries
      BY <1>2 DEF Chain
    <3> QED BY <1>1, <1>3, <3>1 DEF LastOf
  <2>4. ASSUME NEW e \in S \ K PROVE \E p \in Q : p[1] = e
    <3>1. Cardinality(F(e)) >= MaxEntries
      BY <1>1, <1>3 DEF LastOf
    <3>2. F(e) # {}
      BY <1>1, <3>1, FS_EmptySet
    <3>3. PICK d \in S : <<e, d>> \in R
      BY <3>2 DEF Behind
    <3>4. <<e, d>> \in Q /\ <<e, d>>[1] = e
      BY <3>1, <3>3
    <3> QED BY <3>4
  <2> HIDE DEF Q, K
  <2> QED BY <2>2, <2>3, <2>4
<1>6. n = Without(m, S \ K)
  BY <1>5 DEF Capped
<1>7. K \subseteq S /\ S \ (S \ K) = K
  BY DEF LastOf
<1>8. Indexed(n) /\ DOMAIN n.graph = K /\ \A e \in K : n.graph[e] = m.graph[e]
  <2> HIDE DEF K
  <2>1. DOMAIN m.graph \ (S \ K) = K
    BY <1>7
  <2> QED BY <1>6, <2>1, WithoutIndexed
<1>9. \A d, e \in S : <<d, e>> \in R => m.graph[d].age >= m.graph[e].age
  BY DEF Indexed
<1>10. \A e \in S : m.graph[e].age \in Nat
  BY DEF Indexed
<1> HIDE DEF K, F
<1>11. ASSUME NEW e, Kept(m, e) PROVE Kept(n, e)
  <2>1. CASE e \in K /\ m.graph[e].age = 0
    BY <1>8, <2>1 DEF Kept
  <2>2. CASE e \in S \ K /\ m.graph[e].age = 0
    <3>1. Cardinality(K) >= MaxEntries
      BY <1>1, <1>4, <2>2
    <3>2. ASSUME NEW d \in K PROVE m.graph[d].age = 0
      <4>1. d \in S /\ e \in S /\ <<e, d>> \in R
        BY <1>4, <1>7, <2>2
      <4>2. m.graph[e].age >= m.graph[d].age
        BY <1>9, <4>1
      <4> QED BY <1>10, <2>2, <4>1, <4>2
    <3> QED BY <1>8, <3>1, <3>2 DEF Kept
  <2>3. CASE Cardinality(S) >= MaxEntries /\ \A d \in S : m.graph[d].age = 0
    <3>1. Cardinality(K) >= MaxEntries
      BY <1>1, <1>4, <2>3
    <3> QED BY <1>7, <1>8, <2>3, <3>1 DEF Kept
  <2> QED BY <1>11, <2>1, <2>2, <2>3 DEF Kept
<1> QED BY <1>4, <1>8, <1>11 DEF Stored

\* _close_and_learn.
LEMMA LearntStored ==
  ASSUME NEW m, Stored(m), NEW w, Numbered(w.seen), NEW n \in Learnt(m, w)
  PROVE  /\ Stored(n)
         /\ \A e \in Pairs(w.seen) : Kept(n, e)
         /\ \A e : Kept(m, e) => Kept(n, e)
<1> DEFINE P == Pairs(w.seen)
           b == Bumped(m, P, w.seen)
<1>1. n \in Capped(b)
  BY DEF Learnt
<1>2. /\ Indexed(b) /\ DOMAIN b.graph = DOMAIN m.graph \cup P
      /\ \A e \in P : b.graph[e].age = 0
      /\ \A e \in DOMAIN m.graph \ P : b.graph[e] = m.graph[e]
  BY BumpedIndexed DEF Stored
<1> HIDE DEF b, P
<1>3. \A e \in P : Kept(b, e)
  BY <1>2 DEF Kept
<1>4. ASSUME NEW e, Kept(m, e) PROVE Kept(b, e)
  <2>1. CASE e \in DOMAIN m.graph /\ m.graph[e].age = 0
    BY <1>2, <2>1 DEF Kept
  <2>2. CASE Cardinality(DOMAIN m.graph) >= MaxEntries /\ \A d \in DOMAIN m.graph : m.graph[d].age = 0
    <3>1. IsFiniteSet(DOMAIN b.graph)
      BY <1>2 DEF Indexed
    <3>2. Cardinality(DOMAIN m.graph) <= Cardinality(DOMAIN b.graph)
      BY <1>2, <3>1, FS_Subset
    <3>3. {Cardinality(DOMAIN m.graph), Cardinality(DOMAIN b.graph), MaxEntries} \subseteq Nat
      BY <3>1, FS_CardinalityType, Limits DEF Stored, Indexed
    <3>4. Cardinality(DOMAIN b.graph) >= MaxEntries
      BY <2>2, <3>2, <3>3
    <3>5. \A d \in DOMAIN b.graph : b.graph[d].age = 0
      BY <1>2, <2>2
    <3> QED BY <3>4, <3>5 DEF Kept
  <2> QED BY <1>4, <2>1, <2>2 DEF Kept
<1>5. Stored(n) /\ \A e : Kept(b, e) => Kept(n, e)
  BY <1>1, <1>2, CappedStored
<1> QED BY <1>3, <1>4, <1>5 DEF P

\* The sweep of old edges.
LEMMA SweptStored ==
  ASSUME NEW m, Stored(m)
  PROVE  LET n == Without(m, Stale(m.graph))
         IN  Indexed(n) /\ \A e : Kept(m, e) => Kept(n, e)
<1> DEFINE G == Stale(m.graph)
           n == Without(m, G)
<1>1. /\ Indexed(n) /\ DOMAIN n.graph = DOMAIN m.graph \ G
      /\ \A e \in DOMAIN n.graph : n.graph[e] = m.graph[e]
  BY WithoutIndexed DEF Stored
<1>2. \A e \in DOMAIN m.graph : m.graph[e].age = 0 => e \notin G
  BY Limits DEF Stale
<1> HIDE DEF n, G
<1>3. ASSUME NEW e, Kept(m, e) PROVE Kept(n, e)
  <2>1. CASE e \in DOMAIN m.graph /\ m.graph[e].age = 0
    BY <1>1, <1>2, <2>1 DEF Kept
  <2>2. CASE Cardinality(DOMAIN m.graph) >= MaxEntries /\ \A d \in DOMAIN m.graph : m.graph[d].age = 0
    <3>1. DOMAIN n.graph = DOMAIN m.graph
      BY <1>1, <1>2, <2>2
    <3> QED BY <1>1, <2>2, <3>1 DEF Kept
  <2> QED BY <1>3, <2>1, <2>2 DEF Kept
<1> QED BY <1>1, <1>3 DEF n, G

-----------------------------------------------------------------------------
\* The sweep of the windows: whatever the order, after each is learnt the
\* memory is an index, and has what was learnt before.
LEMMA AllLearntStored ==
  ASSUME Stored(Memory), IsFiniteSet(Settled),
         \A c \in Settled : Numbered(window[c].seen),
         NEW order \in Surjection(1 .. Cardinality(Settled), Settled),
         NEW n \in AllLearnt(order)
  PROVE  Stored(n) /\ \A c \in Settled : \A e \in Pairs(window[c].seen) : Kept(n, e)
<1> DEFINE N == Cardinality(Settled)
           Ahead(i, M) == UNION {Learnt(m, window[order[i]]) : m \in M}
           Step(k, h) == [i \in 0 .. k |-> IF i = 0 THEN {Memory} ELSE Ahead(i, h[i - 1])]
<1>1. N \in Nat
  BY FS_CardinalityType
<1>2. \A i \in 1 .. N : order[i] \in Settled
  BY DEF Surjection, Range
<1>3. \A c \in Settled : \E i \in 1 .. N : order[i] = c
  BY DEF Surjection, Range
<1>4. \A k \in Nat : \E h : h = Step(k, h)
  <2> HIDE DEF Ahead
  <2> DEFINE T == {k \in Nat : ~\E h : h = Step(k, h)}
  <2> SUFFICES ASSUME T # {} PROVE FALSE
    OBVIOUS
  <2>1. PICK k \in T : \A j \in T : k <= j
    BY LeastNat
  <2>2. CASE k = 0
    <3> DEFINE h == [i \in 0 .. 0 |-> {Memory}]
    <3>1. h = Step(0, h)
      OBVIOUS
    <3> QED BY <2>1, <2>2, <3>1
  <2>3. CASE k # 0
    <3>1. k \in Nat /\ k - 1 \in Nat /\ ~(k <= k - 1)
      BY <2>3
    <3>2. k - 1 \notin T
      BY <2>1, <3>1
    <3>3. PICK g : g = Step(k - 1, g)
      BY <3>1, <3>2
    <3> DEFINE h == [i \in 0 .. k |-> IF i < k THEN g[i] ELSE Ahead(i, g[i - 1])]
    <3>4. \A i \in 0 .. k - 1 : h[i] = g[i]
      BY <3>1
    <3>5. \A i \in 0 .. k - 1 : g[i] = IF i = 0 THEN {Memory} ELSE Ahead(i, g[i - 1])
      BY <3>3
    <3>6. h[k] = Ahead(k, g[k - 1])
      BY <3>1
    <3>7. DOMAIN h = 0 .. k /\ h = [i \in 0 .. k |-> h[i]]
      OBVIOUS
    <3> HIDE DEF h
    <3>8. ASSUME NEW i \in 0 .. k
          PROVE  h[i] = IF i = 0 THEN {Memory} ELSE Ahead(i, h[i - 1])
      <4>1. CASE i = k
        <5>1. k - 1 \in 0 .. k - 1
          BY <3>1
        <5> QED BY <2>3, <3>4, <3>6, <4>1, <5>1
      <4>2. CASE i # k
        <5>1. i \in 0 .. k - 1 /\ (i # 0 => i - 1 \in 0 .. k - 1)
          BY <3>1, <4>2
        <5> QED BY <3>4, <3>5, <5>1
      <4> QED BY <4>1, <4>2
    <3>9. h = Step(k, h)
      BY <3>7, <3>8
    <3> QED BY <2>1, <3>9
  <2> QED BY <2>2, <2>3
<1>5. PICK h : h = Step(N, h)
  BY <1>1, <1>4
<1>6. AllLearnt(order) = (CHOOSE g : g = Step(N, g))[N]
  BY DEF AllLearnt
<1> DEFINE after == CHOOSE g : g = Step(N, g)
<1>7. after = Step(N, after)
  BY <1>5
<1>8. n \in after[N]
  BY <1>6
<1> HIDE DEF after
<1>9. \A i \in 0 .. N : \A m \in after[i] :
         /\ Stored(m)
         /\ \A j \in 1 .. i : \A e \in Pairs(window[order[j]].seen) : Kept(m, e)
  <2> DEFINE Fine(i) == \A m \in after[i] :
               /\ Stored(m)
               /\ \A j \in 1 .. i : \A e \in Pairs(window[order[j]].seen) : Kept(m, e)
             T == {i \in 0 .. N : ~Fine(i)}
  <2> SUFFICES ASSUME T # {} PROVE FALSE
    OBVIOUS
  <2>1. T \in SUBSET Nat
    OBVIOUS
  <2>2. PICK i \in T : \A j \in T : i <= j
    BY <2>1, LeastNat
  <2>3. i \in 0 .. N /\ ~Fine(i) /\ i \in Nat
    BY <2>2
  <2>4. after[i] = IF i = 0 THEN {Memory} ELSE Ahead(i, after[i - 1])
    BY <1>7, <2>3
  <2>5. i # 0
    <3>1. CASE i = 0
      <4>1. Fine(0)
        BY <2>4, <3>1
      <4> QED BY <2>3, <3>1, <4>1
    <3> QED BY <3>1
  <2>6. i - 1 \in 0 .. N /\ i \in 1 .. N /\ ~(i <= i - 1)
    BY <1>1, <2>3, <2>5
  <2>7. Fine(i - 1)
    <3> HIDE DEF Fine
    <3> QED BY <2>2, <2>6
  <2>8. ASSUME NEW m \in after[i]
        PROVE  Stored(m) /\ \A j \in 1 .. i : \A e \in Pairs(window[order[j]].seen) : Kept(m, e)
    <3>1. PICK p \in after[i - 1] : m \in Learnt(p, window[order[i]])
      BY <2>4, <2>5
    <3>2. /\ Stored(p)
          /\ \A j \in 1 .. i - 1 : \A e \in Pairs(window[order[j]].seen) : Kept(p, e)
      BY <2>7
    <3>3. Numbered(window[order[i]].seen)
      BY <1>2, <2>6
    <3>4. /\ Stored(m)
          /\ \A e \in Pairs(window[order[i]].seen) : Kept(m, e)
          /\ \A e : Kept(p, e) => Kept(m, e)
      BY <3>1, <3>2, <3>3, LearntStored
    <3>5. \A j \in 1 .. i : j = i \/ j \in 1 .. i - 1
      BY <2>3
    <3> QED BY <3>2, <3>4, <3>5
  <2>9. Fine(i)
    BY <2>8
  <2> QED BY <2>3, <2>9
<1>10. n \in after[N] /\ N \in 0 .. N
  BY <1>1, <1>8
<1> QED BY <1>3, <1>9, <1>10

-----------------------------------------------------------------------------
\* An open window, and the inductive invariant: besides the type and the
\* index, every prediction that is not to be repeated yet is in _last_predict.
Open(w) ==
    /\ w = [age |-> w.age, predicted |-> w.predicted, seen |-> w.seen]
    /\ w.age \in 0 .. Window + 1 /\ w.predicted \in BOOLEAN
    /\ Numbered(w.seen)

WindowsInv ==
    /\ window = [c \in Opened |-> window[c]]
    /\ IsFiniteSet(Opened) /\ Opened \subseteq Clients
    /\ \A c \in Opened : Open(window[c])

MemoryInv == Stored(Memory)

ThrottleInv ==
    /\ sent \in [Edges -> 0 .. Throttle]
    /\ DOMAIN last \subseteq Edges /\ last \in [DOMAIN last -> 0 .. Throttle]
    /\ \A e \in Edges : sent[e] < Throttle => e \in DOMAIN last /\ last[e] = sent[e]

ClusterInv == WindowsInv /\ MemoryInv /\ ThrottleInv

\* What a step does to the windows it closes and to the predictions.
LearntStep ==
    \A c \in Clients : Closes(c) => \A e \in Pairs(window[c].seen) : Kept(Memory', e)
PredictedStep == \A e \in Edges : sent'[e] = 0 => sent[e] \in {0, Throttle}

LEMMA NoneNumbered == Numbered(<<>>)
<1>1. DOMAIN <<>> = {}
  OBVIOUS
<1>2. <<>> \in [{} -> 1 .. Cardinality({})]
  OBVIOUS
<1> QED BY <1>1, <1>2, FS_EmptySet DEF Numbered

\* A request adds its target to the window.
LEMMA SeenOpen ==
  ASSUME NEW w, Open(w), NEW t \in Targets
  PROVE  Open(Seen(w, t)) /\ Seen(w, t).age = w.age
<1>1. CASE t \in DOMAIN w.seen
  BY <1>1 DEF Seen
<1>2. CASE t \notin DOMAIN w.seen
  <2> DEFINE S == DOMAIN w.seen
             n == Cardinality(S)
             seen == [u \in S \cup {t} |-> IF u = t THEN n + 1 ELSE w.seen[u]]
  <2>1. n \in Nat /\ Cardinality(S \cup {t}) = n + 1 /\ IsFiniteSet(S \cup {t})
    BY <1>2, FS_AddElement, FS_CardinalityType DEF Open, Numbered
  <2>2. Seen(w, t) = [w EXCEPT !.seen = seen]
    BY <1>2 DEF Seen
  <2>3. Numbered(seen)
    <3>1. DOMAIN seen = S \cup {t} /\ S \cup {t} \subseteq Targets
      BY DEF Open, Numbered
    <3>2. \A u \in S : w.seen[u] \in 1 .. n
      BY DEF Open, Numbered
    <3>3. seen \in [S \cup {t} -> 1 .. n + 1]
      BY <2>1, <3>2
    <3>4. \A u, v \in S \cup {t} : seen[u] = seen[v] => u = v
      BY <2>1, <3>2 DEF Open, Numbered
    <3> HIDE DEF seen
    <3> QED BY <2>1, <3>1, <3>3, <3>4 DEF Numbered
  <2>4. Seen(w, t) = [age |-> w.age, predicted |-> w.predicted, seen |-> seen]
    BY <2>2 DEF Open
  <2> HIDE DEF seen
  <2> QED BY <2>3, <2>4 DEF Open
<1> QED BY <1>1, <1>2

-----------------------------------------------------------------------------
LEMMA InitCluster == Init => ClusterInv
<1> SUFFICES ASSUME Init PROVE ClusterInv
  OBVIOUS
<1>1. DOMAIN <<>> = {} /\ <<>> = [e \in {} |-> 0]
  OBVIOUS
<1>2. WindowsInv
  BY <1>1, FS_EmptySet DEF WindowsInv, Init, Opened
<1>3. Memory = [graph |-> <<>>, lru |-> [edges |-> {}, before |-> {}]]
  BY DEF Memory, Init, NoEdges
<1>4. MemoryInv
  <2> DEFINE m == [graph |-> <<>>, lru |-> [edges |-> {}, before |-> {}]]
  <2>1. m.graph = <<>> /\ m.lru.before = {} /\ DOMAIN m.graph = {}
    BY <1>1
  <2>2. m = [graph |-> m.graph, lru |-> [edges |-> DOMAIN m.graph, before |-> m.lru.before]]
    BY <2>1
  <2>3. m.graph \in [DOMAIN m.graph -> [hits : 1 .. MinSupport, age : 0 .. Ttl + 1]]
    BY <1>1, <2>1
  <2> HIDE DEF m
  <2>4. Chain(DOMAIN m.graph, m.lru.before)
    BY <2>1 DEF Chain
  <2>5. Stored(m)
    BY <2>1, <2>2, <2>3, <2>4, Limits, FS_EmptySet DEF Stored, Indexed
  <2> QED BY <1>3, <2>5 DEF MemoryInv, m
<1>5. ThrottleInv
  BY <1>1, Limits DEF ThrottleInv, Init
<1> QED BY <1>2, <1>4, <1>5 DEF ClusterInv

\* observe.
LEMMA ObserveStep ==
  ASSUME ClusterInv, NEW c \in Clients, NEW t \in Targets, NEW won \in BOOLEAN,
         Observe(c, t, won)
  PROVE  ClusterInv' /\ LearntStep /\ PredictedStep
<1>1. PICK learnt \in IF Old(c) THEN Learnt(Memory, window[c]) ELSE {Memory} :
        LET w == Seen(IF c \in Opened /\ ~Old(c) THEN window[c] ELSE Fresh, t)
            predicts == won /\ ~w.predicted /\ \E e \in DOMAIN learnt.graph : e[1] = t
        IN  /\ graph' = learnt.graph /\ lru' = learnt.lru
            /\ window' = [d \in Opened \cup {c} |->
                             IF d = c THEN [w EXCEPT !.predicted = @ \/ predicts] ELSE window[d]]
            /\ \E fired \in IF predicts THEN Predictions(w, learnt.graph, t) ELSE {{}} :
                 /\ last' = [e \in DOMAIN last \cup fired |-> IF e \in fired THEN 0 ELSE last[e]]
                 /\ sent' = [e \in Edges |-> IF e \in fired THEN 0 ELSE sent[e]]
  BY DEF Observe
<1> DEFINE w0 == IF c \in Opened /\ ~Old(c) THEN window[c] ELSE Fresh
           w == Seen(w0, t)
           predicts == won /\ ~w.predicted /\ \E e \in DOMAIN learnt.graph : e[1] = t
           w1 == [w EXCEPT !.predicted = @ \/ predicts]
<1>2. /\ graph' = learnt.graph /\ lru' = learnt.lru
      /\ window' = [d \in Opened \cup {c} |-> IF d = c THEN w1 ELSE window[d]]
  BY <1>1
<1>3. PICK fired \in IF predicts THEN Predictions(w, learnt.graph, t) ELSE {{}} :
        /\ last' = [e \in DOMAIN last \cup fired |-> IF e \in fired THEN 0 ELSE last[e]]
        /\ sent' = [e \in Edges |-> IF e \in fired THEN 0 ELSE sent[e]]
  BY <1>1
<1>4. /\ Stored(learnt)
      /\ Old(c) => \A e \in Pairs(window[c].seen) : Kept(learnt, e)
  <2>1. CASE Old(c)
    <3>1. learnt \in Learnt(Memory, window[c]) /\ Numbered(window[c].seen)
      BY <1>1, <2>1 DEF ClusterInv, WindowsInv, Open, Old
    <3> QED BY <3>1, LearntStored DEF ClusterInv, MemoryInv
  <2>2. CASE ~Old(c)
    BY <1>1, <2>2 DEF ClusterInv, MemoryInv
  <2> QED BY <2>1, <2>2
<1>5. Memory' = learnt
  BY <1>2, <1>4 DEF Memory, Stored, Indexed
<1>6. Open(w0)
  <2>1. Open(Fresh)
    BY NoneNumbered, Limits DEF Open, Fresh
  <2> QED BY <2>1 DEF ClusterInv, WindowsInv
<1>7. Open(w) /\ w.age = w0.age
  BY <1>6, SeenOpen
<1>8. Open(w1) /\ w1.age = w0.age
  <2> HIDE DEF w, predicts
  <2>1. w1 = [age |-> w.age, predicted |-> w.predicted \/ predicts, seen |-> w.seen]
    BY <1>7 DEF Open
  <2>2. (w.predicted \/ predicts) \in BOOLEAN
    OBVIOUS
  <2> HIDE DEF w1
  <2> QED BY <1>7, <2>1, <2>2 DEF Open
<1>9. \A e \in fired : e \in DOMAIN learnt.graph /\ ~Throttled(e)
  <2> HIDE DEF w, predicts
  <2> QED BY <1>3 DEF Predictions, Tops
<1> HIDE DEF w, predicts, w1
<1>10. WindowsInv'
  <2>1. Opened' = Opened \cup {c}
    BY <1>2 DEF Opened
  <2>2. IsFiniteSet(Opened \cup {c}) /\ Opened \cup {c} \subseteq Clients
    BY FS_AddElement DEF ClusterInv, WindowsInv
  <2>3. window' = [d \in Opened \cup {c} |-> window'[d]]
    BY <1>2
  <2>4. \A d \in Opened \cup {c} : Open(window'[d])
    BY <1>2, <1>8 DEF ClusterInv, WindowsInv
  <2> QED BY <2>1, <2>2, <2>3, <2>4 DEF WindowsInv
<1>11. MemoryInv'
  <2>1. Stored(Memory')
    BY <1>4, <1>5
  <2> QED BY <2>1 DEF MemoryInv
<1>12. fired \subseteq Edges
  BY <1>4, <1>9 DEF Stored, Indexed
<1>13. /\ ThrottleInv'
       /\ PredictedStep
  <2>1. \A e \in fired : sent[e] = Throttle
    BY <1>9, <1>12, Limits DEF Throttled, ClusterInv, ThrottleInv
  <2>2. /\ sent' \in [Edges -> 0 .. Throttle]
        /\ DOMAIN last' \subseteq Edges /\ last' \in [DOMAIN last' -> 0 .. Throttle]
    BY <1>3, <1>12, Limits DEF ClusterInv, ThrottleInv
  <2>3. \A e \in Edges : sent'[e] < Throttle => e \in DOMAIN last' /\ last'[e] = sent'[e]
    BY <1>3 DEF ClusterInv, ThrottleInv
  <2>4. PredictedStep
    BY <1>3, <2>1, Limits DEF ClusterInv, ThrottleInv, PredictedStep
  <2> QED BY <2>2, <2>3, <2>4 DEF ThrottleInv
<1>14. LearntStep
  <2> SUFFICES ASSUME NEW d \in Clients, Closes(d), NEW e \in Pairs(window[d].seen)
               PROVE  Kept(Memory', e)
    BY DEF LearntStep
  <2>1. d \in Opened /\ window'[d].age < window[d].age /\ window[d].age \in Nat
    BY <1>2, Limits DEF Closes, Opened, ClusterInv, WindowsInv, Open
  <2>2. d = c
    BY <1>2, <2>1
  <2>3. Old(c)
    BY <1>2, <1>8, <2>1, <2>2
  <2> QED BY <1>4, <1>5, <2>2, <2>3
<1> QED BY <1>10, <1>11, <1>13, <1>14 DEF ClusterInv

\* prune.
LEMMA PruneStep ==
  ASSUME ClusterInv, Prune
  PROVE  ClusterInv' /\ LearntStep /\ PredictedStep
<1>1. /\ IsFiniteSet(Settled) /\ Settled \subseteq Opened
      /\ \A c \in Settled : Numbered(window[c].seen)
  BY FS_Subset DEF Settled, ClusterInv, WindowsInv, Open
<1>2. PICK order \in Surjection(1 .. Cardinality(Settled), Settled) :
      \E learnt \in AllLearnt(order) :
      \E live \in {Without(learnt, Stale(learnt.graph))} :
      \E swept \in Capped(live) : graph' = swept.graph /\ lru' = swept.lru
  BY DEF Prune
<1>3. PICK learnt \in AllLearnt(order) :
      \E live \in {Without(learnt, Stale(learnt.graph))} :
      \E swept \in Capped(live) : graph' = swept.graph /\ lru' = swept.lru
  BY <1>2
<1> DEFINE live == Without(learnt, Stale(learnt.graph))
<1>4. PICK swept \in Capped(live) : graph' = swept.graph /\ lru' = swept.lru
  BY <1>3
<1>5. Stored(learnt) /\ \A c \in Settled : \A e \in Pairs(window[c].seen) : Kept(learnt, e)
  BY <1>1, <1>2, <1>3, AllLearntStored DEF ClusterInv, MemoryInv
<1>6. Indexed(live) /\ \A e : Kept(learnt, e) => Kept(live, e)
  BY <1>5, SweptStored
<1>7. Stored(swept) /\ \A e : Kept(live, e) => Kept(swept, e)
  <2> HIDE DEF live
  <2> QED BY <1>4, <1>6, CappedStored
<1>8. Memory' = swept
  BY <1>4, <1>7 DEF Memory, Stored, Indexed
<1>9. MemoryInv'
  <2>1. Stored(Memory')
    BY <1>7, <1>8
  <2> QED BY <2>1 DEF MemoryInv
<1>10. /\ window' = [c \in Opened \ Settled |-> window[c]]
       /\ Opened' = Opened \ Settled
  <2>1. window' = Restrict(window, Opened \ Settled)
    BY DEF Prune
  <2>2. window' = [c \in Opened \ Settled |-> window[c]]
    BY <2>1 DEF Restrict
  <2> QED BY <2>2 DEF Opened
<1>11. WindowsInv'
  <2>1. IsFiniteSet(Opened \ Settled) /\ Opened \ Settled \subseteq Clients
    BY FS_Subset DEF ClusterInv, WindowsInv
  <2>2. \A c \in Opened \ Settled : Open(window'[c])
    BY <1>10 DEF ClusterInv, WindowsInv
  <2> QED BY <1>10, <2>1, <2>2 DEF WindowsInv
<1>12. ThrottleInv'
  <2>1. /\ last' = [e \in Throttling |-> last[e]] /\ sent' = sent
        /\ Throttling = {e \in DOMAIN last : last[e] < Throttle}
    BY DEF Prune, Restrict, Throttling
  <2> QED BY <2>1 DEF ClusterInv, ThrottleInv
<1>13. PredictedStep
  BY Limits DEF PredictedStep, Prune, ClusterInv, ThrottleInv
<1>14. LearntStep
  <2> SUFFICES ASSUME NEW c \in Clients, Closes(c), NEW e \in Pairs(window[c].seen)
               PROVE  Kept(Memory', e)
    BY DEF LearntStep
  <2>1. c \in Opened /\ (c \in Opened' => window'[c].age < window[c].age)
    BY DEF Closes
  <2>2. window[c].age \in Nat
    BY <2>1, Limits DEF ClusterInv, WindowsInv, Open
  <2>3. c \in Settled
    BY <1>10, <2>1, <2>2
  <2> QED BY <1>5, <1>6, <1>7, <1>8, <2>3
<1> QED BY <1>9, <1>11, <1>12, <1>13, <1>14 DEF ClusterInv

\* reset.
LEMMA ResetStep ==
  ASSUME ClusterInv, Reset
  PROVE  ClusterInv' /\ PredictedStep
<1>1. Init'
  BY DEF Init, Reset
<1>2. (Init => ClusterInv)'
  BY InitCluster, PTL
<1>3. PredictedStep
  BY Limits DEF Reset, PredictedStep
<1> QED BY <1>1, <1>2, <1>3

\* Time passes.
LEMMA TickStep ==
  ASSUME ClusterInv, Tick
  PROVE  ClusterInv' /\ LearntStep /\ PredictedStep
<1>1. /\ window' = [c \in Opened |-> [window[c] EXCEPT !.age = Least(@ + 1, Window + 1)]]
      /\ graph' = [e \in DOMAIN graph |-> [graph[e] EXCEPT !.age = Least(@ + 1, Ttl + 1)]]
      /\ last' = [e \in DOMAIN last |-> Least(last[e] + 1, Throttle)]
      /\ sent' = [e \in Edges |-> Least(sent[e] + 1, Throttle)]
      /\ lru' = lru
  BY DEF Tick
<1>2. ASSUME NEW c \in Opened
      PROVE  /\ Open(window'[c])
             /\ window'[c].age >= window[c].age
             /\ window[c].age \in Nat /\ window'[c].age \in Nat
  <2> DEFINE w == window[c]
             a == Least(w.age + 1, Window + 1)
  <2>1. Open(w)
    BY DEF ClusterInv, WindowsInv
  <2>2. w.age \in 0 .. Window + 1 /\ a \in 0 .. Window + 1 /\ a >= w.age
    BY <2>1, Limits DEF Open, Least
  <2>3. window'[c] = [w EXCEPT !.age = a]
    BY <1>1
  <2> HIDE DEF a, w
  <2>4. window'[c] = [age |-> a, predicted |-> w.predicted, seen |-> w.seen]
    BY <2>1, <2>3 DEF Open
  <2>5. Open(window'[c])
    BY <2>1, <2>2, <2>4 DEF Open
  <2> QED BY <2>2, <2>4, <2>5, Limits DEF w
<1>3. Opened' = Opened /\ window' = [c \in Opened |-> window'[c]]
  BY <1>1 DEF Opened
<1>4. WindowsInv'
  BY <1>2, <1>3 DEF ClusterInv, WindowsInv
<1>5. MemoryInv'
  <2> DEFINE m == Memory
             n == Memory'
  <2>1. Indexed(m) /\ Cardinality(DOMAIN m.graph) <= MaxEntries /\ m.graph = graph /\ m.lru = lru
    BY DEF ClusterInv, MemoryInv, Stored, Memory
  <2>2. n = [graph |-> graph', lru |-> lru] /\ n.graph = graph' /\ n.lru = lru
    BY <1>1 DEF Memory
  <2>3. DOMAIN graph' = DOMAIN graph /\ graph' = [e \in DOMAIN graph |-> graph'[e]]
    BY <1>1
  <2>4. ASSUME NEW e \in DOMAIN graph
        PROVE  /\ graph[e].age \in 0 .. Ttl + 1
               /\ graph'[e] \in [hits : 1 .. MinSupport, age : 0 .. Ttl + 1]
               /\ graph'[e].age = IF graph[e].age <= Ttl THEN graph[e].age + 1 ELSE Ttl + 1
    <3> DEFINE a == Least(graph[e].age + 1, Ttl + 1)
    <3>1. graph[e] \in [hits : 1 .. MinSupport, age : 0 .. Ttl + 1]
      BY <2>1 DEF Indexed
    <3>2. a \in 0 .. Ttl + 1 /\ a = IF graph[e].age <= Ttl THEN graph[e].age + 1 ELSE Ttl + 1
      BY <3>1, Limits DEF Least
    <3>3. graph'[e] = [graph[e] EXCEPT !.age = a]
      BY <1>1
    <3> HIDE DEF a
    <3> QED BY <3>1, <3>2, <3>3
  <2>5. graph' \in [DOMAIN graph -> [hits : 1 .. MinSupport, age : 0 .. Ttl + 1]]
    BY <2>3, <2>4
  <2>6. \A d, e \in DOMAIN graph : <<d, e>> \in lru.before => graph[d].age >= graph[e].age
    BY <2>1 DEF Indexed
  <2>7. \A d, e \in DOMAIN graph : <<d, e>> \in lru.before => graph'[d].age >= graph'[e].age
    BY <2>4, <2>6, Limits
  <2> HIDE DEF m, n
  <2>8. Stored(n)
    BY <2>1, <2>2, <2>3, <2>5, <2>7 DEF Stored, Indexed
  <2> QED BY <2>8 DEF MemoryInv, n
<1>6. ThrottleInv' /\ PredictedStep
  <2>1. \A n \in 0 .. Throttle : Least(n + 1, Throttle) = IF n < Throttle THEN n + 1 ELSE Throttle
    BY Limits DEF Least
  <2>2. \A e \in Edges : sent'[e] = IF sent[e] < Throttle THEN sent[e] + 1 ELSE Throttle
    BY <1>1, <2>1 DEF ClusterInv, ThrottleInv
  <2>3. \A e \in DOMAIN last : last'[e] = IF last[e] < Throttle THEN last[e] + 1 ELSE Throttle
    BY <1>1, <2>1 DEF ClusterInv, ThrottleInv
  <2>4. /\ sent' = [e \in Edges |-> sent'[e]]
        /\ DOMAIN last' = DOMAIN last /\ last' = [e \in DOMAIN last |-> last'[e]]
    BY <1>1
  <2>5. PredictedStep
    BY <2>2, Limits DEF PredictedStep, ClusterInv, ThrottleInv
  <2>6. /\ sent' \in [Edges -> 0 .. Throttle]
        /\ DOMAIN last' \subseteq Edges /\ last' \in [DOMAIN last' -> 0 .. Throttle]
    BY <2>2, <2>3, <2>4, Limits DEF ClusterInv, ThrottleInv
  <2>7. \A e \in Edges : sent'[e] < Throttle => e \in DOMAIN last' /\ last'[e] = sent'[e]
    BY <2>2, <2>3, <2>4, Limits DEF ClusterInv, ThrottleInv
  <2>8. ThrottleInv'
    BY <2>6, <2>7 DEF ThrottleInv
  <2> QED BY <2>5, <2>8
<1>7. LearntStep
  BY <1>2, <1>3 DEF LearntStep, Closes
<1> QED BY <1>4, <1>5, <1>6, <1>7 DEF ClusterInv

LEMMA ClusterStep ==
  ASSUME ClusterInv, [Next]_(vars)
  PROVE  ClusterInv' /\ (~Reset => LearntStep) /\ PredictedStep
<1>1. CASE UNCHANGED vars
  <2>1. /\ window' = window /\ graph' = graph /\ lru' = lru /\ last' = last /\ sent' = sent
    BY <1>1 DEF vars
  <2>2. Opened' = Opened /\ Memory' = Memory
    BY <2>1 DEF Opened, Memory
  <2>3. ClusterInv'
    BY <2>1, <2>2 DEF ClusterInv, WindowsInv, MemoryInv, ThrottleInv
  <2>4. LearntStep
    BY <2>1, <2>2, Limits DEF LearntStep, Closes, ClusterInv, WindowsInv, Open
  <2>5. PredictedStep
    BY <2>1, Limits DEF PredictedStep
  <2> QED BY <2>3, <2>4, <2>5
<1>2. CASE \E c \in Clients, t \in Targets, won \in BOOLEAN : Observe(c, t, won)
  BY <1>2, ObserveStep
<1>3. CASE Prune
  BY <1>3, PruneStep
<1>4. CASE Reset
  BY <1>4, ResetStep
<1>5. CASE Tick
  BY <1>5, TickStep
<1> QED BY <1>1, <1>2, <1>3, <1>4, <1>5 DEF Next

LEMMA ClusterAlways == Spec => []ClusterInv
<1>1. Init => ClusterInv
  BY InitCluster
<1>2. ClusterInv /\ [Next]_(vars) => ClusterInv'
  BY ClusterStep
<1> QED BY <1>1, <1>2, PTL DEF Spec

\* The index kept beside the graph has exactly its edges, each once, oldest
\* first, and no more than the limit, whatever windows are learnt, in whatever
\* order the sweep closes them (_bump_edge, prune, _evict_oldest_edge).
THEOREM IndexIsExact == Spec => []IndexExact
<1>1. ClusterInv => IndexExact
  <2> SUFFICES ASSUME ClusterInv PROVE IndexExact
    OBVIOUS
  <2>1. Indexed(Memory) /\ Cardinality(DOMAIN graph) <= MaxEntries
        /\ Memory.graph = graph /\ Memory.lru = lru
    BY DEF ClusterInv, MemoryInv, Stored, Memory
  <2>2. lru.edges = DOMAIN graph
    BY <2>1 DEF Indexed
  <2> QED BY <2>1, <2>2 DEF Indexed, Chain, IndexExact
<1> QED BY <1>1, ClusterAlways, PTL

\* A window that is closed, by the next request of its client or by the sweep
\* together with any number of others, has all its pairs in the graph from then
\* on, unless the graph is full of pairs as new (_close_and_learn).
THEOREM WindowsAreLearnt == Spec => LearntWhole
<1> DEFINE Learns ==
      ~Reset => \A c \in Clients : Closes(c) =>
          \A e \in Pairs(window[c].seen) :
              \/ e \in lru'.edges /\ graph'[e].age = 0
              \/ Cardinality(lru'.edges) = MaxEntries /\ \A d \in lru'.edges : graph'[d].age = 0
<1>1. ClusterInv /\ [Next]_(vars) => Learns
  <2> SUFFICES ASSUME ClusterInv, [Next]_(vars), ~Reset,
                      NEW c \in Clients, Closes(c), NEW e \in Pairs(window[c].seen)
               PROVE  \/ e \in lru'.edges /\ graph'[e].age = 0
                      \/ Cardinality(lru'.edges) = MaxEntries /\ \A d \in lru'.edges : graph'[d].age = 0
    OBVIOUS
  <2>1. ClusterInv' /\ Kept(Memory', e)
    BY ClusterStep DEF LearntStep
  <2> DEFINE n == Memory'
  <2>2. n.graph = graph' /\ n.lru = lru'
    BY DEF Memory
  <2>3. Stored(n)
    BY <2>1 DEF ClusterInv, MemoryInv
  <2> HIDE DEF n
  <2>4. lru'.edges = DOMAIN graph' /\ IsFiniteSet(DOMAIN graph') /\ Cardinality(DOMAIN graph') <= MaxEntries
    BY <2>2, <2>3 DEF Stored, Indexed
  <2>5. Kept(n, e)
    BY <2>1 DEF n
  <2> QED BY <2>2, <2>4, <2>5, Limits, FS_CardinalityType DEF Kept
<1> HIDE DEF Learns
<1>2. ClusterInv /\ [Next]_(vars) => [Learns]_(vars)
  BY <1>1
<1>3. Spec => [][Learns]_(vars)
  BY <1>2, ClusterAlways, PTL DEF Spec
<1> QED BY <1>3 DEF LearntWhole, Learns

\* A pair is not predicted again before the throttle time has passed: what the
\* sweep takes from _last_predict throttles nothing any more (maybe_predict,
\* prune).
THEOREM PredictionsAreThrottled == Spec => PredictedSparingly
<1>1. ClusterInv /\ [Next]_(vars) => [PredictedStep]_(vars)
  BY ClusterStep
<1>2. Spec => [][PredictedStep]_(vars)
  BY <1>1, ClusterAlways, PTL DEF Spec
<1> QED BY <1>2 DEF PredictedSparingly, PredictedStep

\* The state has its type: hits and ages keep their bounds, the targets of a
\* window stay numbered (ClusterGraph).
THEOREM ClusterTypes == Spec => []TypeOK
<1>1. ClusterInv => TypeOK
  <2> SUFFICES ASSUME ClusterInv PROVE TypeOK
    OBVIOUS
  <2>1. Indexed(Memory) /\ Memory.graph = graph /\ Memory.lru = lru
    BY DEF ClusterInv, MemoryInv, Stored, Memory
  <2>2. /\ DOMAIN graph \subseteq Edges
        /\ graph \in [DOMAIN graph -> [hits : 1 .. MinSupport, age : 0 .. Ttl + 1]]
        /\ lru \in [edges : SUBSET Edges, before : SUBSET (Edges \X Edges)]
    BY <2>1 DEF Indexed, Chain
  <2>3. ASSUME NEW c \in Opened
        PROVE  DOMAIN window[c].seen \subseteq Targets /\ window[c] \in Windows(DOMAIN window[c].seen)
    <3> DEFINE w == window[c]
    <3>1. Open(w)
      BY DEF ClusterInv, WindowsInv
    <3> HIDE DEF w
    <3>2. w.seen \in [DOMAIN w.seen -> Nat] /\ DOMAIN w.seen \subseteq Targets
      BY <3>1, FS_CardinalityType DEF Open, Numbered
    <3>3. w \in Windows(DOMAIN w.seen)
      BY <3>1, <3>2 DEF Open, Windows
    <3> QED BY <3>2, <3>3 DEF w
  <2>4. window \in [Opened -> Range(window)]
    BY DEF ClusterInv, WindowsInv, Range, Opened
  <2> QED BY <2>2, <2>3, <2>4 DEF ClusterInv, WindowsInv, ThrottleInv, TypeOK
<1> QED BY <1>1, ClusterAlways, PTL
=============================================================================
