-------------------------- MODULE Circuit_proofs --------------------------
(***************************************************************************)
(* Proofs about Circuit for any proxies, targets, thresholds and windows.  *)
(* The inductive invariant adds to the types that the in-flight counter    *)
(* never runs ahead of the attempts in flight, which is what keeps an idle *)
(* proxy below its limit.                                                  *)
(***************************************************************************)
EXTENDS Circuit, FiniteSetTheorems, TLAPS

State == [fails : 0 .. Threshold - 1, backoff : 0 .. MaxBackoff, opened : BOOLEAN,
          left : 0 .. MaxBackoff, warm : 0 .. SlowWindow, wins : 0 .. SlowSuccess]
Limit == [limit : LimitMin .. LimitMax, ok : 0 .. LimitWindow]
Row == [Proxies -> 0 .. DeadWindow + 1]
Count == [Proxies -> 0 .. MaxAttempts]

BreakerOK == circuit \in [Proxies -> State]
LimiterOK == limiter \in [Proxies -> Limit]
TableOK(table) ==
    /\ table = [d \in DOMAIN table |-> table[d]]
    /\ DOMAIN table \subseteq Domains
    /\ \A d \in DOMAIN table : table[d] \in Row
HistoryOK ==
    /\ reached \in [Domains -> 0 .. DeadWindow]
    /\ charged \in [Domains -> [Proxies -> 0 .. DeadWindow]]
AttemptsOK ==
    /\ inFlight \in Count /\ chosen \in Count /\ flying \in Count
    /\ \A p \in Proxies : chosen[p] + flying[p] <= MaxAttempts
    /\ NotOvercounted

\* Whoever was charged for an unreached target is still among its suspects.
Evidence ==
    \A d \in Domains : \A p \in Proxies : charged[d][p] > 0 =>
        d \in Listed /\ failed[d][p] > charged[d][p]

IInv == BreakerOK /\ LimiterOK /\ TableOK(failed) /\ HistoryOK /\ Evidence
          /\ FewChargedPerTarget /\ AttemptsOK

-----------------------------------------------------------------------------
(* The constants *)

\* The constants are numbers in the order CircuitAssumption says.
LEMMA Constants ==
    /\ Threshold \in Nat /\ Threshold > 0
    /\ Base \in Nat /\ Base > 0
    /\ SlowWindow \in Nat /\ SlowWindow > 0
    /\ SlowSuccess \in Nat /\ SlowSuccess > 0
    /\ DeadWindow \in Nat /\ DeadWindow > 0
    /\ DeadProxies \in Nat /\ DeadProxies > 0
    /\ MaxDomains \in Nat
    /\ MaxBackoff \in Nat /\ MaxBackoff >= Base
    /\ LimitMin \in Nat /\ LimitMin > 0
    /\ LimitInitial \in Nat /\ LimitMin <= LimitInitial
    /\ LimitMax \in Nat /\ LimitInitial <= LimitMax
    /\ LimitAdd \in Nat /\ LimitWindow \in Nat /\ LimitWindow > 0
    /\ MaxAttempts \in Nat /\ Limiting \in BOOLEAN
    /\ NoDomain \notin Domains
  BY CircuitAssumption DEF CircuitAssumption

-----------------------------------------------------------------------------
(* The operators on one proxy's state *)

\* A failure keeps the shape of the state; in backoff it leaves the backoff
\* and what is left of it alone.
LEMMA StruckOK ==
    ASSUME NEW s \in State
    PROVE  /\ Struck(s) \in State
           /\ InBackoff(s) => Struck(s).left = s.left /\ Struck(s).backoff = s.backoff
  <1>1. NextBackoff(s) \in 0 .. MaxBackoff
    BY Constants DEF NextBackoff, Smaller, State
  <1>2. CASE InBackoff(s)
    <2>1. Struck(s) = [s EXCEPT !.fails = 0]
      BY <1>2 DEF Struck
    <2>2. 0 \in 0 .. Threshold - 1
      BY Constants
    <2>3. Struck(s) \in State
      BY <2>1, <2>2 DEF State
    <2>4. Struck(s).left = s.left /\ Struck(s).backoff = s.backoff
      BY <2>1 DEF State
    <2> QED BY <2>3, <2>4
  <1>3. CASE ~InBackoff(s) /\ s.fails + 1 >= Threshold
    <2>1. Struck(s) = [s EXCEPT !.fails = 0, !.backoff = NextBackoff(s), !.opened = TRUE,
                                !.left = NextBackoff(s)]
      BY <1>3 DEF Struck
    <2>2. 0 \in 0 .. Threshold - 1
      BY Constants
    <2> QED BY <1>1, <1>3, <2>1, <2>2 DEF State
  <1>4. CASE ~InBackoff(s) /\ ~(s.fails + 1 >= Threshold)
    BY <1>4, Constants DEF Struck, State
  <1> QED BY <1>2, <1>3, <1>4

\* A success keeps the shape of the state and never lengthens a backoff.
LEMMA PraisedOK ==
    ASSUME NEW s \in State
    PROVE  /\ Praised(s) \in State
           /\ Praised(s).left = s.left
           /\ Praised(s).backoff <= s.backoff
  <1>1. CASE ~SlowStart(s)
    BY <1>1, Constants DEF Praised, State
  <1>2. CASE SlowStart(s)
    <2> DEFINE wins == s.wins + 1
               done == wins >= SlowSuccess /\ s.backoff > Base
               next == IF done THEN Larger(Base, s.backoff \div 2) ELSE s.backoff
    <2>1. wins \in 0 .. SlowSuccess
      BY <1>2, Constants DEF SlowStart, State
    <2>2. next \in 0 .. MaxBackoff /\ next <= s.backoff
      BY Constants DEF Larger, State
    <2>3. Praised(s) = [s EXCEPT !.fails = 0, !.wins = wins, !.backoff = next]
      BY <1>2 DEF Praised
    <2>4. 0 \in 0 .. Threshold - 1
      BY Constants
    <2> HIDE DEF wins, done, next
    <2> QED BY <2>1, <2>2, <2>3, <2>4 DEF State
  <1> QED BY <1>1, <1>2

\* Looking at a circuit, or closing it, gives a state again.
LEMMA LookedOK ==
    ASSUME NEW s \in State
    PROVE  /\ Looked(s) \in State /\ Fresh \in State
           /\ Looked(s).left = s.left /\ Looked(s).backoff = s.backoff
  <1>1. /\ 0 \in 0 .. Threshold - 1 /\ 0 \in 0 .. MaxBackoff
        /\ 0 \in 0 .. SlowWindow /\ SlowWindow \in 0 .. SlowWindow
        /\ 0 \in 0 .. SlowSuccess
    BY Constants
  <1>2. Fresh \in State
    BY <1>1 DEF Fresh, State
  <1>3. Rearm(s) \in State /\ Rearm(s).left = s.left /\ Rearm(s).backoff = s.backoff
    BY <1>1 DEF Rearm, State
  <1> QED BY <1>2, <1>3 DEF Looked

\* One tick off both clocks.
LEMMA TickedOK ==
    ASSUME NEW s \in State
    PROVE  [s EXCEPT !.left = Less(@), !.warm = Less(@)] \in State
  <1>1. /\ Less(s.left) \in 0 .. MaxBackoff
        /\ Less(s.warm) \in 0 .. SlowWindow
    BY Constants DEF Less, State
  <1> QED BY <1>1 DEF State

\* The limit stays between its floor and its ceiling.
LEMMA LimitOK ==
    ASSUME NEW l \in Limit
    PROVE  Raised(l) \in Limit /\ Lowered(l) \in Limit /\ NoLimit \in Limit
  <1>1. Raised(l) \in Limit
    BY Constants DEF Raised, Limit, Smaller
  <1>2. Lowered(l) \in Limit
    BY Constants DEF Lowered, Limit, Larger
  <1>3. NoLimit \in Limit
    BY Constants DEF NoLimit, Limit
  <1> QED BY <1>1, <1>2, <1>3

-----------------------------------------------------------------------------
(* The attribution table *)

\* What a failure on d makes of d's row.
LEMMA NotedOK ==
    ASSUME TableOK(failed), NEW d \in Domains, NEW p \in Proxies
    PROVE  /\ Noted(d, p) \in Row
           /\ Noted(d, p)[p] = DeadWindow + 1
           /\ d \in Listed => \A q \in Proxies : Noted(d, p)[q] >= failed[d][q]
  <1> DEFINE known == IF d \in Listed THEN failed[d] ELSE [q \in Proxies |-> 0]
  <1>1. DeadWindow + 1 \in 0 .. DeadWindow + 1 /\ 0 \in 0 .. DeadWindow + 1
    BY Constants
  <1>2. known \in Row
    BY <1>1 DEF TableOK, Row, Listed
  <1>3. Noted(d, p) = [known EXCEPT ![p] = DeadWindow + 1]
    BY DEF Noted
  <1>4. Noted(d, p) \in Row /\ Noted(d, p)[p] = DeadWindow + 1
    BY <1>1, <1>2, <1>3 DEF Row
  <1>5. ASSUME d \in Listed, NEW q \in Proxies
        PROVE  Noted(d, p)[q] >= failed[d][q]
    <2>1. failed[d][q] \in 0 .. DeadWindow + 1 /\ known = failed[d]
      BY <1>5, <1>2 DEF Row
    <2>2. CASE q = p
      BY <2>1, <2>2, <1>4, Constants
    <2>3. CASE q # p
      BY <2>1, <2>3, <1>2, <1>3, Constants DEF Row
    <2> QED BY <2>2, <2>3
  <1> QED BY <1>4, <1>5

\* The table with this failure in it, before any pruning.
LEMMA RecordedOK ==
    ASSUME TableOK(failed), NEW d \in Domains, NEW p \in Proxies
    PROVE  /\ TableOK(Recorded(d, p))
           /\ DOMAIN Recorded(d, p) = Listed \cup {d}
           /\ Recorded(d, p)[d] = Noted(d, p)
           /\ \A e \in Listed : \A q \in Proxies : Recorded(d, p)[e][q] >= failed[e][q]
  <1>1. Noted(d, p) \in Row /\ (d \in Listed => \A q \in Proxies : Noted(d, p)[q] >= failed[d][q])
    BY NotedOK
  <1>2. DOMAIN Recorded(d, p) = Listed \cup {d} /\ Recorded(d, p)[d] = Noted(d, p)
    BY DEF Recorded
  <1>3. \A e \in Listed : e # d => Recorded(d, p)[e] = failed[e]
    BY DEF Recorded
  <1>4. \A e \in Listed : failed[e] \in Row /\ e \in Domains
    BY DEF TableOK, Listed
  <1>5. TableOK(Recorded(d, p))
    <2>1. \A e \in Listed \cup {d} : Recorded(d, p)[e] \in Row
      BY <1>1, <1>2, <1>3, <1>4
    <2>2. Recorded(d, p) = [e \in DOMAIN Recorded(d, p) |-> Recorded(d, p)[e]]
      BY DEF Recorded
    <2> QED BY <2>1, <2>2, <1>2, <1>4 DEF TableOK
  <1>6. ASSUME NEW e \in Listed, NEW q \in Proxies
        PROVE  Recorded(d, p)[e][q] >= failed[e][q]
    <2>1. failed[e][q] \in 0 .. DeadWindow + 1
      BY <1>4 DEF Row
    <2> QED BY <2>1, <1>1, <1>2, <1>3, Constants
  <1> QED BY <1>2, <1>5, <1>6

\* Pruning only ever drops whole rows.
LEMMA TablesOK ==
    ASSUME TableOK(failed), NEW d \in Domains, NEW p \in Proxies, NEW t \in Tables(d, p)
    PROVE  /\ TableOK(t)
           /\ ~TargetLevel(d, p) => t = Recorded(d, p)
           /\ \A e \in DOMAIN t : e \in DOMAIN Recorded(d, p) /\ t[e] = Recorded(d, p)[e]
  <1>1. TableOK(Recorded(d, p))
    BY RecordedOK
  <1>2. CASE t = Recorded(d, p)
    BY <1>1, <1>2
  <1>3. CASE t \in Prunings(Recorded(d, p)) /\ TargetLevel(d, p)
    <2>1. PICK keep \in SUBSET (DOMAIN Recorded(d, p)) : t = [e \in keep |-> Recorded(d, p)[e]]
      BY <1>3 DEF Prunings
    <2>2. DOMAIN t = keep /\ \A e \in keep : t[e] = Recorded(d, p)[e]
      BY <2>1
    <2>3. t = [e \in DOMAIN t |-> t[e]]
      BY <2>1
    <2> QED BY <1>1, <1>3, <2>1, <2>2, <2>3 DEF TableOK
  <1> QED BY <1>2, <1>3 DEF Tables

-----------------------------------------------------------------------------
(* The two observations keep the invariant *)

\* charging a proxy
LEMMA ChargeKeeps ==
    ASSUME BreakerOK, LimiterOK, NEW p \in Proxies, Charge(p)
    PROVE  BreakerOK' /\ LimiterOK'
  <1>1. circuit[p] \in State /\ limiter[p] \in Limit
    BY DEF BreakerOK, LimiterOK
  <1>2. Struck(circuit[p]) \in State
    BY <1>1, StruckOK
  <1>3. Clamped(p) \in Limit
    BY <1>1, LimitOK DEF Clamped
  <1> QED BY <1>2, <1>3 DEF Charge, BreakerOK, LimiterOK

\* A failure, whatever its reason and whoever is to blame.
LEMMA FailureKeeps ==
    ASSUME BreakerOK, LimiterOK, TableOK(failed), HistoryOK, Evidence, FewChargedPerTarget,
           NEW p \in Proxies, NEW d \in Domains \cup {NoDomain}, NEW reason \in Reasons,
           RecordFailure(p, d, reason)
    PROVE  BreakerOK' /\ LimiterOK' /\ TableOK(failed)' /\ HistoryOK' /\ Evidence'
             /\ FewChargedPerTarget'
  <1>0. reached' = reached
    BY DEF RecordFailure
  <1>1. CASE reason = "http_status"
    BY <1>0, <1>1 DEF RecordFailure, BreakerOK, LimiterOK, TableOK, HistoryOK, Evidence,
       FewChargedPerTarget, Listed
  <1>2. CASE reason # "http_status" /\ d = NoDomain
    <2>1. Charge(p) /\ failed' = failed /\ charged' = charged
      BY <1>2 DEF RecordFailure
    <2>2. BreakerOK' /\ LimiterOK'
      BY <2>1, ChargeKeeps
    <2> QED BY <1>0, <2>1, <2>2 DEF TableOK, HistoryOK, Evidence, FewChargedPerTarget, Listed
  <1>3. CASE reason # "http_status" /\ d # NoDomain
    <2>0. d \in Domains
      BY <1>3
    <2>1. failed' \in Tables(d, p)
      BY <1>3 DEF RecordFailure
    <2>2. /\ TableOK(failed)'
          /\ \A e \in DOMAIN failed' : e \in DOMAIN Recorded(d, p) /\ failed'[e] = Recorded(d, p)[e]
          /\ ~TargetLevel(d, p) => failed' = Recorded(d, p)
      <3>1. /\ TableOK(failed')
            /\ \A e \in DOMAIN failed' : e \in DOMAIN Recorded(d, p) /\ failed'[e] = Recorded(d, p)[e]
            /\ ~TargetLevel(d, p) => failed' = Recorded(d, p)
        BY <2>0, <2>1, TablesOK
      <3> QED BY <3>1 DEF TableOK
    <2>3. /\ DOMAIN Recorded(d, p) = Listed \cup {d} /\ Recorded(d, p)[d] = Noted(d, p)
          /\ \A e \in Listed : \A q \in Proxies : Recorded(d, p)[e][q] >= failed[e][q]
          /\ TableOK(Recorded(d, p))
      BY <2>0, RecordedOK
    <2>4. \A e \in Domains, q \in Proxies : charged[e][q] \in 0 .. DeadWindow
      BY DEF HistoryOK
    <2>5. \A e \in Listed, q \in Proxies : failed[e][q] \in 0 .. DeadWindow + 1
      BY DEF TableOK, Row, Listed
    <2>6. CASE TargetLevel(d, p)
      <3>1. circuit' = circuit /\ limiter' = limiter /\ charged' = Remembered(DOMAIN failed')
        BY <1>3, <2>6 DEF RecordFailure
      <3>2. BreakerOK' /\ LimiterOK'
        BY <3>1 DEF BreakerOK, LimiterOK
      <3>3. \A e \in Domains : charged'[e] =
              IF e \in DOMAIN failed' THEN charged[e] ELSE [q \in Proxies |-> 0]
        BY <3>1 DEF Remembered
      <3>4. HistoryOK'
        <4>1. \A e \in Domains : charged'[e] \in [Proxies -> 0 .. DeadWindow]
          <5>1. 0 \in 0 .. DeadWindow
            BY Constants
          <5> QED BY <3>3, <5>1 DEF HistoryOK
        <4>2. charged' = [e \in Domains |-> charged'[e]]
          BY <3>1 DEF Remembered
        <4> QED BY <4>1, <4>2, <1>0 DEF HistoryOK
      <3>5. Evidence'
        <4> SUFFICES ASSUME NEW e \in Domains, NEW q \in Proxies, charged'[e][q] > 0
                     PROVE  e \in DOMAIN failed' /\ failed'[e][q] > charged'[e][q]
          BY DEF Evidence, Listed
        <4>1. e \in DOMAIN failed' /\ charged'[e] = charged[e]
          BY <3>3
        <4>2. e \in Listed /\ failed[e][q] > charged[e][q]
          BY <4>1 DEF Evidence
        <4>3. failed'[e][q] = Recorded(d, p)[e][q] /\ Recorded(d, p)[e][q] >= failed[e][q]
          BY <4>1, <4>2, <2>2, <2>3
        <4>4. Recorded(d, p)[e][q] \in 0 .. DeadWindow + 1
          BY <2>3, <4>1, <2>2 DEF TableOK, Row
        <4> QED BY <4>1, <4>2, <4>3, <4>4, <2>4, <2>5, Constants
      <3>6. FewChargedPerTarget'
        <4> SUFFICES ASSUME NEW e \in Domains
                     PROVE  Cardinality({q \in Proxies : charged'[e][q] > 0}) < DeadProxies
          BY DEF FewChargedPerTarget
        <4>1. CASE e \in DOMAIN failed'
          BY <3>3, <4>1 DEF FewChargedPerTarget
        <4>2. CASE e \notin DOMAIN failed'
          <5>1. {q \in Proxies : charged'[e][q] > 0} = {}
            BY <3>3, <4>2
          <5> QED BY <5>1, FS_EmptySet, Constants
        <4> QED BY <4>1, <4>2
      <3> QED BY <2>2, <3>2, <3>4, <3>5, <3>6
    <2>7. CASE ~TargetLevel(d, p)
      <3>1. Charge(p) /\ failed' = Recorded(d, p)
        BY <1>3, <2>2, <2>7 DEF RecordFailure
      <3>2. BreakerOK' /\ LimiterOK'
        BY <3>1, ChargeKeeps
      <3>3. \A e \in Domains, q \in Proxies :
              charged'[e][q] = charged[e][q] \/ (e = d /\ q = p /\ charged'[e][q] = DeadWindow)
        BY <1>3, <2>7, <2>0 DEF RecordFailure, HistoryOK
      <3>4. HistoryOK'
        <4>1. DeadWindow \in 0 .. DeadWindow
          BY Constants
        <4>2. charged' \in [Domains -> [Proxies -> 0 .. DeadWindow]]
          BY <1>3, <2>7, <2>0, <4>1 DEF RecordFailure, HistoryOK
        <4> QED BY <4>2, <1>0 DEF HistoryOK
      <3>5. Evidence'
        <4> SUFFICES ASSUME NEW e \in Domains, NEW q \in Proxies, charged'[e][q] > 0
                     PROVE  e \in DOMAIN failed' /\ failed'[e][q] > charged'[e][q]
          BY DEF Evidence, Listed
        <4>1. CASE e = d /\ q = p
          <5>1. failed'[e][q] = DeadWindow + 1
            BY <4>1, <3>1, <2>3, <2>0, NotedOK
          <5> QED BY <5>1, <4>1, <3>1, <2>3, <3>3, <2>4, Constants
        <4>2. CASE ~(e = d /\ q = p)
          <5>1. charged'[e][q] = charged[e][q]
            BY <3>3, <4>2
          <5>2. e \in Listed /\ failed[e][q] > charged[e][q]
            BY <5>1 DEF Evidence
          <5>3. failed'[e][q] >= failed[e][q]
            BY <3>1, <2>3, <5>2
          <5>4. failed'[e][q] \in 0 .. DeadWindow + 1
            BY <2>3, <3>1, <5>2 DEF TableOK, Row
          <5> QED BY <5>1, <5>2, <5>3, <5>4, <2>3, <3>1, <2>4, <2>5, Constants
        <4> QED BY <4>1, <4>2
      <3>6. FewChargedPerTarget'
        <4> SUFFICES ASSUME NEW e \in Domains
                     PROVE  Cardinality({q \in Proxies : charged'[e][q] > 0}) < DeadProxies
          BY DEF FewChargedPerTarget
        <4>1. CASE charged'[e] = charged[e]
          BY <4>1 DEF FewChargedPerTarget
        <4>2. CASE charged'[e] # charged[e]
          <5>1. e = d /\ NobodyReached(d)
            BY <1>3, <2>7, <2>0, <4>2 DEF RecordFailure, HistoryOK
          <5>2. Cardinality(Suspects(d, p)) < DeadProxies
            <6>1. IsFiniteSet(Suspects(d, p))
              BY CircuitAssumption, FS_Subset DEF CircuitAssumption, Suspects
            <6> QED BY <6>1, <5>1, <2>7, FS_CardinalityType, Constants DEF TargetLevel
          <5>3. {q \in Proxies : charged'[e][q] > 0} \subseteq Suspects(d, p)
            <6> SUFFICES ASSUME NEW q \in Proxies, charged'[d][q] > 0
                         PROVE  Noted(d, p)[q] > 0
              BY <5>1 DEF Suspects
            <6>1. failed'[d][q] > charged'[d][q]
              BY <3>5, <2>0 DEF Evidence
            <6>2. failed'[d][q] = Noted(d, p)[q]
              BY <3>1, <2>3
            <6>3. charged'[d][q] \in Nat /\ Noted(d, p)[q] \in Nat
              BY <3>4, <2>0, NotedOK, Constants DEF HistoryOK, Row
            <6> QED BY <6>1, <6>2, <6>3
          <5>4. IsFiniteSet(Suspects(d, p))
            BY CircuitAssumption, FS_Subset DEF CircuitAssumption, Suspects
          <5>5. /\ IsFiniteSet({q \in Proxies : charged'[e][q] > 0})
                /\ Cardinality({q \in Proxies : charged'[e][q] > 0}) <= Cardinality(Suspects(d, p))
            BY <5>3, <5>4, FS_Subset
          <5> QED BY <5>2, <5>4, <5>5, FS_CardinalityType, Constants
        <4> QED BY <4>1, <4>2
      <3> QED BY <2>2, <3>2, <3>4, <3>5, <3>6
    <2> QED BY <2>6, <2>7
  <1> QED BY <1>1, <1>2, <1>3

\* A success only ever shortens a backoff and extends what is known reached.
LEMMA SuccessKeeps ==
    ASSUME BreakerOK, LimiterOK, TableOK(failed), HistoryOK, Evidence, FewChargedPerTarget,
           NEW p \in Proxies, NEW d \in Domains \cup {NoDomain},
           RecordTtfb(p, d), RecordSuccess(p) \/ circuit' = circuit
    PROVE  BreakerOK' /\ LimiterOK' /\ TableOK(failed)' /\ HistoryOK' /\ Evidence'
             /\ FewChargedPerTarget'
  <1>1. BreakerOK'
    <2>1. Praised(circuit[p]) \in State
      BY PraisedOK DEF BreakerOK
    <2> QED BY <2>1 DEF RecordSuccess, BreakerOK
  <1>2. LimiterOK'
    <2>1. limiter[p] \in Limit /\ Raised(limiter[p]) \in Limit
      BY LimitOK DEF LimiterOK
    <2> QED BY <2>1 DEF RecordTtfb, LimiterOK
  <1>3. failed' = failed /\ charged' = charged
    BY DEF RecordTtfb
  <1>4. reached' \in [Domains -> 0 .. DeadWindow]
    <2>1. DeadWindow \in 0 .. DeadWindow
      BY Constants
    <2> QED BY <2>1 DEF RecordTtfb, HistoryOK
  <1> QED BY <1>1, <1>2, <1>3, <1>4 DEF TableOK, HistoryOK, Evidence, FewChargedPerTarget, Listed

-----------------------------------------------------------------------------
(* Attempts *)

\* The counters that an attempt moves keep their bounds and their order.
LEMMA AttemptsKept ==
    ASSUME AttemptsOK, NEW p \in Proxies
    PROVE  /\ Choose(p) /\ UNCHANGED <<inFlight, flying>> => AttemptsOK'
           /\ Drop(p) => AttemptsOK'
           /\ Land(p) => AttemptsOK'
           /\ UNCHANGED attempts => AttemptsOK'
           /\ Launch(p) => AttemptsOK'
           /\ Retries(p) => AttemptsOK'
  <1>1. \A q \in Proxies :
          /\ chosen[q] \in Nat /\ flying[q] \in Nat /\ inFlight[q] \in Nat
          /\ chosen[q] + flying[q] <= MaxAttempts /\ inFlight[q] <= flying[q]
    BY Constants DEF AttemptsOK, NotOvercounted, Count
  <1>2. inFlight \in [Proxies -> Nat] /\ chosen \in [Proxies -> Nat] /\ flying \in [Proxies -> Nat]
    BY <1>1 DEF AttemptsOK, Count
  <1>3. ASSUME inFlight' \in [Proxies -> Nat], chosen' \in [Proxies -> Nat],
               flying' \in [Proxies -> Nat],
               \A q \in Proxies : chosen'[q] + flying'[q] <= MaxAttempts
                                    /\ inFlight'[q] <= flying'[q]
        PROVE  AttemptsOK'
    <2>1. \A q \in Proxies : inFlight'[q] \in 0 .. MaxAttempts /\ chosen'[q] \in 0 .. MaxAttempts
                               /\ flying'[q] \in 0 .. MaxAttempts
      BY <1>3, Constants
    <2>2. inFlight' \in Count /\ chosen' \in Count /\ flying' \in Count
      BY <1>3, <2>1 DEF Count
    <2> QED BY <1>3, <2>2 DEF AttemptsOK, NotOvercounted
  <1>4. ASSUME Choose(p), UNCHANGED <<inFlight, flying>> PROVE AttemptsOK'
    <2>1. chosen' \in [Proxies -> Nat] /\ chosen'[p] = chosen[p] + 1
            /\ \A q \in Proxies : q # p => chosen'[q] = chosen[q]
      BY <1>1, <1>2, <1>4 DEF Choose
    <2>2. \A q \in Proxies : chosen'[q] + flying[q] <= MaxAttempts
      BY <1>1, <1>4, <2>1, Constants DEF Choose, Room
    <2> QED BY <1>1, <1>2, <1>3, <1>4, <2>1, <2>2
  <1>5. ASSUME Drop(p) PROVE AttemptsOK'
    <2>1. chosen' \in [Proxies -> Nat] /\ \A q \in Proxies : chosen'[q] <= chosen[q]
      BY <1>1, <1>2, <1>5 DEF Drop
    <2>2. inFlight' = inFlight /\ flying' = flying
      BY <1>5 DEF Drop
    <2>3. \A q \in Proxies : chosen'[q] + flying[q] <= MaxAttempts
      BY <1>1, <2>1, Constants
    <2> QED BY <1>1, <1>2, <1>3, <2>1, <2>2, <2>3
  <1>6. ASSUME flying[p] > 0, flying' = [flying EXCEPT ![p] = @ - 1], InflightFinish(p)
        PROVE  /\ flying' \in [Proxies -> Nat] /\ inFlight' \in [Proxies -> Nat]
               /\ flying'[p] = flying[p] - 1
               /\ \A q \in Proxies : q # p => flying'[q] = flying[q]
               /\ \A q \in Proxies : inFlight'[q] <= flying'[q]
    <2>1. /\ flying' \in [Proxies -> Nat] /\ flying'[p] = flying[p] - 1
          /\ \A q \in Proxies : q # p => flying'[q] = flying[q]
      BY <1>1, <1>2, <1>6
    <2>2. Less(inFlight[p]) \in Nat /\ Less(inFlight[p]) <= flying[p] - 1
      BY <1>1, <1>6 DEF Less
    <2>3. inFlight' \in [Proxies -> Nat] /\ inFlight'[p] = Less(inFlight[p])
            /\ \A q \in Proxies : q # p => inFlight'[q] = inFlight[q]
      BY <1>2, <1>6, <2>2 DEF InflightFinish
    <2> QED BY <1>1, <2>1, <2>2, <2>3
  <1>7. ASSUME Land(p) PROVE AttemptsOK'
    <2>1. /\ flying' \in [Proxies -> Nat] /\ inFlight' \in [Proxies -> Nat]
          /\ flying'[p] = flying[p] - 1
          /\ \A q \in Proxies : q # p => flying'[q] = flying[q]
          /\ \A q \in Proxies : inFlight'[q] <= flying'[q]
      BY <1>6, <1>7 DEF Land
    <2>2. chosen' = chosen
      BY <1>7 DEF Land
    <2>3. \A q \in Proxies : chosen[q] + flying'[q] <= MaxAttempts
      BY <1>1, <2>1, Constants
    <2> QED BY <1>2, <1>3, <2>1, <2>2, <2>3
  <1>8. ASSUME UNCHANGED attempts PROVE AttemptsOK'
    BY <1>8 DEF attempts, AttemptsOK, NotOvercounted
  <1>9. ASSUME Launch(p) PROVE AttemptsOK'
    <2>1. /\ chosen' = [chosen EXCEPT ![p] = @ - 1] /\ flying' = [flying EXCEPT ![p] = @ + 1]
          /\ inFlight' = [inFlight EXCEPT ![p] = @ + 1] /\ chosen[p] > 0
      BY <1>9 DEF Launch, InflightStart
    <2>2. chosen' \in [Proxies -> Nat] /\ flying' \in [Proxies -> Nat]
            /\ inFlight' \in [Proxies -> Nat]
      BY <1>1, <1>2, <2>1
    <2>3. \A q \in Proxies : chosen'[q] + flying'[q] <= MaxAttempts /\ inFlight'[q] <= flying'[q]
      <3> SUFFICES ASSUME NEW q \in Proxies
                   PROVE  chosen'[q] + flying'[q] <= MaxAttempts /\ inFlight'[q] <= flying'[q]
        OBVIOUS
      <3>1. CASE q = p
        <4>1. chosen'[q] = chosen[q] - 1 /\ flying'[q] = flying[q] + 1
                /\ inFlight'[q] = inFlight[q] + 1
          BY <3>1, <2>1, <1>2
        <4> QED BY <4>1, <1>1, Constants
      <3>2. CASE q # p
        BY <3>2, <2>1, <1>1, <1>2
      <3> QED BY <3>1, <3>2
    <2> QED BY <1>3, <2>2, <2>3
  <1>10. ASSUME Retries(p) PROVE AttemptsOK'
    <2>1. /\ flying' \in [Proxies -> Nat] /\ inFlight' \in [Proxies -> Nat]
          /\ flying'[p] = flying[p] - 1
          /\ \A q \in Proxies : q # p => flying'[q] = flying[q]
          /\ \A q \in Proxies : inFlight'[q] <= flying'[q]
      BY <1>6, <1>10 DEF Retries
    <2>2. /\ chosen' \in [Proxies -> Nat] /\ chosen'[p] = chosen[p] + 1
          /\ \A q \in Proxies : q # p => chosen'[q] = chosen[q]
      BY <1>1, <1>2, <1>10 DEF Retries
    <2>3. \A q \in Proxies : chosen'[q] + flying'[q] <= MaxAttempts
      BY <1>1, <2>1, <2>2, Constants
    <2> QED BY <1>3, <2>1, <2>2, <2>3
  <1> QED BY <1>4, <1>5, <1>7, <1>8, <1>9, <1>10

-----------------------------------------------------------------------------
(* The invariant *)

BreakerInv == BreakerOK /\ LimiterOK /\ TableOK(failed) /\ HistoryOK /\ Evidence
                /\ FewChargedPerTarget

\* Initially nothing is known of any proxy.
LEMMA InitOK == Init => IInv
  <1> SUFFICES ASSUME Init PROVE IInv
    OBVIOUS
  <1>1. /\ 0 \in 0 .. DeadWindow + 1 /\ 0 \in 0 .. DeadWindow /\ 0 \in 0 .. MaxAttempts
        /\ Fresh \in State /\ NoLimit \in Limit
    <2>1. NoLimit \in Limit
      BY Constants DEF NoLimit, Limit
    <2>2. Fresh \in State
      BY Constants DEF Fresh, State
    <2> QED BY <2>1, <2>2, Constants
  <1>2. BreakerOK /\ LimiterOK
    BY <1>1 DEF Init, BreakerOK, LimiterOK
  <1>3. TableOK(failed)
    BY DEF Init, TableOK
  <1>4. HistoryOK /\ Evidence
    BY <1>1 DEF Init, HistoryOK, Evidence
  <1>5. AttemptsOK
    BY <1>1, Constants DEF Init, AttemptsOK, NotOvercounted, Count
  <1>6. FewChargedPerTarget
    <2>1. \A d \in Domains : {p \in Proxies : charged[d][p] > 0} = {}
      BY DEF Init
    <2> QED BY <2>1, FS_EmptySet, Constants DEF FewChargedPerTarget
  <1> QED BY <1>2, <1>3, <1>4, <1>5, <1>6 DEF IInv

\* Steps that only look at circuits or close them leave the rest alone.
LEMMA LooksKeep ==
    ASSUME BreakerInv, BreakerOK', UNCHANGED <<failed, reached, limiter, charged>>
    PROVE  BreakerInv'
  BY DEF BreakerInv, LimiterOK, TableOK, HistoryOK, Evidence, FewChargedPerTarget, Listed

\* What traffic through one proxy keeps.
LEMMA TrafficKeeps ==
    ASSUME IInv, NEW p \in Proxies, Traffic(p)
    PROVE  IInv'
  <1> USE DEF IInv
  <1>0. BreakerInv /\ AttemptsOK
    BY DEF BreakerInv
  <1>1. \A q \in Proxies : Looked(circuit[q]) \in State
    BY LookedOK DEF BreakerOK
  <1>2. CASE RaceChooses(p)
    <2>1. BreakerOK'
      BY <1>1, <1>2 DEF RaceChooses, BreakerOK
    <2>2. BreakerInv' /\ AttemptsOK'
      BY <1>0, <1>2, <2>1, LooksKeep, AttemptsKept DEF RaceChooses
    <2> QED BY <2>2 DEF BreakerInv
  <1>3. CASE PinChooses(p)
    <2>1. BreakerOK'
      BY <1>1, <1>3 DEF PinChooses, BreakerOK
    <2>2. BreakerInv' /\ AttemptsOK'
      BY <1>0, <1>3, <2>1, LooksKeep, AttemptsKept DEF PinChooses
    <2> QED BY <2>2 DEF BreakerInv
  <1>4. CASE Looks(p)
    <2>1. BreakerOK'
      BY <1>1, <1>4 DEF Looks, BreakerOK
    <2>2. BreakerInv' /\ AttemptsOK'
      BY <1>0, <1>4, <2>1, LooksKeep, AttemptsKept DEF Looks
    <2> QED BY <2>2 DEF BreakerInv
  <1>5. ASSUME UNCHANGED <<breaker, limiter>> PROVE BreakerInv'
    <2>1. UNCHANGED <<circuit, failed, reached, limiter, charged>>
      BY <1>5 DEF breaker
    <2> QED BY <1>0, <2>1, LooksKeep DEF BreakerOK
  <1>6. CASE Launch(p) \/ Abandon(p) \/ Loses(p) \/ Retries(p)
    <2>1. BreakerInv'
      BY <1>5, <1>6 DEF Launch, Abandon, Loses, Retries
    <2>2. AttemptsOK'
      BY <1>0, <1>6, AttemptsKept DEF Abandon, Loses
    <2> QED BY <2>1, <2>2 DEF BreakerInv
  <1>7. CASE ConnectFails(p) \/ Fails(p) \/ ProbeFails(p)
    <2>1. PICK d \in Domains \cup {NoDomain}, reason \in Reasons : RecordFailure(p, d, reason)
      BY <1>7 DEF ConnectFails, Fails, ProbeFails, Reasons
    <2>2. BreakerInv'
      BY <2>1, FailureKeeps DEF BreakerInv
    <2>3. AttemptsOK'
      BY <1>0, <1>7, AttemptsKept DEF ConnectFails, Fails, ProbeFails
    <2> QED BY <2>2, <2>3 DEF BreakerInv
  <1>8. CASE Succeeds(p) \/ ProbeOk(p) \/ ProbeGet(p)
    <2>1. PICK d \in Domains \cup {NoDomain} :
            RecordTtfb(p, d) /\ (RecordSuccess(p) \/ circuit' = circuit)
      BY <1>8 DEF Succeeds, ProbeOk, ProbeGet, Observed
    <2>2. BreakerInv'
      BY <2>1, SuccessKeeps DEF BreakerInv
    <2>3. AttemptsOK'
      BY <1>0, <1>8, AttemptsKept DEF Succeeds, ProbeOk, ProbeGet
    <2> QED BY <2>2, <2>3 DEF BreakerInv
  <1> QED BY <1>2, <1>3, <1>4, <1>6, <1>7, <1>8 DEF Traffic

\* The operator's two resets.
LEMMA ResetsKeep ==
    ASSUME IInv, ResetCircuits \/ ResetQuality
    PROVE  IInv'
  <1>1. Fresh \in State /\ NoLimit \in Limit
    BY Constants DEF NoLimit, Limit, Fresh, State
  <1>2. BreakerOK'
    BY <1>1 DEF ResetCircuits, ResetQuality, BreakerOK
  <1>3. CASE ResetCircuits
    <2>1. BreakerInv
      BY DEF IInv, BreakerInv
    <2>2. BreakerInv'
      BY <1>2, <1>3, <2>1, LooksKeep DEF ResetCircuits
    <2>3. AttemptsOK'
      BY <1>3 DEF IInv, ResetCircuits, attempts, AttemptsOK, NotOvercounted
    <2> QED BY <2>2, <2>3 DEF IInv, BreakerInv
  <1>4. CASE ResetQuality
    <2>1. 0 \in 0 .. DeadWindow /\ 0 \in 0 .. MaxAttempts
      BY Constants
    <2>2. LimiterOK' /\ TableOK(failed)'
      BY <1>1, <1>4 DEF ResetQuality, LimiterOK, TableOK
    <2>3. HistoryOK' /\ Evidence'
      BY <1>4, <2>1 DEF ResetQuality, HistoryOK, Evidence
    <2>4. FewChargedPerTarget'
      <3>1. \A d \in Domains : {p \in Proxies : charged'[d][p] > 0} = {}
        BY <1>4 DEF ResetQuality
      <3> QED BY <3>1, FS_EmptySet, Constants DEF FewChargedPerTarget
    <2>5. AttemptsOK'
      <3>1. inFlight' \in Count /\ \A p \in Proxies : inFlight'[p] = 0
        BY <1>4, <2>1 DEF ResetQuality, Count
      <3>2. chosen' = chosen /\ flying' = flying
        BY <1>4 DEF ResetQuality
      <3>3. \A p \in Proxies : flying[p] \in Nat
        BY Constants DEF IInv, AttemptsOK, Count
      <3> QED BY <3>1, <3>2, <3>3 DEF IInv, AttemptsOK, NotOvercounted
    <2> QED BY <1>2, <2>2, <2>3, <2>4, <2>5 DEF IInv
  <1> QED BY <1>3, <1>4

\* Time shortens what is left of every clock.
LEMMA TickKeeps ==
    ASSUME IInv, Tick
    PROVE  IInv'
  <1> USE DEF IInv
  <1>1. BreakerOK'
    <2>1. \A p \in Proxies : [circuit[p] EXCEPT !.left = Less(@), !.warm = Less(@)] \in State
      BY TickedOK DEF BreakerOK
    <2> QED BY <2>1 DEF Tick, BreakerOK
  <1>2. LimiterOK' /\ AttemptsOK'
    BY DEF Tick, LimiterOK, AttemptsOK, NotOvercounted, attempts
  <1>3. \A n \in 0 .. DeadWindow + 1 : Less(n) \in 0 .. DeadWindow + 1
    BY Constants DEF Less
  <1>4. \A n \in 0 .. DeadWindow : Less(n) \in 0 .. DeadWindow /\ Less(n) <= n
    BY Constants DEF Less
  <1>5. /\ DOMAIN failed' = Listed
        /\ \A d \in Listed, p \in Proxies : failed'[d][p] = Less(failed[d][p])
        /\ \A d \in Domains, p \in Proxies : charged'[d][p] = Less(charged[d][p])
    BY DEF Tick
  <1>6. TableOK(failed)'
    BY <1>3 DEF Tick, TableOK, Row, Listed
  <1>7. HistoryOK'
    BY <1>4 DEF Tick, HistoryOK
  <1>8. Evidence'
    <2> SUFFICES ASSUME NEW d \in Domains, NEW p \in Proxies, charged'[d][p] > 0
                 PROVE  d \in DOMAIN failed' /\ failed'[d][p] > charged'[d][p]
      BY DEF Evidence, Listed
    <2>1. charged[d][p] \in 0 .. DeadWindow
      BY DEF HistoryOK
    <2>2. charged[d][p] > 0 /\ charged'[d][p] = charged[d][p] - 1
      BY <1>5, <2>1, Constants DEF Less
    <2>3. d \in Listed /\ failed[d][p] > charged[d][p]
      BY <2>2 DEF Evidence
    <2>4. failed[d][p] \in 0 .. DeadWindow + 1
      BY <2>3 DEF TableOK, Row, Listed
    <2> QED BY <1>5, <2>1, <2>2, <2>3, <2>4, Constants DEF Less
  <1>9. FewChargedPerTarget'
    <2> SUFFICES ASSUME NEW d \in Domains
                 PROVE  Cardinality({p \in Proxies : charged'[d][p] > 0}) < DeadProxies
      BY DEF FewChargedPerTarget
    <2> DEFINE old == {p \in Proxies : charged[d][p] > 0}
               new == {p \in Proxies : charged'[d][p] > 0}
    <2>1. \A p \in Proxies : charged[d][p] \in 0 .. DeadWindow
      BY DEF HistoryOK
    <2>2. new \subseteq old
      BY <1>5, <2>1, Constants DEF Less
    <2>3. IsFiniteSet(old)
      BY CircuitAssumption, FS_Subset DEF CircuitAssumption
    <2>4. IsFiniteSet(new) /\ Cardinality(new) <= Cardinality(old)
      BY <2>2, <2>3, FS_Subset
    <2>5. Cardinality(old) < DeadProxies
      BY DEF FewChargedPerTarget
    <2> HIDE DEF old, new
    <2>6. Cardinality(new) < DeadProxies
      BY <2>3, <2>4, <2>5, FS_CardinalityType, Constants
    <2> QED BY <2>6 DEF new
  <1> QED BY <1>1, <1>2, <1>6, <1>7, <1>8, <1>9

\* Every step keeps the invariant.
LEMMA StepOK == IInv /\ [Next]_vars => IInv'
  <1> SUFFICES ASSUME IInv, [Next]_vars PROVE IInv'
    OBVIOUS
  <1>1. CASE \E p \in Proxies : Traffic(p)
    BY <1>1, TrafficKeeps
  <1>2. CASE ResetCircuits \/ ResetQuality
    BY <1>2, ResetsKeep
  <1>3. CASE Tick
    BY <1>3, TickKeeps
  <1>4. CASE UNCHANGED vars
    BY <1>4 DEF vars, IInv, BreakerOK, LimiterOK, TableOK, HistoryOK, Evidence,
       FewChargedPerTarget, AttemptsOK, NotOvercounted, Listed
  <1> QED BY <1>1, <1>2, <1>3, <1>4 DEF Next

\* The inductive invariant holds throughout.
THEOREM Invariant == Spec => []IInv
  BY InitOK, StepOK, PTL DEF Spec

-----------------------------------------------------------------------------
(* What follows from it *)

\* Every variable keeps its shape, whatever the thresholds and windows.
THEOREM TypeCorrect == Spec => []TypeOK
  <1>1. IInv => TypeOK
    BY DEF IInv, TypeOK, BreakerOK, State, LimiterOK, Limit, TableOK, Row, Listed, HistoryOK,
       AttemptsOK, Count
  <1> QED BY <1>1, Invariant, PTL

\* A proxy with nothing in flight is never held back by its limit, whatever
\* was cancelled, retried or reset before.
THEOREM IdleProxyAdmitted == Spec => []IdleAdmitted
  <1>1. IInv => IdleAdmitted
    <2> SUFFICES ASSUME IInv, NEW p \in Proxies, flying[p] = 0
                 PROVE  ~AtLimit(p)
      BY DEF IdleAdmitted
    <2>1. inFlight[p] \in Nat /\ inFlight[p] <= 0
      BY Constants DEF IInv, AttemptsOK, NotOvercounted, Count
    <2>2. limiter[p].limit \in Nat /\ limiter[p].limit > 0
      BY Constants DEF IInv, LimiterOK, Limit
    <2> QED BY <2>1, <2>2 DEF AtLimit
  <1> QED BY <1>1, Invariant, PTL

\* Within a window a target nobody reaches is held against fewer than
\* DeadProxies proxies, in whatever order failures and prunings come.
THEOREM DeadTargetCharged == Spec => []FewChargedPerTarget
  <1>1. IInv => FewChargedPerTarget
    BY DEF IInv
  <1> QED BY <1>1, Invariant, PTL

LEMMA LimitNotLowered ==
    ASSUME IInv, Next, NEW p \in Proxies, Open(p)
    PROVE  limiter'[p].limit >= Smaller(limiter[p].limit, LimitInitial)
  <1>0. limiter[p] \in Limit /\ DOMAIN limiter = Proxies
    BY DEF IInv, LimiterOK
  <1>1. limiter[p].limit \in LimitMin .. LimitMax /\ LimitInitial \in LimitMin .. LimitMax
    BY <1>0, Constants DEF Limit
  <1>2. \/ limiter'[p] = limiter[p] \/ limiter'[p] = Raised(limiter[p]) \/ limiter'[p] = NoLimit
    <2>1. CASE \E q \in Proxies : Traffic(q)
      <3>1. PICK q \in Proxies : Traffic(q)
        BY <2>1
      <3>2. CASE \/ RaceChooses(q) \/ PinChooses(q) \/ Looks(q)
                 \/ Launch(q) \/ Abandon(q) \/ Loses(q) \/ Retries(q)
        BY <3>2 DEF RaceChooses, PinChooses, Looks, Launch, Abandon, Loses, Retries
      <3>3. CASE ConnectFails(q) \/ Fails(q) \/ ProbeFails(q)
        <4>1. limiter' = limiter \/ Charge(q)
          BY <3>3 DEF ConnectFails, Fails, ProbeFails, RecordFailure
        <4>2. Clamped(p) = limiter[p]
          BY DEF Clamped
        <4> QED BY <1>0, <4>1, <4>2 DEF Charge
      <3>4. CASE Succeeds(q) \/ ProbeOk(q) \/ ProbeGet(q)
        BY <3>4, <1>0 DEF Succeeds, ProbeOk, ProbeGet, Observed, RecordTtfb
      <3> QED BY <3>1, <3>2, <3>3, <3>4 DEF Traffic
    <2>2. CASE ResetCircuits \/ ResetQuality \/ Tick
      BY <2>2 DEF ResetCircuits, ResetQuality, Tick
    <2> QED BY <2>1, <2>2 DEF Next
  <1>3. Raised(limiter[p]).limit >= limiter[p].limit
    BY <1>0, <1>1, Constants DEF Raised, Limit, Smaller
  <1>4. NoLimit.limit = LimitInitial
    BY DEF NoLimit
  <1>5. Raised(limiter[p]).limit \in Int
    BY <1>0, <1>1, Constants DEF Raised, Limit, Smaller
  <1>6. limiter'[p].limit \in Int /\ (limiter'[p].limit >= limiter[p].limit \/ limiter'[p].limit = LimitInitial)
    BY <1>1, <1>2, <1>3, <1>4, <1>5, Constants
  <1> HIDE DEF Raised
  <1> QED BY <1>1, <1>6, Constants DEF Smaller

\* Nothing that is reported during a backoff postpones its end or lowers the
\* limit that the proxy returns with.
THEOREM BackoffNeverRenewed == Spec => NeverRenewed
  <1> DEFINE A == \A p \in Proxies : Open(p) =>
         /\ circuit'[p].left <= circuit[p].left /\ circuit'[p].backoff <= circuit[p].backoff
         /\ limiter'[p].limit >= Smaller(limiter[p].limit, LimitInitial)
  <1>1. IInv /\ [Next]_vars => [A]_vars
    <2> SUFFICES ASSUME IInv, Next, NEW p \in Proxies, Open(p)
                 PROVE  /\ circuit'[p].left <= circuit[p].left
                        /\ circuit'[p].backoff <= circuit[p].backoff
                        /\ limiter'[p].limit >= Smaller(limiter[p].limit, LimitInitial)
      OBVIOUS
    <2>0. circuit[p] \in State /\ DOMAIN circuit = Proxies /\ InBackoff(circuit[p])
      BY DEF IInv, BreakerOK, Open
    <2>1. circuit[p].left \in Nat /\ circuit[p].backoff \in Nat
      BY <2>0, Constants DEF State
    <2>2. \/ circuit'[p] = circuit[p]
          \/ circuit'[p] = Looked(circuit[p])
          \/ circuit'[p] = Struck(circuit[p])
          \/ circuit'[p] = Praised(circuit[p])
          \/ circuit'[p] = Fresh
          \/ circuit'[p] = [circuit[p] EXCEPT !.left = Less(@), !.warm = Less(@)]
      <3>1. CASE \E q \in Proxies : Traffic(q)
        <4>1. PICK q \in Proxies : Traffic(q)
          BY <3>1
        <4>2. CASE RaceChooses(q) \/ PinChooses(q) \/ Looks(q)
          BY <4>2, <2>0 DEF RaceChooses, PinChooses, Looks
        <4>3. CASE Launch(q) \/ Abandon(q) \/ Loses(q) \/ Retries(q)
          BY <4>3 DEF Launch, Abandon, Loses, Retries, breaker
        <4>4. CASE ConnectFails(q) \/ Fails(q) \/ ProbeFails(q)
          <5>1. circuit' = circuit \/ Charge(q)
            BY <4>4 DEF ConnectFails, Fails, ProbeFails, RecordFailure
          <5> QED BY <5>1, <2>0 DEF Charge
        <4>5. CASE Succeeds(q) \/ ProbeOk(q) \/ ProbeGet(q)
          BY <4>5, <2>0 DEF Succeeds, ProbeOk, ProbeGet, Observed, RecordSuccess
        <4> QED BY <4>1, <4>2, <4>3, <4>4, <4>5 DEF Traffic
      <3>2. CASE ResetCircuits \/ ResetQuality
        BY <3>2 DEF ResetCircuits, ResetQuality
      <3>3. CASE Tick
        BY <3>3 DEF Tick
      <3> QED BY <3>1, <3>2, <3>3 DEF Next
    <2>3. limiter'[p].limit >= Smaller(limiter[p].limit, LimitInitial)
      BY LimitNotLowered
    <2>4. CASE circuit'[p] = circuit[p] \/ circuit'[p] = Looked(circuit[p])
      BY <2>0, <2>1, <2>3, <2>4, LookedOK
    <2>5. CASE circuit'[p] = Struck(circuit[p])
      BY <2>0, <2>1, <2>3, <2>5, StruckOK
    <2>6. CASE circuit'[p] = Praised(circuit[p])
      <3>1. Praised(circuit[p]).left = circuit[p].left
              /\ Praised(circuit[p]).backoff <= circuit[p].backoff
        BY <2>0, PraisedOK
      <3> QED BY <2>1, <2>3, <2>6, <3>1
    <2>7. CASE circuit'[p] = Fresh
      BY <2>1, <2>3, <2>7 DEF Fresh
    <2>8. CASE circuit'[p] = [circuit[p] EXCEPT !.left = Less(@), !.warm = Less(@)]
      <3>1. circuit'[p].left = Less(circuit[p].left) /\ circuit'[p].backoff = circuit[p].backoff
        BY <2>0, <2>8 DEF State
      <3> QED BY <2>1, <2>3, <3>1 DEF Less
    <2> QED BY <2>2, <2>4, <2>5, <2>6, <2>7, <2>8
  <1>2. Spec => [][A]_vars
    BY <1>1, Invariant, PTL DEF Spec
  <1> QED BY <1>2 DEF NeverRenewed
=============================================================================
