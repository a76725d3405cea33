------------------------------ MODULE Circuit ------------------------------
(***************************************************************************)
(* The circuit breaker of ProxySelector (selector.py) with the three       *)
(* mechanisms that share its handlers: slow start after a backoff, the     *)
(* attribution of failures to a dead target, and the adaptive concurrency  *)
(* limit with the in-flight counters it is compared with.                  *)
(*                                                                         *)
(* An attempt is chosen for a proxy (ordered_for_domain, or a sticky or    *)
(* domain-cache pin), launched later (a staggered race launches its        *)
(* candidates one by one), and ends in success, failure or cancellation.   *)
(* Probes report to the same handlers whether the circuit is open or not.  *)
(* The domain of an attempt matters only when it ends, so it is chosen     *)
(* there.                                                                  *)
(*                                                                         *)
(* Absolute times are kept as the time that is left: an instant in the     *)
(* past is 0, whatever the clock reads.                                    *)
(***************************************************************************)
EXTENDS Integers, FiniteSets

CONSTANTS
    Proxies,          \* enabled proxies of the store
    Domains,          \* targets
    NoDomain,         \* in place of a target: a probe has none
    Threshold,        \* circuit_threshold
    Base,             \* _CIRCUIT_BACKOFF_BASE
    MaxBackoff,       \* circuit_max_backoff
    SlowWindow,       \* slow_start_window
    SlowSuccess,      \* slow_start_success
    DeadWindow,       \* _TARGET_DEAD_WINDOW
    DeadProxies,      \* _TARGET_DEAD_MIN_PROXIES
    MaxDomains,       \* _TARGET_FAIL_MAX_DOMAINS
    Limiting,         \* concurrency_enabled
    LimitMin,         \* _conc_min
    LimitInitial,     \* _conc_initial
    LimitMax,         \* _conc_max
    LimitAdd,         \* _conc_add
    LimitWindow,      \* _conc_win
    MaxAttempts       \* bound: attempts of one proxy, chosen or flying

ASSUME CircuitAssumption ==
    /\ IsFiniteSet(Proxies) /\ IsFiniteSet(Domains) /\ NoDomain \notin Domains
    /\ {Threshold, Base, SlowWindow, SlowSuccess, DeadWindow, DeadProxies, MaxDomains}
         \subseteq Nat \ {0}
    /\ MaxBackoff \in Nat /\ MaxBackoff >= Base
    /\ Limiting \in BOOLEAN
    /\ {LimitMin, LimitInitial, LimitMax, LimitAdd, LimitWindow} \subseteq Nat \ {0}
    /\ LimitMin <= LimitInitial /\ LimitInitial <= LimitMax
    /\ MaxAttempts \in Nat

Reasons == {"transport", "http_status"}

VARIABLES
    circuit,      \* _circuit: failures in a row, backoff, open_until, slow start
    failed,       \* _domain_fail: for each listed target, time left to each proxy's failure
    reached,      \* _domain_quality ts: time left to the last success on a target
    limiter,      \* _conc: the limit and the successes counted towards the next one
    inFlight,     \* _in_flight
    chosen,       \* attempts of a proxy that are chosen and not yet launched
    flying,       \* attempts of a proxy between _inflight_start and _inflight_finish
    charged       \* history: time since a failure on an unreached target was held
                  \* against a proxy, as the window left

breaker == <<circuit, failed, reached, charged>>
attempts == <<inFlight, chosen, flying>>
vars == <<circuit, failed, reached, limiter, inFlight, chosen, flying, charged>>

Less(n) == IF n = 0 THEN 0 ELSE n - 1
Smaller(a, b) == IF a < b THEN a ELSE b
Larger(a, b) == IF a > b THEN a ELSE b

\* "opened" is open_until # 0.0: it stays set after "left" ran out, until
\* is_circuit_open looks.
Fresh == [fails |-> 0, backoff |-> 0, opened |-> FALSE, left |-> 0, warm |-> 0, wins |-> 0]
NoLimit == [limit |-> LimitInitial, ok |-> 0]

Init ==
    /\ circuit = [p \in Proxies |-> Fresh]
    /\ failed = [d \in {} |-> [p \in Proxies |-> 0]]
    /\ reached = [d \in Domains |-> 0]
    /\ limiter = [p \in Proxies |-> NoLimit]
    /\ inFlight = [p \in Proxies |-> 0]
    /\ chosen = [p \in Proxies |-> 0]
    /\ flying = [p \in Proxies |-> 0]
    /\ charged = [d \in Domains |-> [p \in Proxies |-> 0]]

-----------------------------------------------------------------------------
(* Queries *)

InBackoff(s) == s.left > 0
Open(p) == InBackoff(circuit[p])
SlowStart(s) == s.warm > 0 /\ s.wins < SlowSuccess
AtLimit(p) == Limiting /\ inFlight[p] >= limiter[p].limit

\* is_circuit_open: the first look after the backoff ends clears open_until
\* and starts the slow start.
Rearm(s) == [s EXCEPT !.opened = FALSE, !.warm = SlowWindow, !.wins = 0, !.fails = 0]
Looked(s) == IF s.opened /\ ~InBackoff(s) THEN Rearm(s) ELSE s

-----------------------------------------------------------------------------
(* Attribution: is a failure on d the target's fault? *)

Listed == DOMAIN failed

\* This failure joins the ones not yet out of the window.
Noted(d, p) ==
    LET known == IF d \in Listed THEN failed[d] ELSE [q \in Proxies |-> 0]
    IN  [known EXCEPT ![p] = DeadWindow + 1]
Suspects(d, p) == {q \in Proxies : Noted(d, p)[q] > 0}
NobodyReached(d) == reached[d] = 0
TargetLevelLate(d, p) ==                                      \* mutant: one proxy too many
    /\ Cardinality(Suspects(d, p)) > DeadProxies
    /\ NobodyReached(d)
TargetLevel(d, p) ==
    /\ Cardinality(Suspects(d, p)) >= DeadProxies
    /\ NobodyReached(d)

\* _prune_domain_fail: drop the lapsed targets, then the least recent ones.
Recent(table, d) == CHOOSE n \in 0 .. DeadWindow + 1 :
    (\E q \in Proxies : table[d][q] = n) /\ (\A q \in Proxies : table[d][q] <= n)
Prunings(table) ==
    LET alive == {d \in DOMAIN table : Recent(table, d) > 1}
        fits(keep) ==
            /\ Cardinality(keep) = Smaller(Cardinality(alive), MaxDomains)
            /\ \A d \in keep, e \in alive \ keep : Recent(table, d) >= Recent(table, e)
    IN  {[d \in keep |-> table[d]] : keep \in {k \in SUBSET alive : fits(k)}}

Recorded(d, p) == [e \in Listed \cup {d} |-> IF e = d THEN Noted(d, p) ELSE failed[e]]
Tables(d, p) ==
    IF TargetLevel(d, p) /\ Cardinality(DOMAIN Recorded(d, p)) > MaxDomains
      THEN Prunings(Recorded(d, p)) ELSE {Recorded(d, p)}

-----------------------------------------------------------------------------
(* The two observations *)

NextBackoff(s) == Smaller(MaxBackoff, 2 * (IF s.backoff = 0 THEN Base ELSE s.backoff))
StruckAlways(s) ==                                             \* mutant: renewed in backoff
    IF s.fails + 1 >= Threshold
      THEN [s EXCEPT !.fails = 0, !.backoff = NextBackoff(s), !.opened = TRUE, !.left = NextBackoff(s)]
      ELSE [s EXCEPT !.fails = @ + 1]
Struck(s) ==
    IF InBackoff(s) THEN [s EXCEPT !.fails = 0]
    ELSE IF s.fails + 1 >= Threshold
      THEN [s EXCEPT !.fails = 0, !.backoff = NextBackoff(s), !.opened = TRUE, !.left = NextBackoff(s)]
      ELSE [s EXCEPT !.fails = @ + 1]

Lowered(l) == [limit |-> Larger(LimitMin, l.limit \div 2), ok |-> 0]
ClampedAlways(p) ==                                            \* mutant: lowered in backoff
    IF Limiting THEN Lowered(limiter[p]) ELSE limiter[p]
Clamped(p) == IF Limiting /\ ~Open(p) THEN Lowered(limiter[p]) ELSE limiter[p]

\* The history lasts as long as the evidence does.
Remembered(listed) ==
    [d \in Domains |-> IF d \in listed THEN charged[d] ELSE [p \in Proxies |-> 0]]

\* record_failure for a failure that is the proxy's
Charge(p) ==
    /\ circuit' = [circuit EXCEPT ![p] = Struck(@)]
    /\ limiter' = [limiter EXCEPT ![p] = Clamped(p)]

RecordFailure(p, d, reason) ==
    /\ UNCHANGED reached
    /\ IF reason = "http_status"
         THEN UNCHANGED <<circuit, limiter, failed, charged>>
         ELSE IF d = NoDomain
           THEN Charge(p) /\ UNCHANGED <<failed, charged>>
           ELSE /\ failed' \in Tables(d, p)
                /\ IF TargetLevel(d, p)
                     THEN UNCHANGED <<circuit, limiter>> /\ charged' = Remembered(DOMAIN failed')
                     ELSE /\ Charge(p)
                          /\ charged' = IF NobodyReached(d)
                               THEN [charged EXCEPT ![d][p] = DeadWindow] ELSE charged

\* record_success
Praised(s) ==
    LET wins == s.wins + 1
        done == wins >= SlowSuccess /\ s.backoff > Base
    IN  IF SlowStart(s)
          THEN [s EXCEPT !.fails = 0, !.wins = wins,
                         !.backoff = IF done THEN Larger(Base, @ \div 2) ELSE @]
          ELSE [s EXCEPT !.fails = 0]

\* _conc_observe_success
Raised(l) ==
    IF l.ok + 1 >= LimitWindow /\ l.limit < LimitMax
      THEN [limit |-> Smaller(LimitMax, l.limit + LimitAdd), ok |-> 0]
      ELSE [l EXCEPT !.ok = Smaller(LimitWindow, @ + 1)]

RecordTtfb(p, d) ==
    /\ limiter' = [limiter EXCEPT ![p] = IF Limiting THEN Raised(@) ELSE @]
    /\ reached' = IF d = NoDomain THEN reached ELSE [reached EXCEPT ![d] = DeadWindow]
    /\ UNCHANGED <<failed, charged>>
RecordSuccess(p) == circuit' = [circuit EXCEPT ![p] = Praised(@)]
Observed(p, d) == RecordTtfb(p, d) /\ RecordSuccess(p)

-----------------------------------------------------------------------------
(* Attempts *)

Room(p) == chosen[p] + flying[p] < MaxAttempts
Choose(p) == Room(p) /\ chosen' = [chosen EXCEPT ![p] = @ + 1]

\* ordered_for_domain looks at every circuit; the race takes any candidates.
RaceChooses(p) ==
    /\ circuit' = [q \in Proxies |-> Looked(circuit[q])]
    /\ ~Open(p) /\ ~AtLimit(p)
    /\ Choose(p)
    /\ UNCHANGED <<failed, reached, limiter, inFlight, flying, charged>>

\* A pinned proxy (sticky table, domain cache): one look, no limit.
PinChooses(p) ==
    /\ circuit' = [circuit EXCEPT ![p] = Looked(@)]
    /\ ~Open(p)
    /\ Choose(p)
    /\ UNCHANGED <<failed, reached, limiter, inFlight, flying, charged>>

\* Other callers only ask (best_domain_ewma, the cluster's prewarm hook).
Looks(p) ==
    /\ circuit' = [circuit EXCEPT ![p] = Looked(@)]
    /\ UNCHANGED <<failed, reached, limiter, attempts, charged>>

InflightStart(p) == inFlight' = [inFlight EXCEPT ![p] = @ + 1]
InflightForgotten(p) ==                                \* mutant: the last one never finishes
    inFlight' = [inFlight EXCEPT ![p] = IF @ = 1 THEN 1 ELSE Less(@)]
InflightFinish(p) == inFlight' = [inFlight EXCEPT ![p] = Less(@)]

Launch(p) ==
    /\ chosen[p] > 0
    /\ chosen' = [chosen EXCEPT ![p] = @ - 1]
    /\ flying' = [flying EXCEPT ![p] = @ + 1]
    /\ InflightStart(p)
    /\ UNCHANGED <<breaker, limiter>>

Drop(p) == chosen[p] > 0 /\ chosen' = [chosen EXCEPT ![p] = @ - 1] /\ UNCHANGED <<inFlight, flying>>

\* The race is over before this candidate is launched, or it is cancelled
\* while it still connects.
Abandon(p) == Drop(p) /\ UNCHANGED <<breaker, limiter>>

\* _try_tunnel: connecting to the upstream fails, before _inflight_start.
ConnectFails(p) == Drop(p) /\ \E d \in Domains : RecordFailure(p, d, "transport")

Land(p) ==
    /\ flying[p] > 0
    /\ flying' = [flying EXCEPT ![p] = @ - 1]
    /\ InflightFinish(p)
    /\ UNCHANGED chosen

Succeeds(p) == Land(p) /\ \E d \in Domains : Observed(p, d)
Fails(p) == Land(p) /\ \E d \in Domains, reason \in Reasons : RecordFailure(p, d, reason)
Loses(p) == Land(p) /\ UNCHANGED <<breaker, limiter>>

\* A pooled connection turns out stale at the handshake: tried once more with
\* a fresh one, and nobody's failure.
Retries(p) ==
    /\ flying[p] > 0
    /\ flying' = [flying EXCEPT ![p] = @ - 1]
    /\ chosen' = [chosen EXCEPT ![p] = @ + 1]
    /\ InflightFinish(p)
    /\ UNCHANGED <<breaker, limiter>>

\* _probe_proxy, which also probes proxies in backoff
ProbeOk(p) == Observed(p, NoDomain) /\ UNCHANGED attempts
ProbeGet(p) == (\E d \in Domains : RecordTtfb(p, d)) /\ UNCHANGED <<circuit, attempts>>
ProbeFails(p) == RecordFailure(p, NoDomain, "transport") /\ UNCHANGED attempts

-----------------------------------------------------------------------------
(* The operator, and time *)

ResetCircuits ==
    /\ circuit' = [p \in Proxies |-> Fresh]
    /\ UNCHANGED <<failed, reached, limiter, attempts, charged>>

ResetQuality ==
    /\ circuit' = [p \in Proxies |-> Fresh]
    /\ failed' = [d \in {} |-> [p \in Proxies |-> 0]]
    /\ reached' = [d \in Domains |-> 0]
    /\ limiter' = [p \in Proxies |-> NoLimit]
    /\ inFlight' = [p \in Proxies |-> 0]
    /\ charged' = [d \in Domains |-> [p \in Proxies |-> 0]]
    /\ UNCHANGED <<chosen, flying>>

Tick ==
    /\ circuit' = [p \in Proxies |->
         [circuit[p] EXCEPT !.left = Less(@), !.warm = Less(@)]]
    /\ failed' = [d \in Listed |-> [p \in Proxies |-> Less(failed[d][p])]]
    /\ reached' = [d \in Domains |-> Less(reached[d])]
    /\ charged' = [d \in Domains |-> [p \in Proxies |-> Less(charged[d][p])]]
    /\ UNCHANGED <<limiter, attempts>>

Traffic(p) ==
    \/ RaceChooses(p) \/ PinChooses(p) \/ Launch(p) \/ Abandon(p)
    \/ ConnectFails(p) \/ Succeeds(p) \/ Fails(p) \/ Loses(p) \/ Retries(p)
    \/ Looks(p) \/ ProbeOk(p) \/ ProbeGet(p) \/ ProbeFails(p)

Next == (\E p \in Proxies : Traffic(p)) \/ ResetCircuits \/ ResetQuality \/ Tick

Spec == Init /\ [][Next]_vars
FairSpec == Spec /\ WF_vars(Tick)

-----------------------------------------------------------------------------
(* Properties *)

\* Every variable keeps its shape; the counters stay in their ranges.
TypeOK ==
    /\ circuit \in [Proxies -> [fails : 0 .. Threshold - 1, backoff : 0 .. MaxBackoff,
                                opened : BOOLEAN, left : 0 .. MaxBackoff,
                                warm : 0 .. SlowWindow, wins : 0 .. SlowSuccess]]
    /\ Listed \subseteq Domains
    /\ \A d \in Listed : failed[d] \in [Proxies -> 0 .. DeadWindow + 1]
    /\ reached \in [Domains -> 0 .. DeadWindow]
    /\ limiter \in [Proxies -> [limit : LimitMin .. LimitMax, ok : 0 .. LimitWindow]]
    /\ {inFlight, chosen, flying} \subseteq [Proxies -> 0 .. MaxAttempts]
    /\ charged \in [Domains -> [Proxies -> 0 .. DeadWindow]]

\* Failures reported while a proxy is in backoff (probes, attempts that were
\* under way) never push its return back (record_failure, "no renewal") nor
\* lower the limit it returns with; a reset may set the limit to its start.
NeverRenewed ==
    [][\A p \in Proxies : Open(p) =>
         /\ circuit'[p].left <= circuit[p].left /\ circuit'[p].backoff <= circuit[p].backoff
         /\ limiter'[p].limit >= Smaller(limiter[p].limit, LimitInitial)]_vars

\* A proxy in backoff comes back, however many failures go on being reported.
ComesBack == \A p \in Proxies : Open(p) ~> ~Open(p)

\* A proxy with nothing under way can always be chosen again: neither a leaked
\* in-flight count nor a limit driven down shuts it out for good.
IdleAdmitted == \A p \in Proxies : flying[p] = 0 => ~AtLimit(p)

\* The counter never exceeds the attempts that are really in flight.
NotOvercounted == \A p \in Proxies : inFlight[p] <= flying[p]

\* A target nobody reaches is held against fewer than DeadProxies proxies
\* within one window (_is_target_level_failure).
FewChargedPerTarget ==
    \A d \in Domains : Cardinality({p \in Proxies : charged[d][p] > 0}) < DeadProxies

=============================================================================
