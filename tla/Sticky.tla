------------------------------- MODULE Sticky -------------------------------
(***************************************************************************)
(* Session stickiness (auto_squid/sticky.py), the background probes of     *)
(* pinned sessions (auto_squid/router.py) and the table of proxies         *)
(* (auto_squid/proxy_store.py) with POST /proxies (auto_squid/api.py).     *)
(*                                                                         *)
(* A key is a client and a domain.  Its pin names the proxy that won last; *)
(* a request sends through it alone and renews the pin when that went      *)
(* well, drops it when it did not.  Meanwhile other requests of the key,   *)
(* a probe of the competing proxies and the periodic sweep change the same *)
(* entry, and the operator disables or replaces proxies.                   *)
(*                                                                         *)
(* Between two awaits a coroutine runs alone: each action is everything    *)
(* from the end of one await to the next.  Ages are in ticks and stop      *)
(* growing where nothing tells them apart any more.  Latency comparisons   *)
(* (degraded, slower than another, worse than the best), open circuits and *)
(* policies are chosen when they are asked for.                            *)
(***************************************************************************)
EXTENDS Naturals, FiniteSets

CONSTANTS
    Keys,           \* client and domain
    Proxies,        \* ids in the proxy table
    Local,          \* 'local': the machine connects itself
    None,
    Sends,          \* requests under way
    Probes,         \* background probes under way
    LocalRacing,    \* enable_local_racing
    MaxEntries,     \* stickiness_max_entries
    Ttl,            \* stickiness_ttl
    RecheckHits     \* stickiness_recheck_hits

ASSUME StickyAssumption ==
    /\ Local \notin Proxies /\ None \notin Proxies \cup {Local}
    /\ {MaxEntries, Ttl, RecheckHits} \subseteq Nat \ {0}
    /\ LocalRacing \in BOOLEAN
    /\ IsFiniteSet(Sends)

Pids == Proxies \cup {Local}

VARIABLES
    cache,   \* _sticky_cache: pins[k], for the keys that have one, is the proxy,
             \* the age and the hits; before, its order: <<j, k>> when the pin
             \* of j is nearer the front than that of k
    req,     \* req[s]: a request: its key, how it sends and through whom
    probe,   \* probe[b]: the key that a probe task is about, or None
    named,   \* disabled proxies that the domain cache still names: it does not
             \* ask, and an upgrade renews what it follows
    store    \* node[p]: is p in the proxy table and enabled; file[p]: is it in
             \* proxies.yaml, which the next start reads

vars == <<cache, req, probe, named, store>>

NoPins == [pins |-> <<>>, before |-> {}]
NoSend == [pc |-> "free", key |-> None, pid |-> None]

Init ==
    /\ cache = NoPins
    /\ req = [s \in Sends |-> NoSend]
    /\ probe = [b \in Probes |-> None]
    /\ named = {}
    /\ store = LET loaded == [p \in Proxies |-> TRUE] IN [node |-> loaded, file |-> loaded]

-----------------------------------------------------------------------------
(* The table of pins.  Each operator gives c as the method leaves it.       *)

Least(m, n) == IF m <= n THEN m ELSE n

Machine == IF LocalRacing THEN {Local} ELSE {}
On(p) == p \in {q \in Proxies : store.node[q]} \cup Machine

Pinned(c) == DOMAIN c.pins
Has(c, k) == k \in Pinned(c)

Only(c, W) == [pins |-> [k \in W |-> c.pins[k]], before |-> c.before \cap (W \X W)]
Evict(c, k) == Only(c, Pinned(c) \ {k})
EvictOldest(c) == Only(c, {k \in Pinned(c) : \E j \in Pinned(c) : <<j, k>> \in c.before})

\* Assigned and moved to the end.
Put(c, k, e) ==
    LET rest == Pinned(c) \ {k}
    IN  [pins |-> [j \in rest \cup {k} |-> IF j = k THEN e ELSE c.pins[j]],
         before |-> (c.before \cap (rest \X rest)) \cup (rest \X {k})]

\* A pin of the machine itself stays until it is asked for or pushed out.
Stays(e) == On(e.pid) /\ (e.pid = Local \/ e.age < Ttl)
Swept(c) == Only(c, {k \in Pinned(c) : Stays(c.pins[k])})

Full(c) == Cardinality(Pinned(c)) >= MaxEntries
RoomySwept(c, k) ==                                     \* mutant: the sweep is enough
    IF Has(c, k) \/ ~Full(c) THEN {c} ELSE {c, Swept(c)}
\* _record_sticky at a full table: a sweep, unless one was just made (a free
\* choice here), and then the oldest is pushed out.
Roomy(c, k) ==
    IF Has(c, k) \/ ~Full(c) THEN {c}
    ELSE {IF Full(d) THEN EvictOldest(d) ELSE d : d \in {c, Swept(c)}}

Record(c, k, p) ==
    {Put(d, k, [pid |-> p, age |-> 0, hits |-> 0]) : d \in Roomy(c, k)}

Renewed(e, p) ==
    [e EXCEPT !.pid = p, !.age = 0, !.hits = Least(@ + 1, RecheckHits + Cardinality(Sends))]
BumpInPlace(c, k, p) ==                                 \* mutant: not moved to the end
    IF ~Has(c, k) THEN Record(c, k, p)
    ELSE {[c EXCEPT !.pins[k] = Renewed(@, p)]}
\* The baseline of its latency (left out here) stays that of the proxy recorded.
Bump(c, k, p) ==
    IF ~Has(c, k) THEN Record(c, k, p)
    ELSE {Put(c, k, Renewed(c.pins[k], p))}

LapsedByAge(e) == e.age >= Ttl                          \* mutant: enabled is not asked
\* _get_sticky_proxy: a pin it may not use is dropped here ...
Lapsed(e) == ~On(e.pid) \/ e.age >= Ttl
MayUseAlways(e) == ~Lapsed(e)                           \* mutant: never looked at again
\* ... or, when it is due for another look, left to the caller to drop.
MayUse(e) == ~Lapsed(e) /\ e.hits < RecheckHits
\* The latencies decide whether it is slow; the machine itself is not compared.
MayBeSlow(e) == MayUse(e) /\ e.pid # Local

-----------------------------------------------------------------------------
(* Requests.                                                                *)

Racing(k, p) == [pc |-> "race", key |-> k, pid |-> p]
\* The machine itself is the last resort, even without local racing.
Others == {p \in Pids : On(p) \/ p \in named \cup {Local}}

\* A pinned proxy is used; for want of one the cached proxy of the domain is,
\* or a race is held, won if at all by one of those it started with.
Ask(s) ==
    /\ req[s] = NoSend
    /\ \E k \in Keys :
          \/ /\ Has(cache, k) /\ MayUse(cache.pins[k])
             /\ req' = [req EXCEPT ![s] = [pc |-> "pinned", key |-> k,
                                           pid |-> cache.pins[k].pid]]
             /\ UNCHANGED cache
          \/ \* no pin, or one dropped because it lapsed, its circuit is open,
             \* the policy forbids it or it is to be looked at again
             /\ \E p \in Others : req' = [req EXCEPT ![s] = Racing(k, p)]
             /\ cache' = Evict(cache, k)
          \/ \* slower than others, or degraded: left where it is
             /\ Has(cache, k) /\ MayBeSlow(cache.pins[k])
             /\ \E p \in Others : req' = [req EXCEPT ![s] = Racing(k, p)]
             /\ UNCHANGED cache
    /\ UNCHANGED <<probe, named, store>>

\* A probe is spawned when the last one is long enough ago and the domain has
\* been measured: free choices here, as is whether it finds anybody to compare.
Spawn(k, p) ==
    \/ UNCHANGED probe
    \/ /\ p # Local
       /\ \E b \in Probes : probe[b] = None /\ probe' = [probe EXCEPT ![b] = k]

SendOk(s) ==
    LET k == req[s].key
        p == req[s].pid
    IN  /\ req[s].pc = "pinned"
        /\ \/ cache' \in Bump(cache, k, p)
           \/ ~Has(cache, k) /\ UNCHANGED cache    \* worse than the best
        /\ Spawn(k, p)
        /\ req' = [req EXCEPT ![s] = NoSend]
        /\ UNCHANGED <<named, store>>

\* The pin that is there now goes, whosever it is; the request goes on.
SendFails(s) ==
    LET k == req[s].key
    IN  /\ req[s].pc = "pinned"
        /\ cache' = Evict(cache, k)
        /\ \E p \in Others : req' = [req EXCEPT ![s] = Racing(k, p)]
        /\ UNCHANGED <<probe, named, store>>

RaceWon(s) ==
    LET k == req[s].key
    IN  /\ req[s].pc = "race"
        /\ \/ /\ cache' \in Record(cache, k, req[s].pid)
              /\ named' \in {named, named \cup {p \in Proxies : p = req[s].pid /\ ~On(p)}}
           \/ UNCHANGED <<cache, named>>               \* worse than the best
        /\ req' = [req EXCEPT ![s] = NoSend]
        /\ UNCHANGED <<probe, store>>

RaceLost(s) ==
    /\ req[s].pc = "race"
    /\ \/ req' = [req EXCEPT ![s] = NoSend]
       \/ \E p \in Others : req' = [req EXCEPT ![s].pid = p]   \* the cached proxy: now a race
    /\ UNCHANGED <<cache, probe, named, store>>

\* The entry of a domain grows too old or is given to another proxy.
Unnamed(p) ==
    /\ p \in named
    /\ named' = named \ {p}
    /\ UNCHANGED <<cache, req, probe, store>>

-----------------------------------------------------------------------------
(* Background probes and the sweep.                                         *)

\* Much faster than the pinned one, as far as the probe knows: the key loses
\* the pin it has by now.
ProbeEvicts(b) ==
    /\ probe[b] # None
    /\ cache' = Evict(cache, probe[b])
    /\ probe' = [probe EXCEPT ![b] = None]
    /\ UNCHANGED <<req, named, store>>

ProbeEnds(b) ==
    /\ probe[b] # None
    /\ probe' = [probe EXCEPT ![b] = None]
    /\ UNCHANGED <<cache, req, named, store>>

\* _prune_sticky of the flush loop.
Sweep ==
    /\ cache' = Swept(cache)
    /\ UNCHANGED <<req, probe, named, store>>

-----------------------------------------------------------------------------
(* The proxy table.                                                         *)

Edited(p, on) == [store EXCEPT !.node[p] = on]
Saved(st) == [st EXCEPT !.file = st.node]

\* POST /proxies adds or replaces; the domain cache may name the proxy.
Posted(p, on, st) ==
    /\ store' = st
    /\ named' \in IF on THEN {named \ {p}} ELSE {named, named \cup {p}}
    /\ UNCHANGED <<cache, req, probe>>

\* When the file cannot be written, the proxy serves all the same.
AddUnsaved(p, on) == Posted(p, on, Edited(p, on))
AddProxy(p, on) == Posted(p, on, Saved(Edited(p, on)))

\* The domain cache is loaded from the database, whoever it names.
Loaded(file) == {p \in Proxies : ~file[p]}

\* Stopped or killed, and started again: pins are not persisted.
Restart ==
    /\ cache' = NoPins
    /\ req' = [s \in Sends |-> NoSend]
    /\ probe' = [b \in Probes |-> None]
    /\ named' \in SUBSET Loaded(store.file)
    /\ store' = [store EXCEPT !.node = store.file]

-----------------------------------------------------------------------------
Aged(c) ==
    [pins |-> [k \in Pinned(c) |-> [c.pins[k] EXCEPT !.age = Least(@ + 1, Ttl)]],
     before |-> c.before]
Tick ==
    /\ cache' = Aged(cache)
    /\ UNCHANGED <<req, probe, named, store>>

Next ==
    \/ Tick \/ Sweep
    \/ \E s \in Sends : Ask(s) \/ SendOk(s) \/ SendFails(s) \/ RaceWon(s) \/ RaceLost(s)
    \/ \E b \in Probes : ProbeEvicts(b) \/ ProbeEnds(b)
    \/ \E p \in Proxies : Unnamed(p)
    \/ \E p \in Proxies, on \in BOOLEAN : AddProxy(p, on) \/ AddUnsaved(p, on)
    \/ Restart

Spec == Init /\ [][Next]_vars

\* The sweep is periodic, and sends and races end by their time-outs.
Fairness ==
    /\ WF_vars(Sweep)
    /\ \A s \in Sends : WF_vars(SendOk(s) \/ SendFails(s) \/ RaceWon(s) \/ RaceLost(s))

FairSpec == Spec /\ Fairness

-----------------------------------------------------------------------------
(* What must hold.                                                          *)

Maybe(S) == S \cup {None}
Pins == [pid : Pids, age : 0 .. Ttl, hits : 0 .. RecheckHits + Cardinality(Sends)]
Tables(W) == [pins : [W -> Pins], before : SUBSET (W \X W)]
SessionsOK ==
    /\ Pinned(cache) \subseteq Keys /\ cache \in Tables(Pinned(cache))
    /\ req \in [Sends -> [pc : {"free", "pinned", "race"}, key : Maybe(Keys), pid : Maybe(Pids)]]
    /\ probe \in [Probes -> Maybe(Keys)]
    /\ named \subseteq Proxies
StoreOK == store \in [node : [Proxies -> BOOLEAN], file : [Proxies -> BOOLEAN]]
TypeOK == SessionsOK /\ StoreOK

\* The table of pins never outgrows its limit, although the sweep that makes
\* room is throttled and pins are also recorded by sends whose own pin was
\* dropped meanwhile (_record_sticky, _bump_sticky).
WithinLimit == Cardinality(Pinned(cache)) <= MaxEntries

\* The first pin is always one used least recently: every way to renew a pin
\* moves it to the end, so that the one pushed out at the limit is the right
\* one and no session in use loses its exit (_evict_oldest_sticky).
OldestFirst ==
    \A j, k \in Pinned(cache) :
       j # k => \/ <<j, k>> \in cache.before /\ cache.pins[j].age >= cache.pins[k].age
                \/ <<k, j>> \in cache.before /\ cache.pins[k].age >= cache.pins[j].age

\* Both, which is what _record_sticky and _bump_sticky keep between them.
TableInOrder == WithinLimit /\ OldestFirst

\* A pin that keeps being hit is looked at again: beyond the threshold only
\* the sends already under way add hits (_sticky_recheck_due).
LookedAtAgain ==
    \A k \in Pinned(cache) : cache.pins[k].hits < RecheckHits + Cardinality(Sends)

\* A proxy that stays disabled, once the domain cache no longer names it, ends
\* without pins, although sends that began before may still write it back
\* after a sweep has removed it.
DisabledFades ==
    \A p \in Proxies :
        <>[](~On(p) /\ p \notin named) => <>[](\A k \in Pinned(cache) : cache.pins[k].pid # p)
=============================================================================
