------------------------------ MODULE Dispatch ------------------------------
(***************************************************************************)
(* How a request finds its upstream (auto_squid/router.py).                *)
(*                                                                         *)
(* A handler asks, in this order: is the target judged unreachable? is the *)
(* client pinned to a proxy for this domain? which proxy won the last race *)
(* of the domain? and, when these fail, races the candidates, first        *)
(* MaxRetries of them and then those left.  A WebSocket upgrade tries the  *)
(* same candidates one after the other.  Whatever was learnt is written to *)
(* tables that all handlers share: pins, domain cache, marks of degraded   *)
(* pairs, damping counts and verdicts.                                     *)
(*                                                                         *)
(* A handler runs alone between two awaits, so each action below is        *)
(* everything from the end of one await to the next one.  Latencies are    *)
(* not modelled: whether a proxy is slow, worse than the best one, has its *)
(* circuit open or is due for another look is chosen when it is asked.     *)
(* Times are kept as what is left of a deadline or as an age, in ticks.    *)
(* Races in detail are in module Race, circuits in module Circuit, the     *)
(* table of pins in module Sticky.                                         *)
(***************************************************************************)
EXTENDS Naturals, Sequences, FiniteSets, SequencesExt

CONSTANTS
    Proxies,        \* enabled upstream proxies
    Local,          \* 'local': the machine connects to the target itself
    Domains,        \* domain keys of requests
    Allowed,        \* the proxies that policy lists
    Loaded,         \* the proxies the domain cache may name at start
    Clients,
    Requests,       \* handlers
    Protos,         \* kinds of request: "http", "tunnel", "ws"
    None,
    Configs,        \* configurations to start with: records
                    \*   direct      domains of local_direct_domains
                    \*   restricted  domains some policy matches
                    \*   stagger     stagger_start: one race over all candidates
                    \*   local       enable_local_racing
    MaxRetries,     \* max_retries: candidates of a simultaneous batch
    MinWins,        \* switch_damping_min_wins; 1 is damping disabled
    MinFails,       \* _DEAD_TARGET_MIN_FAILS
    ProveWindow,    \* _DEAD_TARGET_PROVE_WINDOW
    DeadTtl,        \* dead_target_ttl_sec
    MarkTtl         \* _IMMEDIATE_DEGRADE_TTL

ASSUME DispatchAssumption ==
    /\ Local \notin Proxies /\ None \notin Proxies \cup {Local}
    /\ Configs \subseteq [direct : SUBSET Domains, restricted : SUBSET Domains,
                           stagger : BOOLEAN, local : BOOLEAN]
    /\ IsFiniteSet(Proxies) /\ Allowed \subseteq Proxies /\ Loaded \subseteq Proxies \cup {Local}
    /\ Protos \subseteq {"http", "tunnel", "ws"}
    /\ {MaxRetries, MinWins, MinFails, ProveWindow, DeadTtl, MarkTtl} \subseteq Nat \ {0}
    /\ DeadTtl <= ProveWindow

Pids == Proxies \cup {Local}

VARIABLES
    conf,  \* the configuration, read at start
    tab,   \* the shared tables, a record:
           \*   pin[c][d]   the proxy client c is pinned to for domain d
           \*   meta[d]     the domain cache: proxy of the last win recorded
           \*   mark[p][d]  what is left of the mark "not alone for this domain"
           \*   wins[d]     the candidate of a switch and its wins so far
           \*   dead[d]     evidence and verdict that nobody reaches the target
           \*   ok[d]       age of the last success observed, ProveWindow at most
    req,   \* req[r]: where handler r is
    held,  \* the upstream streams that are open: <<handler, kind>>
    seen   \* seen[d]: what an observer noted of wins and failures (history)

vars == <<conf, tab, req, held, seen>>

Idle == [pc |-> "idle", proto |-> None, client |-> None, domain |-> None,
         via |-> None, pid |-> None, cands |-> {}, queue |-> <<>>,
         failed |-> {}, answers |-> 0, gone |-> FALSE]

NoWins == [pid |-> None, n |-> 0]
NoEntry == [fails |-> 0, prove |-> 0, judged |-> FALSE, left |-> 0]
NothingSeen == [by |-> None, row |-> 0,
                fails |-> 0, run |-> 0, gap |-> ProveWindow + 1, due |-> 0]

\* The domain cache is loaded from the database, the other tables start empty.
Init ==
    /\ conf \in Configs
    /\ \E loaded \in [Domains -> Loaded \cup {None}] :
       tab = [pin  |-> [c \in Clients |-> [d \in Domains |-> None]],
              meta |-> loaded,
              mark |-> [p \in Pids |-> [d \in Domains |-> 0]],
              wins |-> [d \in Domains |-> NoWins],
              dead |-> [d \in Domains |-> NoEntry],
              ok   |-> [d \in Domains |-> ProveWindow]]
    /\ req = [r \in Requests |-> Idle]
    /\ held = {}
    /\ seen = [d \in Domains |-> NothingSeen]

Least(m, n) == IF m <= n THEN m ELSE n

-----------------------------------------------------------------------------
(* The tables: each operator gives t as the method of that name leaves it.  *)

\* Listed in local_direct_domains, or the endpoint of a proxy itself.
IsDirect(d) == d \in conf.direct
DirectDomains == {d \in Domains : IsDirect(d)}

Restricted(d) == d \in conf.restricted
Permits(d, p) == Restricted(d) => p \in Allowed
Permitted(d) == {p \in Proxies : Permits(d, p)}

Active(t, d) == t.dead[d].left > 0

CheckedAway(t, d) == [t EXCEPT !.dead[d] = NoEntry]    \* mutant: no verdict, no entry

\* _dead_target_active, when it answers no: a verdict that ended takes its
\* evidence with it, evidence alone stays until its window ends.
Checked(t, d) ==
    [t EXCEPT !.dead[d] = IF @.prove = 0 THEN NoEntry
                          ELSE IF @.judged THEN [@ EXCEPT !.judged = FALSE, !.fails = 0]
                          ELSE @]

Evidence(t, d) ==
    LET old == IF t.dead[d].prove = 0 THEN NoEntry ELSE t.dead[d]
        n == Least(old.fails + 1, MinFails)
    IN  [fails |-> n, prove |-> ProveWindow + 1,
         judged |-> old.judged \/ n = MinFails,
         left |-> IF n = MinFails THEN DeadTtl ELSE old.left]

Noted(t, d) ==
    [t EXCEPT !.dead[d] = IF t.ok[d] < ProveWindow THEN NoEntry ELSE Evidence(t, d)]

Cleared(t, d) == [t EXCEPT !.dead[d] = NoEntry]

\* sure: the old winner's circuit is open or the new one is clearly faster.
Unopposed(t, d, p, sure) == MinWins = 1 \/ t.meta[d] \in {None, p} \/ sure
Enough(t, d, p) == (IF t.wins[d].pid = p THEN t.wins[d].n ELSE 0) + 1 >= MinWins
MaySwitch(t, d, p, sure) == Unopposed(t, d, p, sure) \/ Enough(t, d, p)
CountedAnew(t, d, p, sure) ==                           \* mutant: starts at 0
    IF Unopposed(t, d, p, sure) THEN t ELSE [t EXCEPT !.wins[d] = [pid |-> p, n |-> 0]]
Counted(t, d, p, sure) ==
    IF Unopposed(t, d, p, sure) THEN t
    ELSE [t EXCEPT !.wins[d] = [pid |-> p, n |-> IF Enough(t, d, p) THEN 0 ELSE 1]]

Unmarked(t, d, p) == [t EXCEPT !.mark[p][d] = 0]
NotDegraded(t, d, p) == t                               \* mutant: only the pin is dropped
Degraded(t, d, p) == [t EXCEPT !.mark[p][d] = IF @ > 0 THEN @ ELSE MarkTtl]

RecordedThenCleared(t, d, p, worse, sure) ==  \* mutant: cleared after both early returns
    LET u == Counted(Unmarked(t, d, p), d, p, sure)
    IN  IF ~MaySwitch(t, d, p, sure) \/ worse THEN u
        ELSE [Cleared(u, d) EXCEPT !.meta[d] = p]

RecordedWin(t, d, p, worse, sure) ==
    LET u == Counted(Unmarked(t, d, p), d, p, sure)
        v == Cleared(u, d)
    IN  IF ~MaySwitch(t, d, p, sure) THEN u
        ELSE IF worse THEN v
        ELSE [v EXCEPT !.meta[d] = p]

Pinned(t, c, d, p, worse) == IF worse THEN t ELSE [t EXCEPT !.pin[c][d] = p]
Evicted(t, c, d) == [t EXCEPT !.pin[c][d] = None]
Reached(t, d) == [t EXCEPT !.ok[d] = 0]

-----------------------------------------------------------------------------
(* What an observer notes (history; nothing above reads it).                *)
(* Two events of one tick have no order worth a verdict: a success within   *)
(* the tick of a failure does not refute it.  Of an upgrade through a proxy *)
(* the observer sees the win and not the answer: the code enters its tunnel *)
(* under host and port, so that neither a refusal by the target nor a 101   *)
(* whose win is held back by the damping is evidence about the domain.      *)

SeenOk(s) == [s EXCEPT !.fails = IF s.gap = 0 THEN @ ELSE 0, !.run = 0]
\* through: the damping let the win through.
SeenWin(s, p, worse, through) ==
    [s EXCEPT !.by = IF worse THEN None ELSE p,
              !.row = IF worse THEN 0 ELSE IF s.by = p THEN Least(@ + 1, MinWins) ELSE 1,
              !.run = 0, !.due = IF through THEN 0 ELSE @,
              !.fails = IF through THEN 0 ELSE @]
SeenFailure(s, recent) ==
    IF recent THEN [s EXCEPT !.run = 0, !.due = 0]
    ELSE LET n == IF s.gap <= ProveWindow THEN Least(s.run + 1, MinFails) ELSE 1
         IN  [s EXCEPT !.fails = Least(@ + 1, MinFails), !.run = n, !.gap = 0,
                       !.due = IF n = MinFails THEN DeadTtl ELSE @]

-----------------------------------------------------------------------------
(* The decision chain.  q is the request, t the tables it has seen so far.  *)

Go(r, q, t) == req' = [req EXCEPT ![r] = q] /\ tab' = t

\* n: the status lines written last, which a client that has gone misses.
Ended(q, n) ==
    [Idle EXCEPT !.pc = "done", !.gone = q.gone,
                 !.answers = q.answers + (IF q.gone THEN 0 ELSE n)]

Single(q, via, p) == [q EXCEPT !.pc = "single", !.via = via, !.pid = p]

\* The local candidate of a batch; its circuit may be open.
LocalToo(d) == IF conf.local /\ Permits(d, Local) THEN {{}, {Local}} ELSE {{}}

\* The candidates raced first, of an ordered list; the others are left.
Batch(list) == IF conf.stagger THEN list ELSE SubSeq(list, 1, Least(MaxRetries, Len(list)))
Left(list) == SubSeq(list, Len(Batch(list)) + 1, Len(list))

Racing(q, batch, left) ==
    [q EXCEPT !.pc = "race", !.via = "race", !.pid = None, !.cands = batch, !.queue = left,
              !.failed = {}]

\* ordered_for_domain: an open circuit, a full proxy or a policy may keep any
\* proxy off the list, and the scores put the others in any order.
Orders(d) == UNION {SetToSeqs(S) : S \in SUBSET Permitted(d)}

\* An empty list falls back to the machine, unless the policy forbids that.
RaceStart(r, q, t) ==
    \E list \in Orders(q.domain) :
        \/ /\ list = <<>> /\ Permits(q.domain, Local)
           /\ Go(r, Racing(q, {Local}, <<>>), t)
        \/ /\ list = <<>> /\ ~Permits(q.domain, Local)
           /\ Go(r, Ended(q, 1), t)
        \/ /\ list # <<>>
           /\ \E l \in LocalToo(q.domain) :
                  Go(r, Racing(q, Range(Batch(list)) \cup l, Left(list)), t)

\* _get_fresh_proxy: an open circuit, a worse latency or the TTL may hide it.
Fresh(t, d) ==
    {p \in {t.meta[d]} : p # None /\ Permits(d, p) /\ t.mark[p][d] = 0}

CacheOrRace(r, q, t) ==
    \/ \E p \in Fresh(t, q.domain) : Go(r, Single(q, "cache", p), t)
    \/ RaceStart(r, q, t)

Pinnable(t, c, d) == {p \in {t.pin[c][d]} : p # None /\ Permits(d, p)}

\* _get_sticky_proxy uses the pin, drops it, or finds it due for another look.
StickyCacheOrRace(r, q, t) ==
    LET c == q.client
        d == q.domain
        u == Evicted(t, c, d)
    IN  \/ \E p \in Pinnable(t, c, d) : Go(r, Single(q, "sticky", p), t)
        \/ CacheOrRace(r, q, u)
        \/ t.pin[c][d] # None /\ (CacheOrRace(r, q, t) \/ RaceStart(r, q, u))

Asked(r, proto, c, d) ==
    [Idle EXCEPT !.pc = "asked", !.proto = proto, !.client = c, !.domain = d]

Free(r) == req[r].pc = "idle"

\* Malformed, unauthorised or too large: answered and not passed on.
Refuse(r) ==
    /\ Free(r)
    /\ Go(r, Ended(Idle, 1), tab)
    /\ UNCHANGED <<held, seen>>

\* Too slow, too long a header, no request line, or broken off: the connection
\* is closed without a word, whether or not the client is still there.
HangUp(r) ==
    /\ Free(r)
    /\ Go(r, [Idle EXCEPT !.pc = "unheard"], tab)
    /\ UNCHANGED <<held, seen>>

\* Unless the circuit of the machine is open.
ServedDirectly(r, q, t) ==
    \/ Go(r, Single(q, "direct", Local), t)
    \/ Go(r, Ended(q, 1), t)

ArriveDirect(r) ==
    /\ Free(r)
    /\ \E proto \in Protos \ {"ws"}, c \in Clients, d \in DirectDomains :
           ServedDirectly(r, Asked(r, proto, c, d), tab)
    /\ UNCHANGED <<held, seen>>

FastFail(r) ==
    /\ Free(r)
    /\ \E proto \in Protos, c \in Clients, d \in Domains :
           /\ proto # "ws" => d \notin DirectDomains
           /\ Active(tab, d)
           /\ Go(r, Ended(Asked(r, proto, c, d), 1), tab)
    /\ UNCHANGED <<held, seen>>

Arrive(r) ==
    /\ Free(r)
    /\ \E proto \in Protos \ {"ws"}, c \in Clients, d \in Domains \ DirectDomains :
           /\ ~Active(tab, d)
           /\ StickyCacheOrRace(r, Asked(r, proto, c, d), Checked(tab, d))
    /\ UNCHANGED <<held, seen>>

-----------------------------------------------------------------------------
(* One proxy alone: pinned, cached or, for direct domains, the machine.     *)

Alone(r) == req[r].pc = "single"

Kind(q) == IF q.proto = "tunnel" /\ q.via = "direct" THEN "direct" ELSE q.proto
Closed(r) == {h \in held : h[1] # r}

Opened(q) == IF q.proto = "http" THEN [q EXCEPT !.pc = "stream", !.answers = @ + 1]
             ELSE [q EXCEPT !.pc = "greet"]

\* _bump_sticky renews what is there, or records like _record_sticky.
Kept(q, t, worse) ==
    LET there == q.via = "sticky" /\ t.pin[q.client][q.domain] # None
    IN  IF q.via \in {"sticky", "cache"}
        THEN Pinned(t, q.client, q.domain, q.pid, worse /\ ~there)
        ELSE t

\* A tunnel lasts, so its pin is written before the bytes flow.
SingleOk(r) ==
    LET q == req[r]
        t == Reached(tab, q.domain)
    IN  /\ Alone(r)
        /\ \E worse \in BOOLEAN :
               Go(r, Opened(q), IF q.proto = "tunnel" THEN Kept(q, t, worse) ELSE t)
        /\ held' = held \cup {<<r, Kind(q)>>}
        /\ seen' = [seen EXCEPT ![q.domain] = SeenOk(@)]

\* No other way is tried for a direct domain.
DirectFails(r, q, t) == q.via = "direct" /\ Go(r, Ended(q, 1), t)

\* The handler drops whatever pin is there now, marks the pair and goes on.
FallBack(r, q, t) ==
    LET u == Degraded(t, q.domain, q.pid)
        s == [q EXCEPT !.pid = None, !.via = None, !.failed = @ \cup {q.pid}]
    IN  \/ q.via = "sticky" /\ CacheOrRace(r, s, Evicted(u, q.client, q.domain))
        \/ q.via = "cache" /\ RaceStart(r, s, u)
        \/ DirectFails(r, q, t)

SingleFails(r) ==
    /\ Alone(r)
    /\ FallBack(r, req[r], tab)
    /\ UNCHANGED <<held, seen>>

ServerErrorShown(r) ==                                  \* mutant: status line written first
    LET q == req[r]
    IN  /\ Alone(r) /\ q.proto = "http" /\ q.via # "direct"
        /\ FallBack(r, [q EXCEPT !.answers = @ + 1], Reached(tab, q.domain))
        /\ seen' = [seen EXCEPT ![q.domain] = SeenOk(@)]
        /\ UNCHANGED held

\* A 5xx counts as a success of the proxy and is not shown to the client.
SingleServerError(r) ==
    LET q == req[r]
    IN  /\ Alone(r) /\ q.proto = "http" /\ q.via # "direct"
        /\ FallBack(r, q, Reached(tab, q.domain))
        /\ seen' = [seen EXCEPT ![q.domain] = SeenOk(@)]
        /\ UNCHANGED held

StreamEnds(r) ==
    LET q == req[r]
    IN  /\ q.pc = "stream"
        /\ \E worse \in BOOLEAN : Go(r, Ended(q, 0), Kept(q, tab, worse))
        /\ held' = Closed(r)
        /\ UNCHANGED seen

GreetOk(r) ==
    LET q == req[r]
    IN  /\ q.pc = "greet" /\ ~q.gone
        /\ Go(r, [q EXCEPT !.pc = "relay", !.via = None, !.pid = None,
                          !.failed = {}, !.answers = @ + 1], tab)
        /\ UNCHANGED <<held, seen>>

GreetFailsOpen(r) ==                                    \* mutant: greeting not guarded
    LET q == [req[r] EXCEPT !.gone = TRUE]
    IN  /\ q.pc = "greet"
        /\ \/ q.via = "race" /\ Go(r, Ended(q, 0), tab)
           \/ FallBack(r, q, tab)
        /\ UNCHANGED <<held, seen>>

\* The client has gone.  A pinned or cached single takes that for a failure
\* of its proxy and tries the next step of the chain all the same.
GreetFails(r) ==
    LET q == [req[r] EXCEPT !.gone = TRUE]
    IN  /\ q.pc = "greet"
        /\ \/ q.via = "race" /\ Go(r, Ended(q, 0), tab)
           \/ FallBack(r, q, tab)
        /\ held' = Closed(r)
        /\ UNCHANGED seen

RelayEnds(r) ==
    LET q == req[r]
    IN  /\ q.pc = "relay"
        /\ Go(r, Ended(q, 0), tab)
        /\ held' = Closed(r)
        /\ UNCHANGED seen

-----------------------------------------------------------------------------
(* Races.                                                                   *)

InRace(r) == req[r].pc = "race"

\* A candidate answers with a server error: seen as a success, not a winner.
RaceServerError(r) ==
    LET d == req[r].domain
    IN  /\ InRace(r) /\ req[r].proto = "http"
        /\ tab' = Reached(tab, d)
        /\ seen' = [seen EXCEPT ![d] = SeenOk(@)]
        /\ UNCHANGED <<req, held>>

RaceWon(r) ==
    LET q == req[r]
        d == q.domain
        t == Reached(tab, d)
    IN  /\ InRace(r)
        /\ \E p \in q.cands, worse, sure \in BOOLEAN :
               /\ Go(r, Opened([q EXCEPT !.pid = p, !.cands = {}, !.queue = <<>>]),
                     Pinned(RecordedWin(t, d, p, worse, sure), q.client, d, p, worse))
               /\ seen' = [seen EXCEPT ![d] =
                              SeenWin(SeenOk(@), p, worse, MaySwitch(t, d, p, sure))]
        /\ held' = held \cup {<<r, Kind(q)>>}

\* The second batch of a plain HTTP request is built without its host, so the
\* policy is not asked about the machine itself.
Again(q) ==
    IF q.proto = "http" THEN IF conf.local THEN {{}, {Local}} ELSE {{}}
    ELSE LocalToo(q.domain)

RaceAgain(r) ==
    LET q == req[r]
    IN  /\ InRace(r) /\ q.queue # <<>>
        /\ \E l \in Again(q) : Go(r, Racing(q, Range(Batch(q.queue)) \cup l, <<>>), tab)
        /\ UNCHANGED <<held, seen>>

Exhausted(r, q) ==
    LET d == q.domain
    IN  /\ Go(r, Ended(q, 1), Noted(tab, d))
        /\ seen' = [seen EXCEPT ![d] = SeenFailure(@, tab.ok[d] < ProveWindow)]
        /\ UNCHANGED held

RaceLost(r) == InRace(r) /\ req[r].queue = <<>> /\ Exhausted(r, req[r])

-----------------------------------------------------------------------------
(* WebSocket upgrades: one candidate after the other.                       *)

OneOf(S) == {<<>>} \cup {<<p>> : p \in S}

\* Pinned proxy, cached proxy, the others by cost, the machine itself.
WsQueue(first, others) ==
    first \o others \o (IF conf.local /\ Local \notin Range(first) THEN <<Local>> ELSE <<>>)

\* The pin and the cached proxy lead the list, if they may be used; a pin that
\* may not is dropped or left.
ArriveWs(r) ==
    /\ Free(r) /\ "ws" \in Protos
    /\ \E c \in Clients, d \in Domains :
           LET t == Checked(tab, d)
               q == [Asked(r, "ws", c, d) EXCEPT !.pc = "ws"]
           IN  /\ ~Active(tab, d)
               /\ \/ /\ IsDirect(d)
                     /\ Go(r, [q EXCEPT !.queue = <<Local>>], t)
                  \/ /\ d \notin DirectDomains
                     /\ \E use \in OneOf(Pinnable(t, c, d)),
                           hit \in OneOf(Fresh(t, d)),
                           drop \in BOOLEAN, others \in Orders(d) :
                        LET first == IF hit = use THEN use ELSE use \o hit
                        IN  /\ Range(first) \cap Range(others) = {}
                            /\ Go(r, [q EXCEPT !.queue = WsQueue(first, others)],
                                  IF use = <<>> /\ drop THEN Evicted(t, c, d) ELSE t)
    /\ UNCHANGED <<held, seen>>

WsOpens(r) ==
    LET q == req[r]
    IN  /\ q.pc = "ws" /\ q.queue # <<>>
        /\ Go(r, [q EXCEPT !.pc = "head", !.pid = Head(q.queue), !.queue = Tail(@),
                           !.failed = @ \cup {Head(q.queue)}], tab)
        /\ held' = held \cup {<<r, "ws">>}
        /\ UNCHANGED seen

\* No connection, no tunnel or no answer: on to the next.
WsFails(r) ==
    LET q == req[r]
    IN  /\ q.pc = "head"
        /\ Go(r, [q EXCEPT !.pc = "ws", !.pid = None], tab)
        /\ held' = Closed(r)
        /\ UNCHANGED seen

WsExhausted(r) ==
    LET q == req[r]
    IN  /\ q.pc = "ws" /\ q.queue = <<>>
        /\ IF q.failed # {} THEN Exhausted(r, q)
           ELSE Go(r, Ended(q, 1), tab) /\ UNCHANGED <<held, seen>>

\* Only a direct answer is entered under the domain: through a proxy it is
\* the tunnel's host and port that were reached.
Answered(q, t) == IF q.pid = Local THEN Reached(t, q.domain) ELSE t
SeenAnswer(q, s) == IF q.pid = Local THEN SeenOk(s) ELSE s

\* The target answers something else than 101: shown as it is.  When the
\* client has gone by then, nobody closes the upstream connection.
WsRefused(r) ==
    LET q == req[r]
    IN  /\ q.pc = "head"
        /\ \/ Go(r, Ended(q, 1), Answered(q, tab)) /\ held' = Closed(r)
           \/ Go(r, Ended([q EXCEPT !.gone = TRUE], 0), Answered(q, tab)) /\ UNCHANGED held
        /\ seen' = [seen EXCEPT ![q.domain] = SeenAnswer(q, @)]

WsSwitches(r) ==
    LET q == req[r]
        d == q.domain
        t == Answered(q, tab)
    IN  /\ q.pc = "head"
        /\ \E worse, sure \in BOOLEAN :
               /\ \/ Go(r, [q EXCEPT !.pc = "relay", !.pid = None, !.queue = <<>>,
                                 !.failed = {}, !.answers = @ + 1],
                        RecordedWin(t, d, q.pid, worse, sure))
                  \/ Go(r, Ended([q EXCEPT !.gone = TRUE], 0),
                        RecordedWin(t, d, q.pid, worse, sure))
               /\ seen' = [seen EXCEPT ![d] =
                    SeenWin(SeenAnswer(q, @), q.pid, worse, MaySwitch(t, d, q.pid, sure))]
        /\ UNCHANGED held

-----------------------------------------------------------------------------
\* stop() cancels the handler where it waits; the finally clauses run, which
\* an upgrade and a direct tunnel have only once they relay.
Cancel(r) ==
    LET q == req[r]
    IN  /\ q.pc \notin {"idle", "unheard", "done"}
        /\ Go(r, Ended([q EXCEPT !.gone = @ \/ q.answers = 0], 0), tab)
        /\ \/ held' = Closed(r)
           \/ q.pc = "head" /\ UNCHANGED held
           \/ q.pc = "greet" /\ q.via = "direct" /\ UNCHANGED held
        /\ UNCHANGED seen

\* _probe_get, with probe_with_get: a probe is answered by a target, which it
\* enters under the domain of its tunnels.
ProbeAnswered(d) ==
    /\ tab' = Reached(tab, d)
    /\ seen' = [seen EXCEPT ![d] = SeenOk(@)]
    /\ UNCHANGED <<req, held>>

Less(n) == IF n = 0 THEN 0 ELSE n - 1

Tick ==
    /\ tab' = [tab EXCEPT
          !.mark = [p \in Pids |-> [d \in Domains |-> Less(@[p][d])]],
          !.dead = [d \in Domains |-> [tab.dead[d] EXCEPT !.prove = Less(@), !.left = Less(@)]],
          !.ok = [d \in Domains |-> Least(@[d] + 1, ProveWindow)]]
    /\ seen' = [d \in Domains |->
          [seen[d] EXCEPT !.gap = Least(@ + 1, ProveWindow + 1), !.due = Less(@),
                          !.run = IF tab.dead[d].left = 1 THEN 0 ELSE @]]
    /\ UNCHANGED <<req, held>>

Next ==
    /\ UNCHANGED conf
    /\ \/ Tick
       \/ \E d \in Domains : ProbeAnswered(d)
       \/ \E r \in Requests :
          \/ Refuse(r) \/ HangUp(r) \/ ArriveDirect(r) \/ FastFail(r) \/ Arrive(r) \/ ArriveWs(r)
          \/ SingleOk(r) \/ SingleFails(r) \/ SingleServerError(r) \/ StreamEnds(r)
          \/ GreetOk(r) \/ GreetFails(r) \/ RelayEnds(r)
          \/ RaceServerError(r) \/ RaceWon(r) \/ RaceAgain(r) \/ RaceLost(r)
          \/ WsOpens(r) \/ WsFails(r) \/ WsExhausted(r) \/ WsRefused(r) \/ WsSwitches(r)
          \/ Cancel(r)

Spec == Init /\ [][Next]_vars

-----------------------------------------------------------------------------
(* What must hold.                                                          *)

Maybe(S) == S \cup {None}
TypeOK ==
    /\ conf \in Configs
    /\ tab \in [pin  : [Clients -> [Domains -> Maybe(Pids)]],
                meta : [Domains -> Maybe(Pids)],
                mark : [Pids -> [Domains -> 0 .. MarkTtl]],
                wins : [Domains -> [pid : Maybe(Pids), n : 0 .. 1]],
                dead : [Domains -> [fails : 0 .. MinFails, prove : 0 .. ProveWindow + 1,
                                    judged : BOOLEAN, left : 0 .. DeadTtl]],
                ok   : [Domains -> 0 .. ProveWindow]]
    /\ \A r \in Requests :
          /\ req[r].pc \in {"idle", "unheard", "done", "single", "stream", "greet", "relay",
                            "race", "ws", "head"}
          /\ req[r].cands \cup Range(req[r].queue) \cup req[r].failed \subseteq Pids
          /\ req[r].pid \in Maybe(Pids)
    /\ held \subseteq Requests \X (Protos \cup {"direct"})

\* A request that was read gets one status line: whatever fails on the way to
\* an upstream, the chain goes on only while nothing was written, and it ends
\* with an answer unless the client has gone (_dispatch_single,
\* _forward_single).  One that was not read whole ("unheard") gets at most the
\* refusal of the reader (_handle_one_client_request).
AnsweredOnce ==
    \A r \in Requests :
        /\ req[r].answers <= 1
        /\ req[r].pc = "done" => req[r].answers = 1 \/ req[r].gone

\* No way out of a request over HTTP or of a proxied CONNECT leaves its
\* upstream stream or tunnel open: not a client that goes before the greeting,
\* not a fall back to the next step, not stop() (_establish_and_relay,
\* _relay_tunnel).  Upgrades and direct tunnels do not have that guarantee.
NoTunnelLeft ==
    \A h \in held :
        h[2] \in {"http", "tunnel"} => req[h[1]].pc \in {"stream", "greet", "relay"}

\* A proxy that has just failed alone as the pinned one is not tried alone
\* again by the same request as the cached one: the eviction of the pin and
\* the mark of the pair belong together (_degrade_send_proxy).
NoSecondSingle ==
    \A r \in Requests :
        req[r].pc = "single" => req[r].pid \notin req[r].failed

\* A target is pronounced unreachable only when MinFails requests have
\* exhausted their candidates since an answer of it was last entered under its
\* domain, over HTTP, CONNECT or the machine itself, or since an upgrade last
\* won and was not held back by the damping, be its proxy worse than the best:
\* one failure, or failures with such a success in between, is no verdict
\* (_note_target_race_failure, and the comment at router.py 1242).
JudgedOnEvidence ==
    [][\A d \in Domains :
          ~Active(tab, d) /\ Active(tab', d) => seen'[d].fails = MinFails]_vars

\* And it is pronounced then: MinFails failures in a row, each within the
\* window of the one before, without a success, keep the verdict for its full
\* time, whichever requests look at the half-complete evidence meanwhile
\* (_dead_target_active must not take it for a stale entry).
JudgedAfterFails ==
    \A d \in Domains : seen[d].due > 0 => tab.dead[d].left >= seen[d].due

\* The damping of switches delays a new winner and does not lock it out: who
\* wins MinWins times in a row, and is not much slower than the best, is the
\* cached proxy of the domain (_damping_allows_switch).
WinsSwitch ==
    \A d \in Domains : seen[d].row >= MinWins => tab.meta[d] = seen[d].by
=============================================================================
